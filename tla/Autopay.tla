------------------------------ MODULE Autopay ------------------------------
(***************************************************************************)
(* Autopay (payments/autopay.ts) over the ledger, against Stripe.          *)
(*                                                                         *)
(* Once a day the scheduler takes stock of the families whose invoices are *)
(* due, then charges them one after the other.  A charge creates the day's *)
(* run, asks Stripe for an off-session PaymentIntent and waits.  While it  *)
(* waits, parents and finance go on using the program, Stripe may decline, *)
(* succeed or keep processing, the answer may get lost, and the process    *)
(* may die; reconciliation, which sees what succeeded at Stripe, is what   *)
(* then puts the books right.                                              *)
(*                                                                         *)
(* A run is identified by <<family, day>>, which the schema makes unique.  *)
(* Its id is the idempotency key of its intent, so an intent has the same  *)
(* name, and so has the payment that books it.                             *)
(***************************************************************************)
EXTENDS Integers, FiniteSets

CONSTANTS
  Families, Periods, Invoices, Terms, NoDate, NoRow,   \* as in Ledger
  ByHand,     \* idempotency keys of payments that autopay does not make
  Amounts,    \* what those payments come in
  LastDay,    \* the days modelled are 1 .. LastDay (a bound)
  ParentDays, \* the days on which parents change their autopay (a bound)
  OfficeDays, \* the days on which invoices and payments are made and undone (a bound)
  MayCrash,   \* may the process die?
  Mishaps     \* what may go wrong in reconciliation, of the following

AllMishaps ==
  { "record fails",          \* a record throws for one intent
    "scan fails",            \* the pass is given up in the middle of what it found
    "pending search fails",  \* the search for pending intents fails
    "between searches" }     \* an intent settles between a pass's searches

ASSUME DaysAndCrashes ==
  /\ LastDay \in Nat \ {0} /\ MayCrash \in BOOLEAN
  /\ ParentDays \subseteq 1 .. LastDay /\ OfficeDays \subseteq 1 .. LastDay
  /\ Mishaps \subseteq AllMishaps

Days == 1 .. LastDay
Runs == Families \X Days

VARIABLES
  invoice, payment, reversal,  \* the ledger
  enrollment,  \* autopay_enrollments; a family without a row is one that is off
  run,         \* autopay_runs
  intent,      \* the PaymentIntents of the runs, at Stripe
  pass,        \* today's runAutopay: its stage, the families still to be
               \* charged with their amounts, and the call it waits for
  cursor,      \* reconcile_cursor: intents created on earlier days are not looked at
  scan,        \* the pass of reconciliation under way: what it found and has
               \* still to deal with, the latest day it saw, and the day of the
               \* earliest intent it could not record
  today

money == <<invoice, payment, reversal>>
vars  == <<money, enrollment, run, intent, pass, cursor, scan, today>>

\* The ledger's view of the retry ladder.
Ladder ==
  [f \in Families |->
     IF enrollment[f].failureCount = 0 /\ enrollment[f].nextAttemptAt = NoDate
     THEN "clear" ELSE "raised"]

L == INSTANCE Ledger WITH Enrolled <- Families, Keys <- Runs \cup ByHand, ladder <- Ladder

Enrollment == [enabled : BOOLEAN, card : BOOLEAN, failureCount : 0 .. 3,
               nextAttemptAt : Nat \cup {NoDate}, consentAt : Days \cup {NoDate}]
Run        == [amount : Nat \ {0}, status : {"pending", "charged", "failed"}]
Stages     == {"ahead", "turn", "waiting", "over"}
Scan       == [on : BOOLEAN, left : SUBSET Runs, latest : 0 .. LastDay, errored : 1 .. LastDay + 1]

\* The ledger's constants are sound; autopay's keys are nobody else's; and the
\* sentinel of an absent row is no run, no family and no state of an intent.
ASSUME LedgerConstants == L!SoundConstants
ASSUME RunsAreAutopays == ByHand \cap Runs = {}
ASSUME NoRowIsNothing ==
  NoRow \notin Run \cup Families \cup {"asked", "processing", "succeeded", "declined"}

TypeOK ==
  /\ L!TypeOK
  /\ enrollment \in [Families -> Enrollment]
  /\ run \in [Runs -> Run \cup {NoRow}]
  /\ intent \in [Runs -> {NoRow, "asked", "processing", "succeeded", "declined"}]
  /\ pass.stage \in Stages
  /\ DOMAIN pass.due \subseteq Families
  /\ pass.call \in Families \cup {NoRow}
  /\ pass.answer \in {NoRow, "processing", "succeeded", "declined"}
  /\ cursor \in 0 .. LastDay
  /\ scan \in Scan
  /\ today \in Days

-----------------------------------------------------------------------------
(* What is due *)

\* amountDue: the open balances of the invoices due by today.
AmountDue(f) ==
  L!SumOf([i \in Invoices |->
    IF /\ i[1] = f /\ L!Live(i)
       /\ invoice[i].status \in {"open", "partially_paid"}
       /\ invoice[i].due # NoDate /\ invoice[i].due <= today
       /\ L!Balance(i) > 0
    THEN L!Balance(i) ELSE 0])

OffLadder(f) ==
  enrollment[f].nextAttemptAt = NoDate \/ enrollment[f].nextAttemptAt <= today

\* Fault: families that owe nothing are charged too.
Due_NothingOwed ==
  {f \in Families : enrollment[f].enabled /\ enrollment[f].card /\ OffLadder(f)}

\* Fault: the retry ladder is not looked at.
Due_LadderIgnored ==
  {f \in Families : enrollment[f].enabled /\ enrollment[f].card /\ AmountDue(f) > 0}

\* autopayDue: on, off the ladder, with a card, and owing something.
Due ==
  {f \in Families : /\ enrollment[f].enabled /\ enrollment[f].card
                    /\ OffLadder(f) /\ AmountDue(f) > 0}

RunIs(r, status) == run[r] # NoRow /\ run[r].status = status
Pending(f) == \E d \in Days : RunIs(<<f, d>>, "pending")

-----------------------------------------------------------------------------
(* Statements that several handlers run *)

Forgiven(f) == [enrollment EXCEPT ![f].failureCount = 0, ![f].nextAttemptAt = NoDate]

\* recordPayment after its transaction: a family without debt is forgiven.
AfterRecording(f) ==
  IF L!FamilyBalance(f)' <= 0 THEN Forgiven(f) ELSE enrollment

Marked(r, status) == [run EXCEPT ![r].status = status]

\* The rows of a payment that is spread oldest due first; a no-op for a key
\* that was used before.
Recorded(k, f, amt) ==
  IF payment[k] = NoRow THEN L!RecordRows(k, f, amt, L!OldestDueFirst(f, amt))
                        ELSE UNCHANGED money

\* Fault: a third failure does not turn autopay off.
Demoted_StaysOn(f, d) ==
  LET n == enrollment[f].failureCount + 1
  IN [enrollment EXCEPT ![f].failureCount = n,
                        ![f].nextAttemptAt = d + (IF n = 1 THEN 2 ELSE 3)]

\* markRunFailed on the ladder: two days, then three, then off.
Demoted(f, d) ==
  LET n == enrollment[f].failureCount + 1
  IN IF n >= 3
     THEN [enrollment EXCEPT ![f].enabled = FALSE, ![f].failureCount = n,
                             ![f].nextAttemptAt = NoDate]
     ELSE [enrollment EXCEPT ![f].failureCount = n,
                             ![f].nextAttemptAt = d + (IF n = 1 THEN 2 ELSE 3)]

\* The pass once it has dealt with a family, and once the process has died.
Onward(due) ==
  [stage |-> IF DOMAIN due = {} THEN "over" ELSE "turn",
   due |-> due, call |-> NoRow, answer |-> NoRow]
Lost == IF pass.stage = "ahead" THEN pass ELSE Onward(<<>>)

\* No pass of reconciliation; nothing was found that could not be recorded.
NoScan == [on |-> FALSE, left |-> {}, latest |-> 0, errored |-> LastDay + 1]

\* The process dies, and with it whatever was under way.
Dies == MayCrash /\ pass' = Lost /\ scan' = NoScan

\* Nothing else runs between two awaits of the daily pass, nor while
\* reconciliation goes through what a search has found.
Looping == scan.left # {}
Yielded == pass.stage # "turn" /\ ~Looping

\* Fault: a run is marked charged without its payment being recorded.
Settle_Unbooked(f, d, then) ==
  /\ UNCHANGED money
  /\ run' = Marked(<<f, d>>, "charged")
  /\ enrollment' = Forgiven(f)
  /\ pass' = then

\* A charge that is known to have succeeded: recordPayment, unless somebody
\* has recorded it already, then onAutopaySucceeded.
Settle(f, d, then) ==
  /\ Recorded(<<f, d>>, f, run[<<f, d>>].amount)
  /\ run' = Marked(<<f, d>>, "charged")
  /\ enrollment' = Forgiven(f)
  /\ pass' = then

\* The same cut off on the way: after the transaction, after the reset of the
\* ladder that follows it, or after the run has been marked.
SettlePartly(f, d) ==
  /\ Recorded(<<f, d>>, f, run[<<f, d>>].amount)
  /\ \/ run' = run /\ enrollment' = enrollment
     \/ /\ run' \in {run, Marked(<<f, d>>, "charged")}
        /\ enrollment' = IF payment[<<f, d>>] = NoRow THEN AfterRecording(f) ELSE enrollment

SettleCutShort(f, d) == SettlePartly(f, d) /\ Dies

-----------------------------------------------------------------------------
(* The daily pass *)

Init ==
  /\ enrollment = [f \in Families |-> [enabled |-> FALSE, card |-> FALSE, failureCount |-> 0,
                                       nextAttemptAt |-> NoDate, consentAt |-> NoDate]]
  /\ L!Init
  /\ run = [r \in Runs |-> NoRow]
  /\ intent = [r \in Runs |-> NoRow]
  /\ pass = [stage |-> "ahead", due |-> <<>>, call |-> NoRow, answer |-> NoRow]
  /\ cursor = 0
  /\ scan = NoScan
  /\ today = 1

\* The tick of the scheduler: runAutopay takes stock of what is due.
StartPass ==
  /\ pass.stage = "ahead"
  /\ pass' = Onward([f \in Due |-> AmountDue(f)])
  /\ UNCHANGED <<money, enrollment, run, intent, cursor, scan, today>>

\* Fault: a run that is still pending does not stop the next charge.
Chargeable_PendingToo(f) == enrollment[f].card /\ run[<<f, today>>] = NoRow

\* chargeFamily goes ahead: there is a card, no earlier charge is unresolved,
\* and today has no run yet.
Chargeable(f) == enrollment[f].card /\ ~Pending(f) /\ run[<<f, today>>] = NoRow

\* The part of chargeFamily before its await: the run is created and Stripe
\* asked, unless the process dies before the request has left.
Charge(f) ==
  /\ pass.stage = "turn" /\ f \in DOMAIN pass.due
  /\ Chargeable(f)
  /\ run' = [run EXCEPT ![<<f, today>>] = [amount |-> pass.due[f], status |-> "pending"]]
  /\ \/ /\ intent' = [intent EXCEPT ![<<f, today>>] = "asked"]
        /\ pass' = [stage |-> "waiting", call |-> f, answer |-> NoRow,
                    due |-> [g \in DOMAIN pass.due \ {f} |-> pass.due[g]]]
        /\ UNCHANGED scan
     \/ UNCHANGED intent /\ Dies
  /\ UNCHANGED <<money, enrollment, cursor, today>>

\* A family that cannot be charged after all is passed over.
Skip(f) ==
  /\ pass.stage = "turn" /\ f \in DOMAIN pass.due
  /\ ~Chargeable(f)
  /\ pass' = Onward([g \in DOMAIN pass.due \ {f} |-> pass.due[g]])
  /\ UNCHANGED <<money, enrollment, run, intent, cursor, scan, today>>

Answered(f, outcome) == pass.call = f /\ pass.answer = outcome

\* Stripe's answer arrives: booked, left pending, or a step down the ladder.  A
\* record that throws is taken for an answer that did not come.
Succeeded(f) ==
  /\ Answered(f, "succeeded")
  /\ \/ Settle(f, today, Onward(pass.due)) /\ UNCHANGED scan
     \/ "record fails" \in Mishaps /\ SettlePartly(f, today) /\ pass' = Onward(pass.due) /\ UNCHANGED scan
     \/ SettleCutShort(f, today)
  /\ UNCHANGED <<intent, cursor, today>>

StillProcessing(f) ==
  /\ Answered(f, "processing")
  /\ pass' = Onward(pass.due)
  /\ UNCHANGED <<money, enrollment, run, intent, cursor, scan, today>>

Declined(f) ==
  /\ Answered(f, "declined")
  /\ run' = Marked(<<f, today>>, "failed")
  /\ \/ enrollment' = Demoted(f, today) /\ pass' = Onward(pass.due) /\ UNCHANGED scan
     \/ UNCHANGED enrollment /\ Dies
  /\ UNCHANGED <<money, intent, cursor, today>>

\* Fault: a charge of unknown outcome is taken for a decline.
NoAnswer_MeansNo ==
  /\ pass.stage = "waiting"
  /\ run' = Marked(<<pass.call, today>>, "failed")
  /\ enrollment' = Demoted(pass.call, today)
  /\ pass' = Onward(pass.due)
  /\ UNCHANGED <<money, intent, cursor, scan, today>>

\* No answer arrives (timeout, network, an error that is no decline): the run
\* stays pending, whatever Stripe did or is yet to do with the request.
NoAnswer ==
  /\ pass.stage = "waiting"
  /\ pass' = Onward(pass.due)
  /\ UNCHANGED <<money, enrollment, run, intent, cursor, scan, today>>

-----------------------------------------------------------------------------
(* Stripe *)

\* The request reaches Stripe, or never does; an answer finds only a pass that
\* still waits for it.
StripeActs(f, outcome) ==
  /\ intent[<<f, today>>] = "asked"
  /\ intent' = [intent EXCEPT ![<<f, today>>] = outcome]
  /\ pass' = IF pass.call = f /\ outcome # NoRow THEN [pass EXCEPT !.answer = outcome] ELSE pass
  /\ UNCHANGED <<money, enrollment, run, cursor, scan, today>>

StripeSettles(r, outcome) ==
  /\ intent[r] = "processing"
  /\ "between searches" \in Mishaps \/ ~scan.on
  /\ intent' = [intent EXCEPT ![r] = outcome]
  /\ UNCHANGED <<money, enrollment, run, pass, cursor, scan, today>>

-----------------------------------------------------------------------------
(* Reconciliation of autopay's intents, one pass at a time.  How passes      *)
(* overlap, and what becomes of other intents, is the subject of Reconcile.  *)
(* Days stand for seconds here: the intents of a day are of one second.      *)

\* Stripe answers the search for succeeded intents: those created since the
\* cursor.  The latest may be one of these or somebody else's.
Search(latest) ==
  /\ ~scan.on
  /\ latest \in cursor .. today
  /\ LET found == {r \in Runs : intent[r] = "succeeded" /\ r[2] >= cursor}
     IN /\ \A r \in found : r[2] <= latest
        /\ scan' = [on |-> TRUE, left |-> found, latest |-> latest, errored |-> LastDay + 1]
  /\ UNCHANGED <<money, enrollment, run, intent, pass, cursor, today>>

DealtWith(r) == [scan EXCEPT !.left = @ \ {r}]

\* The loop comes upon a succeeded intent: one that is booked already resolves
\* its run all the same, every time it is seen.
Reconcile(f, d) ==
  /\ <<f, d>> \in scan.left
  /\ Settle(f, d, pass)
  /\ scan' = DealtWith(<<f, d>>)
  /\ UNCHANGED <<intent, cursor, today>>

ReconcileCutShort(f, d) ==
  /\ <<f, d>> \in scan.left
  /\ SettleCutShort(f, d)
  /\ UNCHANGED <<intent, cursor, today>>

\* Fault: an intent whose record failed does not hold the cursor.
RecordFails_NotHeld(f, d) ==
  /\ "record fails" \in Mishaps
  /\ <<f, d>> \in scan.left /\ payment[<<f, d>>] = NoRow
  /\ UNCHANGED <<money, enrollment, run>> \/ SettlePartly(f, d)
  /\ scan' = DealtWith(<<f, d>>)
  /\ UNCHANGED <<intent, pass, cursor, today>>

\* A record throws, before its transaction or in what follows it: the loop goes
\* on, and the cursor will stay below the intent.
RecordFails(f, d) ==
  /\ "record fails" \in Mishaps
  /\ <<f, d>> \in scan.left /\ payment[<<f, d>>] = NoRow
  /\ UNCHANGED <<money, enrollment, run>> \/ SettlePartly(f, d)
  /\ scan' = [DealtWith(<<f, d>>) EXCEPT !.errored = IF d < @ THEN d ELSE @]
  /\ UNCHANGED <<intent, pass, cursor, today>>

\* The search for the next page fails, or what resolves the run of a booked
\* intent throws: the pass is given up, and the cursor stays.
ScanFails ==
  /\ "scan fails" \in Mishaps
  /\ Looping
  /\ scan' = NoScan
  /\ UNCHANGED <<money, enrollment, run, intent, pass, cursor, today>>

Least(S) == CHOOSE c \in S : \A x \in S : c <= x

\* Stripe answers the search for pending intents, or does not: the cursor moves
\* to the latest intent of the first search, held below the earliest that could
\* not be recorded and the earliest pending one there is an answer about.
AdvanceCursor ==
  /\ scan.on /\ ~Looping
  /\ LET held == {r[2] - 1 : r \in {q \in Runs : intent[q] = "processing" /\ q[2] >= cursor}}
         most == {scan.latest, scan.errored - 1}
     IN \/ cursor' = Least(most \cup held)
        \/ "pending search fails" \in Mishaps /\ cursor' = Least(most)
  /\ scan' = NoScan
  /\ UNCHANGED <<money, enrollment, run, intent, pass, today>>

-----------------------------------------------------------------------------
(* Parents and finance *)

\* setAutopay(true), with a saved card: consent clears the ladder.
TurnOn(f) ==
  /\ enrollment' = [enrollment EXCEPT ![f] =
                      [enabled |-> TRUE, card |-> TRUE, failureCount |-> 0,
                       nextAttemptAt |-> NoDate, consentAt |-> today]]
  /\ UNCHANGED <<money, run, intent, pass, cursor, scan, today>>

TurnOff(f) ==
  /\ enrollment' = [enrollment EXCEPT ![f].enabled = FALSE]
  /\ UNCHANGED <<money, run, intent, pass, cursor, scan, today>>

\* removeCard of the card that autopay charges.
RemoveCard(f) ==
  /\ enrollment[f].card
  /\ enrollment' = [enrollment EXCEPT ![f].enabled = FALSE, ![f].card = FALSE]
  /\ UNCHANGED <<money, run, intent, pass, cursor, scan, today>>

Generate(i, terms) ==
  /\ UNCHANGED <<enrollment, run, intent, pass, cursor, scan, today>>
  /\ L!GenerateForFamily(i, terms)

\* recordPayment through any other channel.
Pay(k, f, amt) ==
  /\ payment[k] = NoRow
  /\ Recorded(k, f, amt)
  /\ \/ enrollment' = AfterRecording(f) /\ UNCHANGED <<pass, scan>>
     \/ UNCHANGED enrollment /\ Dies
  /\ UNCHANGED <<run, intent, cursor, today>>

\* confirmPayment asks only whether an intent is the family's: one of autopay's is
\* booked too, and its run left as it is.
Confirm(f, d) ==
  /\ intent[<<f, d>>] = "succeeded"
  /\ Pay(<<f, d>>, f, run[<<f, d>>].amount)

Void(i) ==
  /\ UNCHANGED <<enrollment, run, intent, pass, cursor, scan, today>>
  /\ L!VoidInvoice(i)

Reverse(k) ==
  /\ UNCHANGED <<enrollment, run, intent, pass, cursor, scan, today>>
  /\ L!ReversePayment(k)

-----------------------------------------------------------------------------
(* Time and failure *)

Crash ==
  /\ pass.stage = "waiting" \/ scan.on
  /\ Dies
  /\ UNCHANGED <<money, enrollment, run, intent, cursor, today>>

\* A request is answered or given up within minutes, so the passes are over (or
\* were missed) and nothing is on its way to Stripe when the next day begins.
NewDay ==
  /\ today < LastDay
  /\ pass.stage \in {"ahead", "over"} /\ ~scan.on
  /\ \A r \in Runs : intent[r] # "asked"
  /\ today' = today + 1
  /\ pass' = [pass EXCEPT !.stage = "ahead"]
  /\ UNCHANGED <<money, enrollment, run, intent, cursor, scan>>

PassSteps ==
  \/ StartPass
  \/ \E f \in Families : Charge(f) \/ Skip(f)
  \/ \E f \in Families : Succeeded(f) \/ StillProcessing(f) \/ Declined(f)
  \/ NoAnswer

StripeSteps ==
  \/ \E f \in Families, o \in {NoRow, "processing", "succeeded", "declined"} : StripeActs(f, o)
  \/ \E r \in Runs, o \in {"succeeded", "declined"} : StripeSettles(r, o)

LoopSteps ==
  \/ \E f \in Families, d \in Days :
       Reconcile(f, d) \/ ReconcileCutShort(f, d) \/ RecordFails(f, d)
  \/ ScanFails

ScanSteps == (\E latest \in Days : Search(latest)) \/ AdvanceCursor

ParentSteps == \E f \in Families : TurnOn(f) \/ TurnOff(f) \/ RemoveCard(f)

OfficeSteps ==
  \/ \E i \in Invoices : \E terms \in Terms[i] : Generate(i, terms)
  \/ \E i \in Invoices : Void(i)
  \/ \E k \in ByHand, f \in Families, amt \in Amounts : Pay(k, f, amt)
  \/ \E f \in Families, d \in Days : Confirm(f, d)
  \/ \E k \in Runs \cup ByHand : Reverse(k)

Next ==
  \/ ~Looping /\ PassSteps
  \/ StripeSteps
  \/ LoopSteps
  \/ Yielded /\ ScanSteps
  \/ Yielded /\ today \in ParentDays /\ ParentSteps
  \/ Yielded /\ today \in OfficeDays /\ OfficeSteps
  \/ Crash
  \/ NewDay

Spec == Init /\ [][Next]_vars

\* What goes on for ever: a pass that has started comes to its end, Stripe
\* disposes of what it was asked, reconciliation runs every day, and a record
\* that is tried again and again succeeds in the end.
Fairness ==
  /\ WF_vars(~Looping /\ PassSteps)
  /\ WF_vars(StripeSteps)
  /\ WF_vars(Yielded /\ ScanSteps)
  /\ \A f \in Families, d \in Days : SF_vars(Reconcile(f, d))

FairSpec == Spec /\ Fairness
-----------------------------------------------------------------------------
(* Properties *)

\* A charge whose outcome the ledger does not reflect yet.
Unsettled(r) ==
  \/ intent[r] \in {"asked", "processing"}
  \/ intent[r] = "succeeded" /\ payment[r] = NoRow

\* A family is never charged again while an earlier charge is on its way, is
\* being processed, or has succeeded unrecorded: its invoices would be charged
\* twice (the pending-run guard of chargeFamily).
OneUnsettledCharge ==
  \A f \in Families : \A d, e \in Days :
    Unsettled(<<f, d>>) /\ Unsettled(<<f, e>>) => d = e

\* What the program believes of a charge is what Stripe did: money is booked
\* only for an intent that succeeded, and for its amount; a charged run is
\* booked; a failed one was declined.
BooksAgreeWithStripe ==
  \A r \in Runs :
    /\ payment[r] # NoRow => intent[r] = "succeeded" /\ payment[r].amount = run[r].amount
    /\ RunIs(r, "charged") => payment[r] # NoRow
    /\ RunIs(r, "failed") => intent[r] = "declined"

\* A run that is charged or failed stays so, whatever arrives late
\* (onAutopaySucceeded does not look at the status it overwrites).
RunOutcomeIsFinal ==
  [][\A r \in Runs : RunIs(r, "charged") \/ RunIs(r, "failed") => run'[r] = run[r]]_vars

\* The retry ladder rests on runs that failed, and its third rung is the last:
\* autopay is off there until the parent consents again.
LadderIsEarned ==
  \A f \in Families :
    LET failed == {d \in Days : RunIs(<<f, d>>, "failed")}
        n == enrollment[f].failureCount
    IN /\ n <= Cardinality(failed)
       /\ n = 3 => ~enrollment[f].enabled /\ enrollment[f].nextAttemptAt = NoDate
       /\ enrollment[f].nextAttemptAt # NoDate =>
            \E d \in failed : enrollment[f].nextAttemptAt = d + 1 + n

\* A charge waits for the day the ladder names, as the ladder stands when the
\* charge is made and not when the pass took stock.
ChargesWaitForTheLadder ==
  [][\A r \in Runs : run[r] = NoRow /\ run'[r] # NoRow => OffLadder(r[1])]_vars

\* The search for pending intents does not fail, and none settles between the
\* two searches of a pass: what Reconcile calls smooth (autopay's intents are
\* confirmed as they are created).
Smooth == Mishaps \cap {"pending search fails", "between searches"} = {}

\* Under smooth running money that Stripe took is booked in the end, the run that
\* took it resolved and the family's ladder cleared for it, although answers are
\* lost, records fail and the process dies between any two of these statements.
\* (Otherwise the cursor may pass an intent before it succeeds: SucceededIsBooked.)
SuccessIsBookedInTheEnd ==
  Smooth => \A r \in Runs :
    intent[r] = "succeeded" /\ ~RunIs(r, "charged") ~>
      /\ payment[r] # NoRow /\ RunIs(r, "charged")
      /\ enrollment[r[1]].failureCount = 0 /\ enrollment[r[1]].nextAttemptAt = NoDate

\* A failed charge is not tried again the next day, unless the parent gave
\* consent anew ("retry on day +2 and +5 ... Never exceed the ladder").
NoRetryTheNextDay ==
  \A f \in Families, d \in Days :
    RunIs(<<f, d>>, "failed") /\ d + 1 \in Days /\ run[<<f, d + 1>>] # NoRow => enrollment[f].consentAt >= d

\* What is charged is what is due, to a family that has autopay on ("charges
\* every autopay-ON family the sum of its invoices due by today").
ChargesWhatIsDue ==
  [][\A f \in Families : run[<<f, today>>] = NoRow /\ run'[<<f, today>>] # NoRow =>
       enrollment[f].enabled /\ run'[<<f, today>>].amount = AmountDue(f)]_vars

\* A charge of unknown outcome is resolved ("reconciliation settles it").
PendingRunsSettle ==
  \A r \in Runs : RunIs(r, "pending") ~> ~RunIs(r, "pending")
=============================================================================
