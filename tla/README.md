# Student Manager, in TLA+

These modules specify OpenMasjid Student Manager: the family ledger and what
its readers are shown, the making of bills, autopay against Stripe,
reconciliation, the Stripe customers and cards, and around them the accounts,
the guardians, the limiter of attempts, the page a parent pays on and the
screens of the browser.  TLC checks them on small instances; TLAPS proves for
every instance all that the passing runs check except liveness, and that ledger and
autopay both implement one abstract account.  Paths below are relative to
`src/packages/server/src/`, those of the browser (`App.tsx`, `routes/`,
`components/`, `lib/`) to `src/packages/web/src/`.

## The system

A Node process with one SQLite database (`better-sqlite3`: every database call
is synchronous) serves staff and parents over tRPC, and other apps of the same
platform over the "fabric".  Code between two `await`s runs without
interruption, so a handler is one step up to each `await`; what can cut it
short is the death of the process between two statements that are not in one
transaction.  Everything that talks to Stripe, hashes a password or sends a mail
awaits, and while it does every other handler may run.

| component | state | operations | who calls it |
|---|---|---|---|
| ledger (`billing/ledger.ts`) | payments, allocations, the status of an invoice | `recordPayment`, `reversePayment`, derived balances | every channel below |
| invoices (`billing/invoices.ts`, `trpc/billing.ts`) | invoices and items, fee plans, assignments, discounts | generate for a family or period, void, plans, fees, discounts | finance |
| autopay (`payments/autopay.ts`) | enrollments with the retry ladder, runs | the daily pass, charge, success, failure | scheduler, reconciliation, portal |
| reconciliation (`payments/reconcile.ts`) | the cursor in the settings | one pass of two Stripe searches | scheduler, finance's button |
| portal (`trpc/portal.ts`) | saved cards, Stripe customers | pay now, confirm, save and remove a card, autopay on and off | parents |
| Stripe client (`payments/stripe.ts`, `trpc/settings.ts`) | the loaded keys, the chosen account | load, switch account | boot, admin, reconciliation |
| fabric provider (`fabric/provider.ts`) | limiter | lookup by PIN, record payment, check | Donations, Kiosk |
| accounts (`trpc/auth.ts`, `auth/`, `trpc/staff.ts`) | users, sessions, invites, reset tokens | login, change, reset, invite, register | everybody |
| rate limits (`security/rateLimit.ts`) | counters in memory | check, fail, success | accounts, provider |
| people (`trpc/people.ts`, `trpc/familyAccess.ts`, `billing/pins.ts`) | families, students, guardians, links, PINs | create, update, link, unlink, invite | staff |
| requests (`security/origin.ts`, `trpc/trpc.ts`) | none | where a visitor is, what a role may do from there | every procedure |
| browser (`App.tsx`, `routes/`, `components/`, `lib/base.ts`) | the cached session, the form that is waiting, the intent a page holds | sign in, change, accept, reset, log out, pay | everybody |
| the rest | mail, statements, audit, notifications, HTTP shell, directories and windows of the web UI | output and plumbing | |

What makes each correct:

* ledger — derived balances, stored statuses and allocations never disagree; a
  key books once; a void invoice holds no money; reversals undo exactly.
* autopay — nobody is charged twice for one debt; what the program believes of a
  charge is what Stripe did; a success is booked in the end; the ladder is
  climbed by failures only and obeyed.
* reconciliation — the cursor never passes money that is not booked.
* accounts — first runs at once make one admin; an invite makes one account and
  a guardian has one; a reset link sets one password, and the ones it replaced
  open nothing more; an admin is on the local network, whatever a visitor's
  headers say.
* office — a PIN names one student; a period billed in several goes leaves nobody
  out; no bill is below zero.
* guardians — none is lost from sight; an account sees the families of the guardian
  who made it and no others', although addresses are shared and exchanged.
* limiter — failures per key are bounded although attempts overlap, and nobody is
  blocked by another's.
* paying page — money is taken once however often the button is pressed.
* browser — the screen is that of the session, whatever answers crossed.
* readers — the open invoices listed, the balance and the order of payment agree.
* customers and cards — what is stored belongs to the account that is chosen.
* provider — a payment reported any number of times is booked once.

`PROJECT.json` lists the hazards behind these, each at its line.

## Modules

| module | models | composed from |
|---|---|---|
| `Cents` | sums of amounts by counting coins, so that no operator is recursive | |
| `FamilyAccount` | abstract: an account per family whose running balance every bill, waiver, payment and return moves by its own amount | |
| `Ledger` | invoices, payments, reversals, voids | `Cents`; implements `FamilyAccount` |
| `Autopay` | the daily pass over many days, Stripe, crashes, parents and finance | an instance of `Ledger` whose keys are the runs; implements `FamilyAccount` |
| `Reconcile` | overlapping passes, their two searches and the cursor | |
| `Cards` | Stripe customers, saved cards, the load of the keys and the switch of the account | |
| `Views` | what portal, statement and lookup show of a family | extends `Ledger` |
| `Rows` | the rows that more than one part names | |
| `Requests` | where a request seems to come from, and where it does | |
| `Accounts` | users, sessions, invites, reset links, their handlers around the hash of a password | `Rows`, `Requests` |
| `Office` | families, students, PINs, fee plans, discounts, the making of bills | `Rows`, `Cents`; makes what `Ledger` calls `Terms` |
| `Guardians` | guardians, their families, their ways to an account, who gets mail | `Rows` |
| `Limiter` | the limiter of failed attempts | |
| `PayPage` | the paying page, Stripe's intents, the server's two procedures | |
| `Screens` | the gate of the web client, the forms that change the session | `Requests` |
| `CentsTheorems` | proofs: least and greatest numbers, finite sets, sums | `Cents` |
| `LedgerProofs`, `ReconcileProofs`, `CardsProofs`, `AccountsProofs`, `OfficeProofs` | proofs | the module each is named for (`LedgerProofs` also `Views`) |
| `AutopayProofs` | proofs | `Autopay`, with an instance of `LedgerProofs` for its ledger |
| `DeskProofs` | proofs of `Guardians`, `Limiter`, `PayPage`, `Screens` and `MCDesk` | with `AccountsProofs` and `OfficeProofs` |
| `MCLedger`, `MCAutopay`, `MCReconcile`, `MCCards` | instances for TLC | `MCLedger` extends `Views` |
| `MCDesk` | instance for TLC of `Accounts`, `Office`, `Guardians`, `Limiter`, `PayPage`, `Screens` | all six |

### Ledger

An invoice is named by its family and period and a payment by its idempotency
key, the unique keys of the schema; rows are never deleted, so an absent row is
`NoRow`.  `Invoice` carries the sum of its items; what a family's students, fees
and discounts add up to is the constant `Terms`.  Allocations are a function on a
payment; a reversal is a record of its own with the same (negated) allocations.

`RecordRows` is the transaction of `recordPayment`; `Record` adds the reset of
the retry ladder that follows it, or the crash that cuts it off.  The loop that
spreads a payment is given twice: literally (`Loop`, over the rows as the query sorts
them, with what remains after each iteration) and in closed form (`OldestDueFirst`: an
invoice takes the lesser of its balance and of what those before it leave), which the
operations use; `AllocationIsTheLoop` says that both agree in every reachable state.  `RecordExplicit` is the path with dictated allocations.  The
ladder is seen as clear or raised only; autopay's own writes to it are
`AutopayMovesLadder`, which `Autopay` refines.

`Views` adds what is computed from these rows when somebody asks: the invoices
that the portal (`myFamily`), the printed statement and the lookup of a kiosk list as
open, their sum, what is owed or in credit, and the two orders, JavaScript's on
the portal and SQL's on the statement.

### Autopay

A run is named by family and day.  Its id is the idempotency key at Stripe and
travels in the intent's metadata, so run, intent and payment share a name.
`Charge` is `chargeFamily` up to its `await`; then `Succeeded`,
`StillProcessing`, `Declined` or `NoAnswer` is the part after it, and
`StripeActs` decides, before or after an answer is given up, what became of the
request: nothing at all, processing, success, decline.  `Settle` is what both
autopay and reconciliation do with a success; `SettleCutShort` is the same with
the process dying after any of its statements.  `pass` holds the amounts taken
at the start of the pass, as the code's array does.

A record that throws in the daily pass is taken for an
answer that did not come (`chargeFamily` catches it), so `Succeeded` may also stop
half way with the process alive (`SettlePartly`).

Reconciliation is `scan`, one pass at a time: `Search` is what it finds from the cursor
on, `Reconcile` the loop's step, `RecordFails` a record that throws and so holds the
cursor, `ScanFails` the pass given up, `AdvanceCursor` the search for
pending intents with both its outcomes: an answer, which holds the cursor below
what is pending, or a failure, which does not.  Between the two searches a pending intent
may settle.  An intent that is booked already resolves its run and clears the ladder
each time it is seen.  Days stand for seconds: all intents of a day count as of one
second, so a pass sees a little more of the past than the code's.  Passes that overlap, and
other channels' intents, are `Reconcile`'s subject.

`Mishaps` names what may go wrong in reconciliation.  With a failing second
search or settling between the searches the cursor may pass an intent before it
succeeds, and its success is never booked (the fourth finding, which holds of
autopay's intents as of any); `SuccessIsBookedInTheEnd` is therefore promised under
`Smooth` running, where neither happens.  Failing records, passes given up, lost answers
and crashes are all within its scope.  The other properties do not ask for `Smooth`.

A daily pass that does not run (the process is down at 06:00, Stripe is not
configured) is a day that ends with its pass still ahead.  `NewDay` expects no
request under way: the SDK gives up within minutes.  Saved cards are reduced to
whether the enrollment names one.  The run's attempt number and stored intent id are
left out; the run id in the metadata is always found first.

### Reconcile

An intent has a creation second and a state.  A pass reads the cursor (`Start`),
gets the succeeded intents (`FindSucceeded`), records them in one step, with
those that throw left out (`Record`), gets the pending ones (`FindPending`) and
stores the cursor (`Finish`).  Several passes may overlap; a crash may come in
the middle of the loop; the push paths may book an intent at any time.
`Mishaps` names what is allowed to go wrong, so that a run can say under which
conditions a promise holds.  A search has one page (up to a hundred intents).

### Cards

`call` holds what each handler in flight waits for and what it has read: its
client (`account`), the family's customer, the card.  The part of a handler up to an
await is one action (`Ask`, `Save`, `Remove`, `Switch`, `Load`) and the part after it
another (`CustomerMade` and `IntentMade`, `CardFound`, `Detached`,
`LoadSucceeds`/`LoadFails`); any call of Stripe may fail (`GivesUp`).  `made`, `holder`
and `setups` are what Stripe knows: in which account a customer was made, to which
customer a card is attached.  `createPayment` and `createSetupIntent` mint a customer
in the same way, and both are `Ask`.  `saveCard`'s own attach is not reached, because
a card that was set up for a customer is attached already.

The client follows the last load to *end*, so overlapping loads may leave an
unchosen account's client live; two handlers may mint for one family, the later
customer replacing the earlier and stranding its cards; a handler may outlive a
switch and store the old account's customer again.  The code does not claim
otherwise, so `StoredFitsWhenSmooth` asks only for histories in which no load
overlaps anything and no two handlers of one family overlap (`Apart`), no load fails and the
process lives; the ghost `smooth`, which no action reads, remembers that.  The other properties
hold through all of it.  One exception is named in the property itself: `removeCard`
deletes the card and disables autopay in two statements, and a crash between them
(`RemoveCutShort`) leaves autopay on with a card that is gone.

### Requests

A visitor has an address and comes directly, through the platform's proxy on the same
host, or through the tunnel, and sends whatever forwarding headers he likes
(`Visits`).  `Peer` and `Seen` are what the program gets of it: proxy and tunnel set
their own headers and drop his, a direct visitor's arrive as sent.  `ClientIp` and
`Classify` are what it makes of them; `Arrivals` pairs each classification with where
the visit really came from, which the program cannot know and `Astray` asks.

### Accounts

A handler that hashes or verifies a password is two actions, `Begin...` up to the
await and `End...` after it; `call` holds what it read.  `End...` asks again what
the code's transaction asks again, and has a companion for the refusal
(`SetupRefused`, `ConfirmRefused`, `HireFails`, `AcceptRefused`).  `Restart` loses the
handlers under way and nothing else.  Passwords go by number: `password` is the number
of the one stored, each session and each login under way has that of the one it was
opened or verified with, and the ghost `linked` remembers the last that a reset link
set.  `changePassword` and `staff.resetPassword` store a new hash after
their await and close no session (`BeginChange`, `BeginStaffReset`, `EndReplace`), so
a session may well outlive the password it was opened with; what a *link* replaces opens
nothing more (`ResetSignsOut`), with the one exception the property names: a login
that verified the old hash before the link's transaction opens its session after it.
`changePassword`'s verification and hash are one wait, as nothing is read between.
The ghosts `astray` and `uses` remember that an admin's session was opened elsewhere and how many
passwords a link has set, where the code keeps only `usedAt`.  Expiry ends what a
token or session can do at a moment nobody chooses; a token nobody uses and
`SessionEnds` stand for it.  Names are compared as typed where the code
compares them so (`Named`), and in lower case where it does (`Known`).

### Office

`sweep` is the loop of `generateForPeriod`: the families still to come, billed one
transaction each (`BillNext`), cut short by `Crash` or through
(`PeriodGenerated`).  Handlers are synchronous, so nothing else is served
meanwhile (`Quiet`).  `FeePlanArchive` drops the assignments and archives the plan in two
statements and may stop after the first.  `NewBill` is fees less discount with the
code's rounding; a bill carries that sum, as `Ledger`'s invoices do.

### Guardians

An address of a guardian, the links to families and the account's name move
independently; what an account sees is computed from them (`FamiliesOf`), and so
is who gets a family's receipts (`ReceiptsGoTo`).  `GuardianCreate` is the one
transaction it is in the code.  `Register` is self-registration by somebody who knows a
child's name and PIN.  The ghost `letGo` remembers who was taken off his last family.
Several guardians may have one address on file, and addresses change while
invites are open; `AccountsSeeTheirOwn` needs that `inviteAccept` asks again what
`mintInvite` asked.  Here accepting an invite is one step; the race around its await
is `Accounts`' matter.

### Limiter

An attempt is let in (`LetIn`) and later counted (`Fails`), forgiven (`Succeeds`)
or neither (`GivesUp`); any number may be between the two.  A block and its window
end together (`Lapses`).  At `MaxKeys` the oldest entry goes (`Fails`), with its
count or its block.  The ghost `wrong` counts failures since the key last
started afresh.

### PayPage

`phase` is what a tab shows or waits for.  Every answer may be lost: of `createPayment`
(`StartFails`, leaving an intent nobody can confirm), of Stripe (`PayFails`, the
money taken or not), of `confirmPayment` (`Recorded` with nothing booked).  `Takes`,
`Settles` and `Refuses` are Stripe's; `Reload` forgets everything the page held.  The
ghost `used` is the intents a page has held since.

### Screens

`cached` is the answer the gate decides by, `query` the question on its way, `pressed` the
form that waits.  The server acts on a form (`Serves`) before the answer reaches the
browser, with the cookie (`Answered`, `AcceptAnswered`, `ResetAnswered`, `LogoutSettles`), or never does
(`Errs`).  The session query may itself open a session, for an admin the platform
vouches for; the answer brings its cookie.  A question asked again before its answer came
is the second one: that the first one's cookie may still arrive late is left out.  While a
failed question is asked anew the gate is taken to show the login screen.  The ghost `behind` says that something
happened the page cannot know: a lost answer, a session ended elsewhere.

### MCDesk

The six parts share no state, so checking them side by side would multiply
states without adding behaviour.  `part` is chosen at the start and only that part
moves: the states are the sum of theirs.  Constants of different parts are given
the same pairs of values so that each has its own symmetry.

## Runs

| run | question | bounds | states |
|---|---|---|---|
| `ledger` | do balances, statuses, allocations, the running account and what readers are shown agree in every order of operations? | 2 families, one billed twice and enrolled, 2 keys, amounts 1 and 3 against totals of 2 and 0, dated and undated | 51 thousand |
| `autopay` | no second charge on an unsettled one, books as Stripe's, outcomes final, success booked, resolved and forgiven in the end | 1 family, 1 bill, 3 days, 1 payment by hand, failing records and passes, crashes | 69 thousand |
| `autopay_rungs` | is the ladder earned, and obeyed as it stands when the charge is made? | 2 families on 3 days, one of them on 6 (declines on days 1, 3 and 6 are the whole ladder), failing second searches, settling between the searches, crashes | 1.3 million, up to symmetry |
| `reconcile` | does a stored cursor pass what its pass found and could not record; is nothing passed over and everything booked while three mishaps stay away? | 2 intents, one unattributable, 2 passes, 3 seconds; every mishap, or only failing records, searches and crashes | 219 thousand |
| `cards` | do cards and customers stay with their family, does autopay keep its card, is what is stored usable with the account chosen? | 2 families, 2 accounts, 2 cards, 2 customers, 2 handlers in flight, failed loads, crashes | 1.1 million, up to symmetry |
| `desk` | do one-time links, admins, PINs, bills, guardians, guesses, payments and screens keep their promises under every interleaving, lost answer and crash? | accounts: 2 users, 1 session, 2 invites, 1 reset link, 2 guardians, 2 handlers in flight, 2 names, 3 addresses and every header, 1 password replaced otherwise than by the link; office: 2 families, 2 students, 1 plan, 1 period, 2 PINs, 1 price, 3 discounts; guardians: 2 families, 2 guardians, 1 contact, 2 addresses; limiter: 3 keys, 3 attempts, limit 3, map of 2; page: 2 tabs, 3 intents; screens: every visit | 708 thousand, up to symmetry (accounts 575 thousand) |
| `autopay_ladder` | violated: a decline is retried the next day | 2 bills, 3 days | |
| `autopay_stale` | violated: a stale amount is charged | 2 families, 1 day | |
| `autopay_stuck` | violated: a pending run never settles | 1 family, 2 days | |
| `reconcile_lost` | violated: a late success is never booked | 2 intents, 2 seconds | |
| `cards_switch` | violated: a successful switch keeps the old account's customers | 1 family, 2 accounts, 1 handler | |
| `screens_prefix` | violated: an accepted invite leaves the app | the screens of `desk` | |

Why the bounds suffice.  In the ledger, an amount of 3 covers one invoice and
half of the next, 1 leaves an invoice partly paid, and two payments can overlap
on an invoice, be reversed and leave it void; the second family is there to be
kept apart.  A third key adds only repetitions, as a step touches one payment and
the sums it reads.  In autopay, three days hold a charge, its resolution after
an outage, and a later charge; parents act on the days named by `ParentDays` and
finance on those by `OfficeDays` (bounds: parents on the first day, before and beside the
first charge; finance on two of three, so that payments, voids and reversals also
come between charges).  Six days hold the full ladder.  Its run has two families, because only
with another one ahead does a pass await between taking stock and charging; after the third day one of
the two must have stayed away from autopay (`LongWithOneFamily`), since the second
family's part is played by then.  Those days hold a decline on the
first and its retry on the third.  In reconciliation, two
seconds give two intents in the same second and two in different ones, which is
what the cursor's arithmetic tells apart, and two passes are all that can differ
about a cursor; of the two intents one can always be recorded and one never, and the three
seconds let one precede the other with a second between.  With cards, two
handlers are what it takes to read before and write after another; two customers and
two accounts give one of each account, or two of the same family or account; two
cards, a default and another.  Families, accounts, cards, customers and handlers
are interchangeable, hence the symmetry.

At the desk, two handlers, two invites and two guardians are what a race for an
account takes, and two users what a race for the first admin takes; the three
addresses are the host, the local network and elsewhere.  One password more
than the link's (`MaxReplaced`) is what a change or a staff reset before, beside or after
a link takes; `InvitesOrReplacements` has such replacements only where no guardian has an
address and no invite was made, because the two meet in nothing but users.  The names are in lower
case, so `Named` and `Known` coincide in the run; the proofs hold for any
`Lower`.  A price of 3 with a fixed discount of 4 and one of 50 % meets the cap and
the half cent.  In the limiter a failure of a third key evicts the first, and
three attempts of one key overlap its limit of three.  Two tabs with three intents let a
page start twice while another pays.

`CHECK_DEADLOCK FALSE` is given where the bounded model ends: on the last day, when
nobody acts any more.

### Fairness

`Autopay`: weak fairness of the daily pass (`runAutopay` loops over its families and
every await returns or throws; a crash ends it), of Stripe, which disposes of a
request, and of reconciliation's searches, which a daily job starts again for ever;
strong fairness of the record of each intent it finds, because what fails is
tried again with the next pass and the cursor waits for it.  Nothing obliges parents,
finance, new days, lost answers or any mishap.

`Reconcile`: passes are started for ever (daily job), and a search or record
which is tried again and again succeeds in the end (strong fairness: a pass
that fails starts anew).  The promise of the code rests on the same: it retries
what is transient.  Pushes, new intents and Stripe's settling are not fair.

`Cards`, `Accounts`, `Office`, `Guardians`, `Limiter`, `PayPage` and `Screens` state
safety only and assume no fairness: a person need not come back, and nothing in the
code retries for him.

### What the runs found

Six statements of the code's comments and documents do not hold; each has a
run of its own and an entry under `findings` with the quotation:

1. *The ladder is forgotten.*  Every pass of reconciliation looks again at the
   newest intents it knows, and for an autopay intent that is booked already it
   resets the family's ladder.  A decline after a success is forgiven by the next
   pass, and the card is charged again the next day.
2. *Stale amounts.*  The pass charges what it took stock of before awaiting the
   families ahead.
3. *A pending run may never settle.*  Only successes are looked for; a run that
   was declined out of hearing, or never reached Stripe, blocks the family.
4. *Money may be lost.*  An intent in neither of the two searches while the cursor
   moves is never looked at again.  `reconcile` shows that this is the
   only way: with intents confirmed at once, no settling between the searches
   and no failing second search, everything is booked.  Any one of the three
   mishaps alone breaks it.  Autopay's intents are confirmed as they are created, but the
   other two can meet them; hence `Smooth` in `Autopay`.
5. *A switch may keep the old account's customers.*  The reset depends on the keys that
   happen to be loaded, and after a failed load there are none to compare with.
6. *An accepted invite leaves the app.*  `InviteAccept.tsx:31` goes to `/` without the
   prefix the app is served under through the tunnel, the only way out of `withBase`.

## Proofs

Every invariant and every action property of the passing runs is proved for all
values of the constants, and so are two refinements of `FamilyAccount`; what is left to
TLC alone is liveness (see the end of this section).  In each module the
argument has the same shape: an inductive invariant stronger than what is
promised, one lemma per operation that keeps it, one that puts them together
(`NextKeeps` or its like), and a temporal step.

Two kinds of induction are out of the prover's reach, over data and over the
steps of a loop.  Where one would come to mind the proofs take a least
counterexample instead: `LeastNat` and `GreatestNat` (every inhabited set of numbers has a
least, every finite one a greatest) and `FewestMembers` (among finite sets some
inhabited family has a smallest) are proved in `CentsTheorems` from the library's facts on
finite sets.

### Sums

The amounts are sums over functions.  `Cents` defines the sum as the number of
coins (`Cardinality` of the set of pairs of an index and a coin below its
amount), which is a sum without recursion; `CentsTheorems` proves what is needed
of it: it is a natural number, is monotone, adds pointwise, grows by what one
entry grows, and a sum over two indices is the same in either order.

### Ledger

`LedgerProofs` assumes `SoundConstants` (finitely many families, periods and keys;
positive amounts; totals that are not negative; sentinels that are no rows).

* *Money.*  `TypeOK`, `NeverOverpaid`, `StatusMatchesMoney` and
  `VoidHoldsNoMoney` are not inductive.  `LedgerInv` is their conjunction with two facts
  the code never states: a reversal mirrors the payment it belongs to
  (`Mirrored`), and no money lies on an invoice that was not issued or is void
  (`NothingOnUnissued`, `VoidIsUnpaid`).  What an operation adds to the paid amount of an
  invoice is bounded by its balance (`LoopWithinBalance` for the loop,
  `AskedWithinBalance` for dictated allocations), a reversal takes off what its
  payment put there and no more because it mirrors it and happens once
  (`PaidIsHeld`), and an invoice's status is computed from the new paid amount
  wherever that changes (`RecordKeeps`, `ReverseKeeps`).
* *Allocations.*  `AllocationsAreCovered` needs that the loop never places more than
  the payment (`LoopWithinPayment`).  The code gets this from subtracting as it goes.  In
  closed form it holds because the loop's order is total: the last invoice that takes
  anything leaves room for no other.  The order is total only
  because a family's invoices are numbered as they are generated, and that is
  the addition to the invariant (`Numbered`, in `CoveredInv`).  The same order is all that
  `ListedInTheOrderPaid` takes.
* *The loop.*  `AllocationIsTheLoopHolds`: the rows can be listed in the order of the
  query's key (`QueriedIsAListing`, by a smallest family that cannot), after each
  iteration there remains what the rooms before have left (`RemainingIs`, by a least
  iteration after which it does not), hence the loop gives each invoice what the closed
  form gives it.
* *Readers.*  `OffersAddUpHolds`: the balance is what the listed invoices come to, less
  the money that lies on no invoice, because what the payments that stand have placed, summed
  payment by payment, is what is paid, summed invoice by invoice (`PlacedIsPaidOff`, an exchange of
  two sums), and the rest is what they have not placed (`PaidIsPlaced`).
* *The account.*  `LedgerImplementsAccount`: initial states map to initial states
  (`InitRefines`) and each operation to the one of `FamilyAccount` it is named for, with
  the balance moved by exactly its amount (`GenerateIssues`, `VoidWaives`, `RecordReceives`,
  `ReverseReturns`); the ladder's own moves are stutters (`NothingMoves`).

### Autopay

`AutopayProofs` takes `LedgerProofs` as an instance for autopay's ledger, so nothing of
the money is proved twice: `MoneyStays`, `GenerateKeepsBooks`, `RecordedIs` and their like say
what the ledger's lemmas come to there.  (The provers treat the operators of
two instances as different names; the lemmas `Same...` say that they are the same.)
`AutopayInv` has five parts:

* the ledger's `CoveredInv`;
* `RowsFit`, the types, of what the pass still has to charge as well;
* `ChargesInv`: an intent has its run, no family has two unsettled charges, and books, runs
  and Stripe agree.  A charge is unsettled only while its run is pending
  (`UnsettledIsPending`), which is why the pending-run guard of `chargeFamily` suffices
  for `OneUnsettledCharge` (`ChargeStarts`);
* `PassInv`: a pass that waits, waits for the run it has made today, which nobody else
  declines, and what it was told is what Stripe did (`PassInOrder`); whoever it is still to
  charge need not wait and is below the third rung (`DueMayBeCharged`), although parents,
  finance and reconciliation change the ladder meanwhile: all they do is clear it or
  switch autopay off (`Eased`);
* `LadderIsEarned` itself: a step down the ladder has one more failed run to rest on
  (`EarnedClimbs`).

Beside it stands `ScanInv`: what a pass of reconciliation has found and not dealt with has
succeeded at Stripe and stays so (`SuccessStays`), which is what makes it right to book it
without asking again, whatever else was done between the search and the record.

Each lemma about an action proves `Kept`: the invariant, and what the step itself may not do, no
outcome overwritten (`OutcomesStand`) and no run for a family that has to wait
(`LadderHeeded`).  The action properties `RunOutcomeIsFinal` and `ChargesWaitForTheLadder`
follow.

`BooksStaySound` says that what the ledger promises by itself it goes on promising
under autopay, and `AutopayImplementsAccount` that autopay is no other way to move a
balance: by `StepIsOfTheBooks` a step does nothing to the ledger or one whole operation of
it, whatever was answered late, repeated by reconciliation or cut short by a crash, and each of
these is a step of `FamilyAccount`.

### Reconciliation

`ReconcileInv` is for any intents, passes and length of time.  `Clocked`: nothing comes from
the future.  `BookedOrErrored`: a pass past its loop has booked what it found or knows
that it failed; with the arithmetic of the cursor this gives `FoundIsBookedOrHeld`
whatever goes wrong.  `SmoothInv` is what the three mishaps break: as long as they stay away, the
cursor and every pass that has begun stand before every open intent, and a pass past a
search has either seen an open intent or seen none later (`Knows`), so that the cursor it
will store is held below it (`NothingIsPassedOver`).

### Customers and cards

`CardsInv`, for any number of handlers in flight.  `BooksInv` holds through everything: what a
waiting handler has read is enough for what it will do (`CallKnows`), what the rows and
Stripe name was made for the family that names it (`RowsMatchStripe`), and two defaults
of a family are one card (`DefaultsAreOne`).  `SmoothInv` holds while the ghost `smooth`
does: a load is alone and no two handlers are of one family (`Alone`), so what a
handler read before its await is true after it (`StillTrue`), and rows fit the
loaded account (`RowsFit`) unless nothing was ever loaded.  `AutopayKeepsItsCard` is an
action property of the same invariant.

### Accounts

`AccountsMatchInvites`, `OneAdmin`, `LinksWorkOnce`, `ResetSignsOut` and
`AdminsAreLocal` hold for any number of users, guardians, tokens, handlers and
addresses, and any `Lower`.  `AccountsInv` adds to the type what a handler under way
may rely on: an open link has set no password and a used one at most one
(`LinksInv`), the rows a handler read before its await are still there after it
(`CallsInv`), a session is of a user with its role (`SessionsInv`), nobody on his way in or let in as an admin is astray,
and there is one admin at most (`AdminsInv`).  `ResetSignsOut` is an action property: it needs
besides that a link never set a password with a number still to come
(`PasswordsInv`), so that a session opened with the one that is stored is not outdated.  The first
property needs one more, `InvitesInv`: a guardian has neither account nor used
invite, or one of each, which is why asking again inside the transaction suffices.
That no admin is let in astray rests on `Classify` being right whenever it says
"lan", for every way a request comes and all it may carry (`LocalIsLocal`; `Visits`: only public
addresses come by the tunnel; the assumption of `Requests`: loopback is private, and
an absent header is no address).

### Office

`PinsIdentify` and `NobodyIsLeftOut`, and with the type that no bill is below zero, under
`OfficeAssumption`.  `OfficeInv` holds that fees are of students and plans that
exist (`FeesAreOnFile`) and that the loop is over families that do
(`LoopIsOnFile`); that a bill is a natural number rests on `DiscountFits` (a discount is at
most what it is taken from) and the sums of `CentsTheorems`.

### Guardians, limiter, paying page, screens

All in `DeskProofs`.

* `NobodyIsLost` and `AccountsSeeTheirOwn` under `GuardiansAssumption`; the invariant
  adds that whoever is linked is on file (`LinkedAreOnFile`), and the second rests on
  no two accounts ever having one name (`LoginsDiffer`).
* `GuessesAreLimited` and `BlockedByItsOwn` under `LimiterAssumption`.  The bound is not
  inductive: `LimiterInv` (`Accounted`) counts for each key the attempts still under way
  with it.  While the key is not blocked its failures are its count; once it is,
  failures and attempts under way together stay within the limit and the calls
  there can be, less one, since only those already let in can still fail.
* `OncePerPage`: a page that is not loaded again has held no other intent than the one it
  holds (`HoldsOne`), and only what succeeded is booked.  No assumption on the constants.
* `ScreenIsCurrent`: as long as no form was served and nothing unknown happened, an
  answer on its way is what the server would say now, and so is the one the browser
  keeps (`AnswersAreCurrent`).
* `DeskTypesHold`: whichever part moves, each keeps its types.

### What is assumed, and what is only model-checked

The constants' assumptions are evaluated by TLC in the runs (those of `Office`,
`Guardians` and `Limiter` through `PartsAssumption` of `MCDesk`).  They say that there are
finitely many rows, that amounts are numbers, that there is a first day or second, and that
sentinels (`NoRow`, `NoDate`, `Gone`) are none of the things they stand in for: the ledger's
`SoundConstants`, which autopay asks of its own (`LedgerConstants`), that autopay's keys are nobody
else's (`RunsAreAutopays`: a run's id is a fresh UUID), `NoRowIsNoIntent`, `NoRowIsNoRecord` and so on.

Only model-checked: `SuccessIsBookedInTheEnd` of autopay (under `Smooth`) and `BookedWhenSmooth` of
reconciliation, which are liveness under fairness and beyond the prover, and the six
statements the runs refute.  Without a theorem of its own: that `SumOf` is the usual fold of
additions (`SumOfIsAFold`, an assumption TLC evaluates in `MCLedger`), since a fold is
recursive and the theorem would be an induction over data.

## Not modelled

* The length of life of tokens and sessions; `SubmitLimiter`, which counts and
  refuses in one step; a consumer's outbox, which is in another repository.
* `resetRequest`'s search by e-mail: `users.email` is null or equals the username.
* That names which differ in case only are different usernames to `staff.create`,
  and one to `login`: the code keeps no promise about it, so none is checked (it
  is listed among the hazards).
* Sending and wording of mail, the layout of statements, audit, notifications,
  routing, migrations: output and plumbing that no decision reads back.
* The web UI's directories, forms of one call each, windows and preferences.

## Plan

1. Proofs: that a period generated by `Office` makes bills `Ledger` may take as `Terms`; that
   reconciliation's view of a payment in `Reconcile` is the one `Ledger` books.
2. A consumer's outbox over provider, ledger and reconciliation, should its code be at
   hand; abstract specification: each payment is booked exactly once.
