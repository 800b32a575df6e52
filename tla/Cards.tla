------------------------------- MODULE Cards -------------------------------
(***************************************************************************)
(* Stripe customers, saved cards and the switch of the Stripe account      *)
(* (trpc/portal.ts, trpc/settings.ts, payments/stripe.ts).                 *)
(*                                                                         *)
(* Keys are loaded across an await, at boot, when the admin chooses an     *)
(* account, and by a reconciliation that finds none.  A family gets a      *)
(* customer with its first payment or card; a card is set up by the        *)
(* parent's browser for the customer it was told, and saved afterwards.    *)
(* Every handler works with the client it found when it began, and any     *)
(* number of handlers may be waiting for Stripe at a time.                 *)
(***************************************************************************)
EXTENDS Integers, FiniteSets

CONSTANTS
  Families,
  Accounts,      \* the Stripe accounts the admin can choose from
  Cards,         \* payment methods, as parents' browsers set them up
  Calls,         \* handlers that may be waiting at the same time (a bound)
  Customers,     \* the customers Stripe may make (a bound)
  NoRow,
  Gone           \* a card that has been detached

ASSUME NoRowIsNoId == NoRow \notin Accounts \cup Customers \cup Cards \cup Families
ASSUME GoneIsNoId  == Gone \notin Customers \cup {NoRow}
ASSUME NoRowIsNoRecord == NoRow \notin [family : Families, account : Accounts]

VARIABLES
  chosen,      \* the account chosen in the settings
  client,      \* the account whose keys are loaded
  customer,    \* each family's stripe_customer_id
  saved,       \* payment_methods
  enrollment,  \* autopay_enrollments
  call,        \* what each handler waits for, and what it has read
  made,        \* at Stripe: for which family and in which account a customer was made
  holder,      \* at Stripe: the customer each card is attached to
  setups,      \* at Stripe: the customers with a setup intent (a parent may ask for any number)
  smooth       \* has all gone smoothly so far?  (nobody reads it; see below)

rows   == <<customer, saved, enrollment>>
stripe == <<made, holder, setups>>
vars   == <<chosen, client, rows, call, stripe, smooth>>

Idle == [does |-> "nothing", family |-> NoRow, account |-> NoRow, customer |-> NoRow,
         card |-> NoRow, prev |-> NoRow]

Row(S) == S \cup {NoRow}
Call == [does : {"nothing", "load", "switch", "mint", "setup", "save", "detach"},
         family : Row(Families), account : Row(Accounts), customer : Row(Customers),
         card : Row(Cards), prev : Row(Accounts)]

TypeOK ==
  /\ chosen \in Accounts
  /\ client \in Row(Accounts)
  /\ customer \in [Families -> Row(Customers)]
  /\ saved \in [Cards -> Row([family : Families, default : BOOLEAN])]
  /\ enrollment \in [Families -> [enabled : BOOLEAN, card : Row(Cards)]]
  /\ call \in [Calls -> Call]
  /\ made \in [Customers -> Row([family : Families, account : Accounts])]
  /\ holder \in [Cards -> Customers \cup {NoRow, Gone}]
  /\ setups \subseteq Customers
  /\ smooth \in BOOLEAN

-----------------------------------------------------------------------------
(* Handlers under way *)

Loading(x)   == call[x].does \in {"load", "switch"}
Underway(x)  == call[x].does # "nothing"
CardsOf(f)   == {c \in Cards : saved[c] # NoRow /\ saved[c].family = f}
Becomes(x, r) == call' = [call EXCEPT ![x] = r]
Ends(x)      == Becomes(x, Idle)

\* A handler that keeps clear of the others: no load while anything is under
\* way, and never two handlers of one family.
Apart(x, f) ==
  \A y \in Calls \ {x} : Underway(y) => ~Loading(y) /\ f # NoRow /\ call[y].family # f

\* Handler x begins, with what it has read.
Begins(x, r) ==
  /\ ~Underway(x)
  /\ Becomes(x, [r EXCEPT !.account = IF r.account = NoRow THEN client ELSE r.account])
  /\ smooth' = (smooth /\ Apart(x, r.family))

-----------------------------------------------------------------------------
(* Loading the keys *)

Init ==
  /\ chosen \in Accounts
  /\ client = NoRow
  /\ customer = [f \in Families |-> NoRow]
  /\ saved = [c \in Cards |-> NoRow]
  /\ enrollment = [f \in Families |-> [enabled |-> FALSE, card |-> NoRow]]
  /\ \E x \in Calls : call = [y \in Calls |->
       IF y = x THEN [Idle EXCEPT !.does = "load", !.account = chosen] ELSE Idle]
  /\ made = [u \in Customers |-> NoRow]
  /\ holder = [c \in Cards |-> NoRow]
  /\ setups = {}
  /\ smooth = TRUE

\* reconcile without a client loads the keys.
Load(x) ==
  /\ client = NoRow
  /\ Begins(x, [Idle EXCEPT !.does = "load", !.account = chosen])
  /\ UNCHANGED <<chosen, client, rows, stripe>>

\* stripeAccountSet, up to its await.
Switch(x, a) ==
  /\ chosen' = a
  /\ Begins(x, [Idle EXCEPT !.does = "switch", !.account = a, !.prev = client])
  /\ UNCHANGED <<client, rows, stripe>>

\* Fault: the families' customers survive a switch.
Reset_KeepsCustomers(n) ==
  /\ enrollment' = [f \in Families |-> [enabled |-> FALSE, card |-> NoRow]]
  /\ saved' = IF n >= 2 THEN [c \in Cards |-> NoRow] ELSE saved
  /\ UNCHANGED customer

\* The first n of the three statements that clear what belongs to an account.
Reset(n) ==
  /\ enrollment' = [f \in Families |-> [enabled |-> FALSE, card |-> NoRow]]
  /\ saved' = IF n >= 2 THEN [c \in Cards |-> NoRow] ELSE saved
  /\ customer' = IF n >= 3 THEN [f \in Families |-> NoRow] ELSE customer

\* What a switch leaves to be cleared: only a known account that is another.
Clears(x) == call[x].does = "switch" /\ call[x].prev \notin {NoRow, call[x].account}

LoadSucceeds(x) ==
  /\ Loading(x)
  /\ client' = call[x].account
  /\ IF Clears(x) THEN Reset(3) ELSE UNCHANGED rows
  /\ Ends(x)
  /\ UNCHANGED <<chosen, stripe, smooth>>

\* The platform does not answer, or not with keys: payments are unavailable.
LoadFails(x) ==
  /\ Loading(x)
  /\ client' = NoRow
  /\ Ends(x)
  /\ smooth' = FALSE
  /\ UNCHANGED <<chosen, rows, stripe>>

\* The process dies and starts again, and loads the keys.
Restarts ==
  /\ client' = NoRow
  /\ \E x \in Calls : call' = [y \in Calls |->
       IF y = x THEN [Idle EXCEPT !.does = "load", !.account = chosen] ELSE Idle]
  /\ smooth' = FALSE
  /\ UNCHANGED <<chosen, stripe>>

Crash == Restarts /\ UNCHANGED rows

SwitchCutShort(x) ==
  /\ Loading(x) /\ Clears(x)
  /\ \E n \in 1 .. 2 : Reset(n)
  /\ Restarts

-----------------------------------------------------------------------------
(* Customers and cards *)

\* Fault: the handlers do not look whether there is a client.
Ask_NoClient(x, f) ==
  /\ Begins(x, [Idle EXCEPT !.family = f, !.customer = customer[f],
                           !.does = IF customer[f] = NoRow THEN "mint" ELSE "setup"])
  /\ UNCHANGED <<chosen, client, rows, stripe>>

\* createSetupIntent, up to its first await: a family without a customer gets
\* one first.  createPayment does the same, and changes nothing after that: it
\* is a call that ends with GivesUp.
Ask(x, f) ==
  /\ client # NoRow
  /\ Begins(x, [Idle EXCEPT !.family = f, !.customer = customer[f],
                           !.does = IF customer[f] = NoRow THEN "mint" ELSE "setup"])
  /\ UNCHANGED <<chosen, client, rows, stripe>>

\* Stripe has made the customer, in the account of the client the handler has.
\* It is stored, whatever the family has by now.
CustomerMade(x, u) ==
  LET r == call[x] IN
  /\ r.does = "mint"
  /\ made[u] = NoRow
  /\ made' = [made EXCEPT ![u] = [family |-> r.family, account |-> r.account]]
  /\ customer' = [customer EXCEPT ![r.family] = u]
  /\ Becomes(x, [r EXCEPT !.customer = u, !.does = "setup"])
  /\ UNCHANGED <<chosen, client, saved, enrollment, holder, setups, smooth>>

\* Stripe has made the setup intent: it knows the customer in its account only.
IntentMade(x) ==
  LET r == call[x] IN
  /\ r.does = "setup"
  /\ made[r.customer].account = r.account
  /\ setups' = setups \cup {r.customer}
  /\ Ends(x)
  /\ UNCHANGED <<chosen, client, rows, made, holder, smooth>>

\* Any call of Stripe may fail; the handler gives up, keeping what it has stored.
GivesUp(x) ==
  /\ Underway(x) /\ ~Loading(x)
  /\ Ends(x)
  /\ UNCHANGED <<chosen, client, rows, stripe, smooth>>

\* The browser confirms one of the customer's setup intents: Stripe attaches the card.
SetUp(c, u) ==
  /\ u \in setups /\ holder[c] = NoRow
  /\ holder' = [holder EXCEPT ![c] = u]
  /\ UNCHANGED <<chosen, client, rows, call, made, setups, smooth>>

\* saveCard, up to its await.  A parent with two families may name either.
Save(x, f, c) ==
  /\ client # NoRow /\ customer[f] # NoRow
  /\ holder[c] # NoRow
  /\ Begins(x, [Idle EXCEPT !.does = "save", !.family = f, !.card = c, !.customer = customer[f]])
  /\ UNCHANGED <<chosen, client, rows, stripe>>

\* Is u a customer of the account?
In(u, account) == u \in Customers /\ made[u].account = account

\* Fault: the card may be another customer's.
Fits_Any(x) == In(holder[call[x].card], call[x].account)

\* The client finds the card in its account, attached to the family's customer.
Fits(x) == In(holder[call[x].card], call[x].account) /\ holder[call[x].card] = call[x].customer

\* Fault: a card is saved as the default whatever cards there are.
CardRow_AlwaysDefault(f) == [family |-> f, default |-> TRUE]

\* The family's first card is its default.
CardRow(f) == [family |-> f, default |-> CardsOf(f) = {}]

\* The card is retrieved and saved, unless it has been saved before.
CardFound(x) ==
  LET r == call[x] IN
  /\ r.does = "save" /\ Fits(x)
  /\ saved' = IF saved[r.card] # NoRow THEN saved ELSE [saved EXCEPT ![r.card] = CardRow(r.family)]
  /\ Ends(x)
  /\ UNCHANGED <<chosen, client, customer, enrollment, stripe, smooth>>

\* Stripe is asked to detach the card, if there is a client.
AsksToDetach(x, c) ==
  Begins(x, IF client = NoRow THEN Idle
            ELSE [Idle EXCEPT !.does = "detach", !.family = saved[c].family, !.card = c])

\* Fault: autopay is left on without its card.
Remove_KeepsAutopay(x, c) ==
  /\ saved[c] # NoRow
  /\ saved' = [saved EXCEPT ![c] = NoRow]
  /\ AsksToDetach(x, c)
  /\ UNCHANGED <<chosen, client, customer, enrollment, stripe>>

\* removeCard: the rows first, then Stripe.
Remove(x, c) ==
  /\ saved[c] # NoRow
  /\ saved' = [saved EXCEPT ![c] = NoRow]
  /\ LET f == saved[c].family IN
     enrollment' = IF enrollment[f].card = c
                   THEN [enrollment EXCEPT ![f] = [enabled |-> FALSE, card |-> NoRow]]
                   ELSE enrollment
  /\ AsksToDetach(x, c)
  /\ UNCHANGED <<chosen, client, customer, stripe>>

\* The process dies between the two statements, which are in no transaction.
RemoveCutShort(c) ==
  /\ saved[c] # NoRow /\ enrollment[saved[c].family].card = c
  /\ saved' = [saved EXCEPT ![c] = NoRow]
  /\ UNCHANGED <<customer, enrollment>>
  /\ Restarts

\* Best effort: without a client, or in another account, nothing is detached.
Detached(x) ==
  LET r == call[x] IN
  /\ r.does = "detach"
  /\ In(holder[r.card], r.account)
  /\ holder' = [holder EXCEPT ![r.card] = Gone]
  /\ Ends(x)
  /\ UNCHANGED <<chosen, client, rows, made, setups, smooth>>

\* setAutopay: the default card, or any if none is the default.
TurnOn(f, c) ==
  /\ c \in CardsOf(f)
  /\ saved[c].default \/ \A d \in CardsOf(f) : ~saved[d].default
  /\ enrollment' = [enrollment EXCEPT ![f] = [enabled |-> TRUE, card |-> c]]
  /\ UNCHANGED <<chosen, client, customer, saved, call, stripe, smooth>>

TurnOff(f) ==
  /\ enrollment' = [enrollment EXCEPT ![f].enabled = FALSE]
  /\ UNCHANGED <<chosen, client, customer, saved, call, stripe, smooth>>

LoadSteps(x) ==
  \/ Load(x) \/ LoadSucceeds(x) \/ LoadFails(x) \/ SwitchCutShort(x)
  \/ \E a \in Accounts : Switch(x, a)

CardSteps(x) ==
  \/ \E f \in Families : Ask(x, f)
  \/ \E u \in Customers : CustomerMade(x, u)
  \/ IntentMade(x) \/ GivesUp(x)
  \/ \E f \in Families, c \in Cards : Save(x, f, c)
  \/ CardFound(x)
  \/ \E c \in Cards : Remove(x, c)
  \/ Detached(x)

Next ==
  \/ \E x \in Calls : LoadSteps(x) \/ CardSteps(x)
  \/ \E c \in Cards, u \in Customers : SetUp(c, u)
  \/ \E f \in Families, c \in Cards : TurnOn(f, c)
  \/ \E f \in Families : TurnOff(f)
  \/ \E c \in Cards : RemoveCutShort(c)
  \/ Crash

Spec == Init /\ [][Next]_vars
-----------------------------------------------------------------------------
(* Properties *)

\* Autopay is on only with a card to charge, and the card it names is a saved
\* card of the same family.
HasItsCard(f) ==
  /\ enrollment[f].enabled => enrollment[f].card # NoRow
  /\ enrollment[f].card # NoRow => enrollment[f].card \in CardsOf(f)

\* Only a removal cut short parts a family's autopay from its card: no saving
\* or removing of cards does, no switch of the account, and no crash in the
\* middle of a switch, wherever other handlers are ("if it was the autopay
\* default, autopay is turned off").
AutopayKeepsItsCard ==
  [][\A f \in Families :
       HasItsCard(f) => HasItsCard(f)' \/ \E c \in CardsOf(f) : RemoveCutShort(c)]_vars

\* A family never has two default cards, although several may be saved at once.
OneDefaultCard ==
  \A f \in Families : Cardinality({c \in CardsOf(f) : saved[c].default}) <= 1

\* A family's cards and customer were made for it and for no other.
CardsStayInTheFamily ==
  \A f \in Families :
    /\ customer[f] # NoRow => made[customer[f]].family = f
    /\ \A c \in CardsOf(f) : holder[c] \in Customers => made[holder[c]].family = f

\* What is stored can be charged: the customers are of the account whose keys
\* are loaded, and the cards are attached to them.
StoredFits ==
  /\ client = chosen
  /\ \A f \in Families :
       /\ customer[f] # NoRow => made[customer[f]].account = client
       /\ \A c \in CardsOf(f) : holder[c] = customer[f]

\* So it is between handlers as long as they keep apart, every load succeeds
\* and the process lives: accounts are switched back and forth, cards saved,
\* removed and set up for accounts that have been left since.
StoredFitsWhenSmooth ==
  smooth /\ (\A x \in Calls : ~Underway(x)) => StoredFits

\* A switch that succeeds leaves no family with a customer of another account
\* ("a successful switch to a DIFFERENT account invalidates every family's
\* saved Stripe state").
SwitchClears ==
  [][\A x \in Calls : call[x].does = "switch" /\ LoadSucceeds(x) =>
       \A f \in Families : customer'[f] # NoRow => made[customer'[f]].account = client']_vars
=============================================================================
