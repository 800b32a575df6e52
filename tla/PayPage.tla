------------------------------ MODULE PayPage ------------------------------
(***************************************************************************)
(* Paying on the portal (routes/family/PayNow.tsx with createPayment and   *)
(* confirmPayment of trpc/portal.ts): the page a parent pays on, Stripe,   *)
(* and the server.                                                         *)
(*                                                                         *)
(* Any answer may be lost: the browser sees an error although what it      *)
(* asked for was done.  A page may be reloaded at any moment, and forgets  *)
(* everything.  The day's reconciliation (Reconcile) is here only as what  *)
(* books a payment the page did not see to.                                *)
(***************************************************************************)
EXTENDS Integers, FiniteSets

CONSTANTS
  Pages,      \* tabs
  Intents,    \* payment intents there can be (a bound)
  NoIntent

VARIABLES
  phase,      \* what a page shows or waits for
  held,       \* the intent whose client secret it has
  intent,     \* Stripe's intents
  sent,       \* intents a confirmation is on its way to Stripe for
  booked,     \* the intents recorded
  used        \* intents a page has held since it was loaded; not in the code

pageVars == <<phase, held, intent, sent, booked, used>>

\* A page in "starting" has createPayment, one in "paying" Stripe and one in
\* "recording" confirmPayment under way; its button is disabled.
Phases == {"closed", "amount", "starting", "card", "paying", "recording", "done"}

PageTypeOK ==
  /\ phase \in [Pages -> Phases]
  /\ held \in [Pages -> Intents \cup {NoIntent}]
  /\ intent \in [Intents -> {"none", "open", "processing", "succeeded"}]
  /\ sent \subseteq Intents /\ booked \subseteq Intents
  /\ used \in [Pages -> SUBSET Intents]

PageInit ==
  /\ phase = [p \in Pages |-> "closed"]
  /\ held = [p \in Pages |-> NoIntent]
  /\ intent = [i \in Intents |-> "none"]
  /\ sent = {} /\ booked = {}
  /\ used = [p \in Pages |-> {}]

Shows(p, x, y) == phase[p] = x /\ phase' = [phase EXCEPT ![p] = y]

Rest == <<held, intent, sent, booked, used>>

Open(p)  == Shows(p, "closed", "amount") /\ UNCHANGED Rest
Start(p) == Shows(p, "amount", "starting") /\ UNCHANGED Rest

\* createPayment made an intent, and its client secret reaches the page.
Started(p, i) ==
  /\ Shows(p, "starting", "card")
  /\ intent[i] = "none" /\ intent' = [intent EXCEPT ![i] = "open"]
  /\ held' = [held EXCEPT ![p] = i]
  /\ used' = [used EXCEPT ![p] = @ \cup {i}]
  /\ UNCHANGED <<sent, booked>>

\* It did not, or the answer is lost: an intent nobody can confirm is left.
StartFails(p) ==
  /\ Shows(p, "starting", "amount")
  /\ \/ UNCHANGED intent
     \/ \E i \in Intents : intent[i] = "none" /\ intent' = [intent EXCEPT ![i] = "open"]
  /\ UNCHANGED <<held, sent, booked, used>>

\* submit, the first time or again after an error.
Pay(p) ==
  /\ Shows(p, "card", "paying")
  /\ sent' = sent \cup {held[p]}
  /\ UNCHANGED <<held, intent, booked, used>>

\* Stripe takes the money of an intent once, whether the page still waits or not;
\* some ways of paying take days.
Takes(i) ==
  /\ i \in sent /\ intent[i] = "open"
  /\ \E state \in {"processing", "succeeded"} : intent' = [intent EXCEPT ![i] = state]
  /\ sent' = sent \ {i}
  /\ UNCHANGED <<phase, held, booked, used>>

\* One that was being processed goes through, or is as it was before.
Settles(i) ==
  /\ intent[i] = "processing"
  /\ \E state \in {"open", "succeeded"} : intent' = [intent EXCEPT ![i] = state]
  /\ UNCHANGED <<phase, held, sent, booked, used>>

\* The card is declined, or the confirmation is lost or comes too late.
Refuses(i) ==
  /\ i \in sent
  /\ sent' = sent \ {i}
  /\ UNCHANGED <<phase, held, intent, booked, used>>

\* Stripe says that the payment succeeded or is being processed.
Paid(p) ==
  /\ Shows(p, "paying", "recording") /\ intent[held[p]] \in {"processing", "succeeded"}
  /\ UNCHANGED Rest

\* Fault: after an error the page starts over with an intent of its own.
PayFails_StartsOver(p) == Shows(p, "paying", "amount") /\ UNCHANGED Rest

\* A decline; an answer that is lost, perhaps before Stripe took the money; an
\* intent that succeeded already.
PayFails(p) == Shows(p, "paying", "card") /\ UNCHANGED Rest

\* confirmPayment records what succeeded by the time it asks Stripe; it may fail or
\* its answer be lost, and the page says "done" all the same.
Recorded(p) ==
  /\ Shows(p, "recording", "done")
  /\ booked' \in {booked, booked \cup {i \in {held[p]} : intent[i] = "succeeded"}}
  /\ UNCHANGED <<held, intent, sent, used>>

\* The tab is closed or loaded again, or the balance it shows is paid.
Reload(p) ==
  /\ phase[p] # "closed"
  /\ phase' = [phase EXCEPT ![p] = "closed"]
  /\ held' = [held EXCEPT ![p] = NoIntent]
  /\ used' = [used EXCEPT ![p] = {}]
  /\ UNCHANGED <<intent, sent, booked>>

\* Reconciliation's part.
Reconciled(i) ==
  /\ intent[i] = "succeeded" /\ i \notin booked
  /\ booked' = booked \cup {i}
  /\ UNCHANGED <<phase, held, intent, sent, used>>

PageNext ==
  \/ \E p \in Pages, i \in Intents : Started(p, i)
  \/ \E p \in Pages : \/ Open(p) \/ Start(p) \/ StartFails(p)
                      \/ Pay(p) \/ Paid(p) \/ PayFails(p)
                      \/ Recorded(p) \/ Reload(p)
  \/ \E i \in Intents : Takes(i) \/ Settles(i) \/ Refuses(i) \/ Reconciled(i)

PageSpec == PageInit /\ [][PageNext]_pageVars
-----------------------------------------------------------------------------
(* Properties *)

TakenBy(p) == {i \in used[p] : intent[i] \in {"processing", "succeeded"}}

\* However often the button is pressed and whatever answers are lost, late or come
\* twice, a page takes money once, and what is booked is what Stripe took.
OncePerPage ==
  /\ \A p \in Pages : Cardinality(TakenBy(p)) <= 1
  /\ \A i \in booked : intent[i] = "succeeded"
=============================================================================
