----------------------------- MODULE Reconcile -----------------------------
(***************************************************************************)
(* Reconciliation against Stripe (payments/reconcile.ts): a pass asks      *)
(* Stripe for the tuition intents that succeeded since a stored cursor,    *)
(* records those the ledger does not have, asks for the intents that are   *)
(* still pending, and moves the cursor.  The daily job and finance's       *)
(* button may run passes at the same time; between the two searches of a   *)
(* pass everything else goes on.  There is no webhook: money that nobody   *)
(* recorded when it was paid is booked here or not at all.                 *)
(*                                                                         *)
(* An intent is what its payment is recorded under, so the ledger appears  *)
(* only as the set of intents it has.  A search has one page.              *)
(***************************************************************************)
EXTENDS Integers, FiniteSets

CONSTANTS
  Intents,       \* PaymentIntents with the purpose of tuition
  Attributable,  \* those that name a family and an origin we know
  Passes,        \* passes that may run at the same time
  LastSecond,    \* time runs from 1 to LastSecond (a bound)
  MishapSets,    \* what may go wrong together, of the following
  NoRow

AllMishaps ==
  { "record fails",          \* a record throws for one intent
    "search fails",          \* the search for succeeded intents fails
    "pending search fails",  \* the search for pending intents fails
    "crash",                 \* the process dies
    "unconfirmed",           \* an intent waits for its payer for a while
    "between searches" }     \* an intent settles between a pass's searches

ASSUME AttributableAndMishaps ==
  Attributable \subseteq Intents /\ MishapSets \subseteq SUBSET AllMishaps
ASSUME SomeTime == LastSecond \in Nat \ {0}

VARIABLES
  intent,   \* at Stripe: when it was created, and its state
  booked,   \* the intents the ledger has recorded
  cursor,   \* the stored cursor; 0 looks back beyond every intent
  pass,     \* where each pass is, and what it has learned
  now,      \* the second it is at Stripe
  mishaps   \* what may go wrong, chosen once and for all

vars == <<intent, booked, cursor, pass, now, mishaps>>

States == {"unconfirmed", "pending", "succeeded", "canceled"}
Intent == [created : 1 .. LastSecond, state : States]
Pass   == [at : {"idle", "asked", "found", "recorded", "scanned"}, from : 0 .. LastSecond,
           found : SUBSET Intents, errored : SUBSET Intents, pending : SUBSET Intents]

ASSUME NoRowIsNoIntent == NoRow \notin Intent

TypeOK ==
  /\ intent \in [Intents -> Intent \cup {NoRow}]
  /\ booked \subseteq Attributable
  /\ cursor \in 0 .. now
  /\ pass \in [Passes -> Pass]
  /\ now \in 1 .. LastSecond
  /\ mishaps \in MishapSets

-----------------------------------------------------------------------------
(* The arithmetic of the cursor *)

In(state) == {i \in Intents : intent[i] # NoRow /\ intent[i].state = state}

Latest(S)   == CHOOSE t \in S : \A u \in S : u <= t
Earliest(S) == CHOOSE t \in S : \A u \in S : t <= u
Times(S)    == {intent[i].created : i \in S}

\* Fault: no overlap, so the cursor's own second is not looked at again.
Since_NoOverlap(from) == from

\* Searches ask for intents created after this second, which is one before the
\* cursor: the cursor's own second is looked at again.
Since(from) == IF from = 0 THEN 0 ELSE from - 1

Window(from) == {i \in Intents : intent[i] # NoRow /\ intent[i].created > Since(from)}

\* Fault: an intent whose record failed does not hold the cursor.
HeldBack_ErrorsPassed(p) == pass[p].pending

\* Fault: an intent that is still pending does not hold the cursor.
HeldBack_PendingPassed(p) == pass[p].errored

\* The intents the cursor must stay below.
HeldBack(p) == pass[p].errored \cup pass[p].pending

\* Fault: the cursor moves past the latest intent, not to it.
NextCursor_PastTheLatest(p) ==
  LET latest == Latest({pass[p].from} \cup Times(pass[p].found)) + 1
  IN IF HeldBack(p) = {} THEN latest ELSE Earliest({latest, Earliest(Times(HeldBack(p))) - 1})

NextCursor(p) ==
  LET latest == Latest({pass[p].from} \cup Times(pass[p].found))
  IN IF HeldBack(p) = {} THEN latest ELSE Earliest({latest, Earliest(Times(HeldBack(p))) - 1})

-----------------------------------------------------------------------------
(* A pass *)

Idle == [at |-> "idle", from |-> 0, found |-> {}, errored |-> {}, pending |-> {}]

Init ==
  /\ intent = [i \in Intents |-> NoRow]
  /\ booked = {}
  /\ cursor = 0
  /\ pass = [p \in Passes |-> Idle]
  /\ now = 1
  /\ mishaps \in MishapSets

\* The cursor is read before the first await.
Start(p) ==
  /\ pass[p].at = "idle"
  /\ pass' = [pass EXCEPT ![p].at = "asked", ![p].from = cursor]
  /\ UNCHANGED <<intent, booked, cursor, now, mishaps>>

\* Stripe answers the search for succeeded intents.
FindSucceeded(p) ==
  /\ pass[p].at = "asked"
  /\ pass' = [pass EXCEPT ![p].at = "found",
                          ![p].found = In("succeeded") \cap Window(pass[p].from)]
  /\ UNCHANGED <<intent, booked, cursor, now, mishaps>>

\* The search fails, or its answer is lost: the pass ends and the cursor stays.
SearchFails(p) ==
  /\ "search fails" \in mishaps
  /\ pass[p].at \in {"asked", "found"}
  /\ pass' = [pass EXCEPT ![p] = Idle]
  /\ UNCHANGED <<intent, booked, cursor, now, mishaps>>

\* The loop over what was found, which has no await: every intent that is
\* attributable and not in the ledger by now is recorded, but for those whose
\* record throws.
Record(p, failed) ==
  /\ pass[p].at = "found"
  /\ failed \subseteq (pass[p].found \cap Attributable) \ booked
  /\ booked' = booked \cup ((pass[p].found \cap Attributable) \ failed)
  /\ pass' = [pass EXCEPT ![p].at = "recorded", ![p].errored = failed]
  /\ UNCHANGED <<intent, cursor, now, mishaps>>

\* Stripe answers the search for pending intents, which may fail as well: then
\* no pending intent holds the cursor.
FindPending(p) ==
  /\ pass[p].at = "recorded"
  /\ pass' = [pass EXCEPT ![p].at = "scanned",
                          ![p].pending = In("pending") \cap Window(pass[p].from)]
  /\ UNCHANGED <<intent, booked, cursor, now, mishaps>>

PendingSearchFails(p) ==
  /\ "pending search fails" \in mishaps
  /\ pass[p].at = "recorded"
  /\ pass' = [pass EXCEPT ![p].at = "scanned"]
  /\ UNCHANGED <<intent, booked, cursor, now, mishaps>>

\* The cursor is stored, whatever another pass has stored in the meantime.
Finish(p) ==
  /\ pass[p].at = "scanned"
  /\ cursor' = NextCursor(p)
  /\ pass' = [pass EXCEPT ![p] = Idle]
  /\ UNCHANGED <<intent, booked, now, mishaps>>

\* The process dies, perhaps in the middle of a pass's loop.
Crash ==
  /\ "crash" \in mishaps
  /\ \/ UNCHANGED booked
     \/ \E p \in Passes : /\ pass[p].at = "found"
                          /\ \E some \in SUBSET (pass[p].found \cap Attributable) :
                               booked' = booked \cup some
  /\ pass' = [p \in Passes |-> Idle]
  /\ UNCHANGED <<intent, cursor, now, mishaps>>

-----------------------------------------------------------------------------
(* Everybody else *)

\* An intent is created: by the portal's payment page, to be confirmed when
\* the payer gets to it, or by a charge that is confirmed at once.
Create(i, state) ==
  /\ intent[i] = NoRow
  /\ state = "unconfirmed" => "unconfirmed" \in mishaps
  /\ intent' = [intent EXCEPT ![i] = [created |-> now, state |-> state]]
  /\ UNCHANGED <<booked, cursor, pass, now, mishaps>>

Becomes(from) ==
  CASE from = "unconfirmed" -> {"pending", "succeeded", "canceled"}
    [] from = "pending"     -> {"succeeded", "canceled"} \cup ({"unconfirmed"} \cap mishaps)
    [] OTHER                -> {}

StripeMoves(i, state) ==
  /\ intent[i] # NoRow /\ state \in Becomes(intent[i].state)
  /\ "between searches" \in mishaps \/ \A p \in Passes : pass[p].at \notin {"found", "recorded"}
  /\ intent' = [intent EXCEPT ![i].state = state]
  /\ UNCHANGED <<booked, cursor, pass, now, mishaps>>

\* The push paths: the parent's browser confirms on return, autopay has its
\* answer, or Donations or Kiosk report the payment.
Push(i) ==
  /\ i \in (In("succeeded") \cap Attributable) \ booked
  /\ booked' = booked \cup {i}
  /\ UNCHANGED <<intent, cursor, pass, now, mishaps>>

Tick ==
  /\ now < LastSecond
  /\ now' = now + 1
  /\ UNCHANGED <<intent, booked, cursor, pass, mishaps>>

PassStep(p) ==
  \/ Start(p) \/ FindSucceeded(p) \/ SearchFails(p)
  \/ Record(p, {})
  \/ "record fails" \in mishaps /\ \E failed \in SUBSET Attributable : Record(p, failed)
  \/ FindPending(p) \/ PendingSearchFails(p) \/ Finish(p)

Next ==
  \/ \E p \in Passes : PassStep(p)
  \/ Crash
  \/ \E i \in Intents, state \in States \ {"canceled"} : Create(i, state)
  \/ \E i \in Intents, state \in States : StripeMoves(i, state)
  \/ \E i \in Intents : Push(i)
  \/ Tick

Spec == Init /\ [][Next]_vars

\* Passes go on being run (the daily job), and what fails is transient: a
\* search and a record that are tried again and again succeed in the end.
Fairness ==
  \A p \in Passes :
    /\ WF_vars(Start(p)) /\ WF_vars(FindPending(p)) /\ WF_vars(Finish(p))
    /\ SF_vars(FindSucceeded(p)) /\ SF_vars(Record(p, {}))

FairSpec == Spec /\ Fairness
-----------------------------------------------------------------------------
(* Properties *)

\* The cursor a pass stores never passes an intent that pass has seen succeed
\* and left unrecorded, whatever happens around it.
FoundIsBookedOrHeld ==
  [][\A p \in Passes :
       pass[p].at = "scanned" /\ pass'[p].at = "idle" /\ cursor' # cursor =>
         \A i \in pass[p].found \cap Attributable : i \in booked \/ i \in Window(cursor')]_vars

\* Intents are confirmed as they are created, none settles between the two
\* searches of a pass, and the search for pending ones does not fail.
Smooth == mishaps \cap {"unconfirmed", "between searches", "pending search fails"} = {}

\* The cursor never passes an intent that took or may yet take a family's
\* money and is not in the ledger: the next pass looks at it again.  It takes
\* smooth running; records and searches for succeeded intents may fail and the
\* process may die.
NothingIsPassedOver ==
  Smooth => \A i \in (In("succeeded") \cup In("pending")) \cap Attributable :
              i \notin booked => i \in Window(cursor)

\* Money is never lost, only delayed: a tuition intent that succeeded is booked
\* in the end although nobody pushed it.
SucceededIsBooked ==
  \A i \in Attributable : i \in In("succeeded") ~> i \in booked

\* So it is under smooth running.
BookedWhenSmooth ==
  \A i \in Attributable : Smooth /\ i \in In("succeeded") ~> i \in booked
=============================================================================
