-------------------------- MODULE ReconcileProofs --------------------------
(***************************************************************************)
(* What holds of reconciliation for any intents, any passes at the same    *)
(* time and any length of time: what is found is booked or held, and under *)
(* smooth running nothing is passed over.                                  *)
(***************************************************************************)
EXTENDS Reconcile, CentsTheorems

-----------------------------------------------------------------------------
(* The inductive invariant *)

\* The intents a pass knows of.
Seen(p) == pass[p].found \cup pass[p].errored \cup pass[p].pending

\* Nothing comes from the future, and a pass knows of intents that there are.
Clocked ==
  /\ \A i \in Intents : intent[i] # NoRow => intent[i].created <= now
  /\ \A p \in Passes : pass[p].from <= now
  /\ \A p \in Passes : \A i \in Seen(p) : intent[i] # NoRow

\* A pass past its loop has booked what it found, or it knows that it failed.
BookedOrErrored ==
  \A p \in Passes : pass[p].at \in {"recorded", "scanned"} =>
    \A i \in pass[p].found \cap Attributable : i \in booked \/ i \in pass[p].errored

\* Money that was or may yet be taken, and is not in the ledger.
Open == ((In("succeeded") \cup In("pending")) \cap Attributable) \ booked

\* Intent i came no earlier than any a pass has found.
NotBefore(p, i) == \A j \in pass[p].found : intent[j].created <= intent[i].created

\* What a pass still knows of open intents after its searches.
Knows(p) ==
  \A i \in Open :
    /\ pass[p].at # "idle" => pass[p].from <= intent[i].created
    /\ pass[p].at = "found" /\ i \in In("succeeded") => i \in pass[p].found \/ NotBefore(p, i)
    /\ pass[p].at = "recorded" /\ i \in In("succeeded") => i \in pass[p].errored \/ NotBefore(p, i)
    /\ pass[p].at = "scanned" => i \in HeldBack(p) \/ NotBefore(p, i)

\* Under smooth running no intent waits for its payer, the cursor stands before
\* every open intent, and so will every pass that has begun.
SmoothInv ==
  Smooth => /\ In("unconfirmed") = {}
            /\ \A i \in Open : cursor <= intent[i].created
            /\ \A p \in Passes : Knows(p)

ReconcileInv == TypeOK /\ Clocked /\ BookedOrErrored /\ SmoothInv

-----------------------------------------------------------------------------
(* The arithmetic of the cursor *)

LEMMA EarliestIs ==
  ASSUME NEW S, S \subseteq Nat, S # {}
  PROVE  Earliest(S) \in S /\ \A u \in S : Earliest(S) <= u
<1>1. \E t \in S : \A u \in S : t <= u
  BY LeastNat
<1> QED
  BY <1>1 DEF Earliest

LEMMA LatestIs ==
  ASSUME NEW S, S \subseteq Nat, S # {}, NEW b \in Nat, \A u \in S : u <= b
  PROVE  Latest(S) \in S /\ \A u \in S : u <= Latest(S)
<1>1. \E t \in S : \A u \in S : u <= t
  BY GreatestNat
<1> QED
  BY <1>1 DEF Latest

\* What TypeOK and Clocked say of one intent and of one pass.
LEMMA IntentTypes ==
  ASSUME TypeOK, Clocked, NEW i \in Intents, intent[i] # NoRow
  PROVE  /\ intent[i] \in Intent
         /\ intent[i].created \in 1 .. now
         /\ intent[i].created \in Nat /\ 1 <= intent[i].created /\ intent[i].created <= now
         /\ intent[i].state \in States
<1>1. intent[i] \in Intent
  BY DEF TypeOK
<1>2. intent[i].created \in 1 .. LastSecond /\ intent[i].state \in States
  BY <1>1 DEF Intent
<1>3. intent[i].created <= now /\ now \in Nat /\ LastSecond \in Nat
  BY SomeTime DEF Clocked, TypeOK
<1> QED
  BY <1>1, <1>2, <1>3

LEMMA PassTypes ==
  ASSUME TypeOK, Clocked, NEW p \in Passes
  PROVE  /\ pass[p] \in Pass
         /\ pass[p].from \in 0 .. now /\ pass[p].from \in Nat /\ pass[p].from <= now
         /\ now \in Nat /\ 1 <= now
         /\ Seen(p) \subseteq Intents /\ HeldBack(p) \subseteq Seen(p) /\ pass[p].found \subseteq Seen(p)
         /\ \A i \in Seen(p) : intent[i] # NoRow
<1>1. pass[p] \in Pass
  BY DEF TypeOK
<1>2. pass[p].from \in 0 .. LastSecond /\ Seen(p) \subseteq Intents
  BY <1>1 DEF Pass, Seen
<1>3. pass[p].from <= now /\ now \in Nat /\ 1 <= now /\ LastSecond \in Nat
  BY SomeTime DEF Clocked, TypeOK
<1>4. HeldBack(p) \subseteq Seen(p) /\ pass[p].found \subseteq Seen(p)
  BY DEF HeldBack, Seen
<1> QED
  BY <1>1, <1>2, <1>3, <1>4 DEF Clocked

\* The times of intents that a pass has seen.
LEMMA TimesTypes ==
  ASSUME TypeOK, Clocked, NEW p \in Passes, NEW S, S \subseteq Seen(p)
  PROVE  /\ Times(S) \subseteq Nat
         /\ \A t \in Times(S) : 1 <= t /\ t <= now
         /\ S # {} => Times(S) # {}
         /\ \A i \in S : intent[i].created \in Times(S)
<1>1. \A i \in S : i \in Intents /\ intent[i] # NoRow
  BY PassTypes
<1>2. \A i \in S : intent[i].created \in Nat /\ 1 <= intent[i].created /\ intent[i].created <= now
  BY <1>1, IntentTypes
<1> QED
  BY <1>2 DEF Times

\* The cursor a pass stores is a time, it is before everything that is held
\* back, and it is no later than what the pass started from and has found.
LEMMA CursorBounds ==
  ASSUME TypeOK, Clocked, NEW p \in Passes
  PROVE  /\ NextCursor(p) \in 0 .. now
         /\ \A i \in HeldBack(p) : NextCursor(p) < intent[i].created
         /\ \A t \in Nat : pass[p].from <= t /\ (\A j \in pass[p].found : intent[j].created <= t)
                            => NextCursor(p) <= t
<1> DEFINE S == {pass[p].from} \cup Times(pass[p].found)
           latest == Latest(S)
           H == Times(HeldBack(p))
<1>1. /\ S \subseteq Nat /\ S # {} /\ now \in Nat
      /\ \A u \in S : u <= now
  BY PassTypes, TimesTypes
<1>2. latest \in S /\ \A u \in S : u <= latest
  <2> HIDE DEF S
  <2> QED BY <1>1, LatestIs
<1>3. latest \in Nat /\ latest <= now
  BY <1>1, <1>2
<1>4. \A t \in Nat : pass[p].from <= t /\ (\A j \in pass[p].found : intent[j].created <= t)
                    => latest <= t
  BY <1>2 DEF Times
<1>5. CASE HeldBack(p) = {}
  <2>1. NextCursor(p) = latest
    BY <1>5 DEF NextCursor
  <2> HIDE DEF latest
  <2> QED
    BY <1>3, <1>4, <1>5, <2>1
<1>6. CASE HeldBack(p) # {}
  <2> DEFINE e == Earliest(H)
             B == {latest, e - 1}
  <2>1. H \subseteq Nat /\ H # {} /\ (\A t \in H : 1 <= t /\ t <= now)
        /\ \A i \in HeldBack(p) : intent[i].created \in H
    BY <1>6, PassTypes, TimesTypes
  <2>2. e \in H /\ \A u \in H : e <= u
    <3> HIDE DEF H
    <3> QED BY <2>1, EarliestIs
  <2>3. e \in Nat /\ 1 <= e /\ e - 1 \in Nat
    <3> HIDE DEF H, e
    <3> QED BY <2>1, <2>2
  <2>4. NextCursor(p) = Earliest(B)
    BY <1>6 DEF NextCursor
  <2>5. B \subseteq Nat /\ B # {}
    BY <1>3, <2>3
  <2>6. Earliest(B) \in B /\ \A u \in B : Earliest(B) <= u
    <3> HIDE DEF B
    <3> QED BY <2>5, EarliestIs
  <2>7. NextCursor(p) \in Nat /\ NextCursor(p) <= latest /\ NextCursor(p) <= e - 1
    BY <2>4, <2>5, <2>6
  <2> HIDE DEF latest, e, H, B
  <2>8. \A i \in HeldBack(p) : intent[i].created \in Nat /\ e <= intent[i].created
    BY <2>1, <2>2
  <2>9. \A i \in HeldBack(p) : NextCursor(p) < intent[i].created
    BY <2>3, <2>7, <2>8
  <2>10. NextCursor(p) <= now
    BY <1>1, <1>3, <2>7
  <2>11. \A t \in Nat : latest <= t => NextCursor(p) <= t
    BY <1>3, <2>7
  <2> QED
    BY <1>1, <1>4, <2>7, <2>9, <2>10, <2>11
<1> QED
  BY <1>5, <1>6

\* The window of a cursor holds what was created from the cursor's second on.
LEMMA WindowIs ==
  ASSUME TypeOK, Clocked, NEW from \in Nat, NEW i \in Intents, intent[i] # NoRow
  PROVE  i \in Window(from) <=> from <= intent[i].created
<1>1. intent[i].created \in Nat /\ 1 <= intent[i].created
  BY IntentTypes
<1>2. CASE from = 0
  BY <1>1, <1>2 DEF Window, Since
<1>3. CASE from # 0
  BY <1>1, <1>3 DEF Window, Since
<1> QED
  BY <1>2, <1>3

-----------------------------------------------------------------------------
(* Types, and what a pass knows of *)

\* A step that changes no intent and not the time, and gives pass p another
\* record that is one.
LEMMA PassChanges ==
  ASSUME TypeOK, Clocked, NEW p \in Passes, NEW r \in Pass,
         pass' = [pass EXCEPT ![p] = r], r.from <= now,
         \A i \in r.found \cup r.errored \cup r.pending : intent[i] # NoRow,
         UNCHANGED <<intent, now, mishaps>>, booked' \subseteq Attributable, cursor' \in 0 .. now
  PROVE  TypeOK' /\ Clocked'
<1>1. pass' \in [Passes -> Pass] /\ pass'[p] = r /\ \A q \in Passes \ {p} : pass'[q] = pass[q]
  BY DEF TypeOK
<1>2. TypeOK'
  BY <1>1 DEF TypeOK
<1>3. ASSUME NEW q \in Passes
      PROVE  pass'[q].from <= now' /\ \A i \in Seen(q)' : intent'[i] # NoRow
  <2>1. CASE q = p
    BY <1>1, <2>1 DEF Seen
  <2>2. CASE q # p
    BY <1>1, <2>2 DEF Seen, Clocked
  <2> QED
    BY <2>1, <2>2
<1> QED
  BY <1>2, <1>3 DEF Clocked

LEMMA IdleIsPass ==
  /\ Idle \in Pass
  /\ Idle.from = 0 /\ Idle.found = {} /\ Idle.errored = {} /\ Idle.pending = {} /\ Idle.at = "idle"
<1>1. 0 \in 0 .. LastSecond
  BY SomeTime
<1> QED
  BY <1>1 DEF Idle, Pass

LEMMA PassStepTypes ==
  ASSUME TypeOK, Clocked, NEW p \in Passes, PassStep(p)
  PROVE  TypeOK' /\ Clocked'
<1> USE DEF Seen
<1>0. /\ pass[p] \in Pass /\ pass[p].from <= now /\ pass[p].from \in 0 .. LastSecond
      /\ \A i \in pass[p].found \cup pass[p].errored \cup pass[p].pending : intent[i] # NoRow
      /\ cursor \in 0 .. now /\ now \in Nat /\ LastSecond \in Nat /\ now <= LastSecond
      /\ booked \subseteq Attributable /\ Attributable \subseteq Intents
  BY PassTypes, SomeTime, AttributableAndMishaps DEF TypeOK, Pass
<1>1. CASE Start(p)
  <2> DEFINE r == [pass[p] EXCEPT !.at = "asked", !.from = cursor]
  <2>0. cursor \in 0 .. LastSecond /\ cursor <= now
    BY <1>0
  <2>1. r \in Pass /\ r.from <= now /\ \A i \in r.found \cup r.errored \cup r.pending : intent[i] # NoRow
    BY <1>0, <2>0 DEF Pass
  <2>2. pass' = [pass EXCEPT ![p] = r]
    BY <1>1 DEF Start
  <2> QED
    BY <1>0, <1>1, <2>1, <2>2, PassChanges DEF Start
<1>2. CASE FindSucceeded(p)
  <2> DEFINE r == [pass[p] EXCEPT !.at = "found", !.found = In("succeeded") \cap Window(pass[p].from)]
  <2>1. r \in Pass /\ r.from <= now /\ \A i \in r.found \cup r.errored \cup r.pending : intent[i] # NoRow
    BY <1>0 DEF Pass, In
  <2>2. pass' = [pass EXCEPT ![p] = r]
    BY <1>2 DEF FindSucceeded
  <2> QED
    BY <1>0, <1>2, <2>1, <2>2, PassChanges DEF FindSucceeded
<1>3. CASE SearchFails(p)
  <2>1. pass' = [pass EXCEPT ![p] = Idle] /\ UNCHANGED <<intent, booked, cursor, now, mishaps>>
    BY <1>3 DEF SearchFails
  <2>2. Idle.from <= now /\ \A i \in Idle.found \cup Idle.errored \cup Idle.pending : intent[i] # NoRow
    BY <1>0, IdleIsPass
  <2> QED
    BY <1>0, <2>1, <2>2, IdleIsPass, PassChanges
<1>4. ASSUME NEW failed, Record(p, failed)
      PROVE  TypeOK' /\ Clocked'
  <2> DEFINE r == [pass[p] EXCEPT !.at = "recorded", !.errored = failed]
  <2>1. failed \subseteq pass[p].found /\ pass[p].found \subseteq Intents
    BY <1>0, <1>4 DEF Record, Pass
  <2>2. r \in Pass /\ r.from <= now /\ \A i \in r.found \cup r.errored \cup r.pending : intent[i] # NoRow
    BY <1>0, <2>1 DEF Pass
  <2>3. pass' = [pass EXCEPT ![p] = r]
    BY <1>4 DEF Record
  <2> QED
    BY <1>0, <1>4, <2>2, <2>3, PassChanges DEF Record
<1>5. CASE FindPending(p)
  <2> DEFINE r == [pass[p] EXCEPT !.at = "scanned", !.pending = In("pending") \cap Window(pass[p].from)]
  <2>1. r \in Pass /\ r.from <= now /\ \A i \in r.found \cup r.errored \cup r.pending : intent[i] # NoRow
    BY <1>0 DEF Pass, In
  <2>2. pass' = [pass EXCEPT ![p] = r]
    BY <1>5 DEF FindPending
  <2> QED
    BY <1>0, <1>5, <2>1, <2>2, PassChanges DEF FindPending
<1>6. CASE PendingSearchFails(p)
  <2> DEFINE r == [pass[p] EXCEPT !.at = "scanned"]
  <2>1. r \in Pass /\ r.from <= now /\ \A i \in r.found \cup r.errored \cup r.pending : intent[i] # NoRow
    BY <1>0 DEF Pass
  <2>2. pass' = [pass EXCEPT ![p] = r]
    BY <1>6 DEF PendingSearchFails
  <2> QED
    BY <1>0, <1>6, <2>1, <2>2, PassChanges DEF PendingSearchFails
<1>7. CASE Finish(p)
  <2>1. pass' = [pass EXCEPT ![p] = Idle] /\ UNCHANGED <<intent, booked, now, mishaps>>
    BY <1>7 DEF Finish
  <2>2. Idle.from <= now /\ \A i \in Idle.found \cup Idle.errored \cup Idle.pending : intent[i] # NoRow
    BY <1>0, IdleIsPass
  <2>3. cursor' \in 0 .. now
    BY <1>7, CursorBounds DEF Finish
  <2> QED
    BY <1>0, <2>1, <2>2, <2>3, IdleIsPass, PassChanges
<1> QED
  BY <1>1, <1>2, <1>3, <1>4, <1>5, <1>6, <1>7 DEF PassStep

\* Everybody else leaves what a pass knows alone.
LEMMA OthersTypes ==
  ASSUME TypeOK, Clocked, [Next]_vars, \A p \in Passes : ~PassStep(p)
  PROVE  TypeOK' /\ Clocked'
<1>0. /\ Attributable \subseteq Intents /\ LastSecond \in Nat /\ 1 \in 1 .. LastSecond
      /\ now \in Nat /\ 1 <= now /\ now <= LastSecond /\ cursor \in Nat /\ cursor <= now
      /\ \A p \in Passes : pass[p].from \in Nat /\ pass[p].from <= now /\ pass[p].found \subseteq Intents
      /\ \A i \in Intents : intent[i] # NoRow => intent[i].created \in Nat /\ intent[i].created <= now
  BY AttributableAndMishaps, SomeTime, PassTypes, IntentTypes DEF TypeOK, Seen
<1>1. CASE Crash
  <2>1. pass' \in [Passes -> Pass] /\ \A p \in Passes : pass'[p] = Idle
    BY <1>1, IdleIsPass DEF Crash
  <2>2. booked' \subseteq Attributable
    BY <1>1 DEF Crash, TypeOK
  <2>3. TypeOK'
    BY <1>1, <2>1, <2>2 DEF Crash, TypeOK
  <2> QED
    BY <1>0, <1>1, <2>1, <2>3, IdleIsPass DEF Crash, Clocked, Seen
<1>2. ASSUME NEW i \in Intents, NEW state \in States \ {"canceled"}, Create(i, state)
      PROVE  TypeOK' /\ Clocked'
  <2>1. [created |-> now, state |-> state] \in Intent
    BY <1>0 DEF Intent
  <2>2. /\ intent' \in [Intents -> Intent \cup {NoRow}]
        /\ intent'[i] = [created |-> now, state |-> state]
        /\ \A j \in Intents \ {i} : intent'[j] = intent[j]
    BY <1>2, <2>1 DEF Create, TypeOK
  <2>3. TypeOK'
    BY <1>2, <2>2 DEF Create, TypeOK
  <2>4. \A j \in Intents : intent'[j] # NoRow => intent'[j].created <= now
    BY <1>0, <2>2
  <2>5. intent'[i] # NoRow \/ intent' = intent
    BY <1>2, <2>2 DEF Create, TypeOK
  <2>6. \A j \in Intents : intent[j] # NoRow => intent'[j] # NoRow
    BY <2>2, <2>5
  <2>7. \A p \in Passes : Seen(p) \subseteq Intents /\ \A j \in Seen(p) : intent[j] # NoRow
    BY PassTypes
  <2> QED
    BY <1>0, <1>2, <2>3, <2>4, <2>6, <2>7 DEF Create, Clocked, Seen
<1>3. ASSUME NEW i \in Intents, NEW state \in States, StripeMoves(i, state)
      PROVE  TypeOK' /\ Clocked'
  <2>1. intent[i] \in Intent /\ intent' = [intent EXCEPT ![i] = [intent[i] EXCEPT !.state = state]]
    BY <1>3 DEF StripeMoves, TypeOK
  <2>2. [intent[i] EXCEPT !.state = state] \in Intent /\ [intent[i] EXCEPT !.state = state].created = intent[i].created
    BY <2>1 DEF Intent
  <2>3. /\ intent' \in [Intents -> Intent \cup {NoRow}]
        /\ intent'[i].created = intent[i].created
        /\ \A j \in Intents \ {i} : intent'[j] = intent[j]
    BY <2>1, <2>2 DEF TypeOK
  <2>4. TypeOK'
    BY <1>3, <2>3 DEF StripeMoves, TypeOK
  <2>5. \A j \in Intents : intent[j] # NoRow <=> intent'[j] # NoRow
    BY <1>3, <2>1, <2>2, <2>3, NoRowIsNoIntent DEF StripeMoves, TypeOK
  <2>6. \A j \in Intents : intent'[j] # NoRow => intent'[j].created <= now
    BY <1>0, <2>3, <2>5
  <2>7. \A p \in Passes : Seen(p) \subseteq Intents /\ \A j \in Seen(p) : intent[j] # NoRow
    BY PassTypes
  <2> QED
    BY <1>0, <1>3, <2>4, <2>5, <2>6, <2>7 DEF StripeMoves, Clocked, Seen
<1>4. ASSUME NEW i \in Intents, Push(i)
      PROVE  TypeOK' /\ Clocked'
  BY <1>4 DEF Push, TypeOK, Clocked, Seen
<1>5. CASE Tick
  <2>1. now' = now + 1 /\ now' \in 1 .. LastSecond /\ cursor' \in 0 .. now'
    BY <1>0, <1>5 DEF Tick
  <2>2. TypeOK'
    BY <1>5, <2>1 DEF Tick, TypeOK
  <2> QED
    BY <1>0, <1>5, <2>1, <2>2 DEF Tick, Clocked, Seen
<1>6. CASE UNCHANGED vars
  BY <1>6 DEF vars, TypeOK, Clocked, Seen, Intent, Pass
<1> QED
  BY <1>1, <1>2, <1>3, <1>4, <1>5, <1>6 DEF Next

LEMMA TypesKept ==
  ASSUME TypeOK, Clocked, [Next]_vars
  PROVE  TypeOK' /\ Clocked'
BY PassStepTypes, OthersTypes

-----------------------------------------------------------------------------
(* What is found is booked or held *)

LEMMA BookedOrErroredKept ==
  ASSUME TypeOK, Clocked, BookedOrErrored, [Next]_vars
  PROVE  BookedOrErrored'
<1> USE DEF BookedOrErrored
<1>1. ASSUME NEW p \in Passes, PassStep(p)
      PROVE  BookedOrErrored'
  <2>1. booked \subseteq booked'
    BY <1>1 DEF PassStep, Start, FindSucceeded, SearchFails, Record, FindPending,
                PendingSearchFails, Finish
  <2>2. \A q \in Passes \ {p} : pass'[q] = pass[q]
    BY <1>1 DEF PassStep, Start, FindSucceeded, SearchFails, Record, FindPending,
                PendingSearchFails, Finish, TypeOK
  <2>3. ASSUME pass'[p].at \in {"recorded", "scanned"}
        PROVE  \A i \in pass'[p].found \cap Attributable : i \in booked' \/ i \in pass'[p].errored
    <3>0. pass[p] \in Pass
      BY DEF TypeOK
    <3>1. CASE Start(p) \/ FindSucceeded(p)
      <4>1. pass'[p].at \in {"asked", "found"}
        BY <3>0, <3>1 DEF Start, FindSucceeded, TypeOK, Pass
      <4> QED
        BY <2>3, <4>1
    <3>2. CASE SearchFails(p) \/ Finish(p)
      <4>1. pass'[p].at = "idle"
        BY <3>2, IdleIsPass DEF SearchFails, Finish, TypeOK
      <4> QED
        BY <2>3, <4>1
    <3>3. ASSUME NEW failed, Record(p, failed)
          PROVE  \A i \in pass'[p].found \cap Attributable : i \in booked' \/ i \in pass'[p].errored
      <4>1. /\ pass'[p].found = pass[p].found /\ pass'[p].errored = failed
            /\ booked' = booked \cup ((pass[p].found \cap Attributable) \ failed)
        BY <3>0, <3>3 DEF Record, TypeOK, Pass
      <4> QED
        BY <4>1
    <3>4. CASE FindPending(p) \/ PendingSearchFails(p)
      <4>1. /\ pass[p].at = "recorded" /\ booked' = booked
            /\ pass'[p].found = pass[p].found /\ pass'[p].errored = pass[p].errored
        <5>1. CASE FindPending(p)
          BY <3>0, <5>1 DEF FindPending, TypeOK, Pass
        <5>2. CASE PendingSearchFails(p)
          BY <3>0, <5>2 DEF PendingSearchFails, TypeOK, Pass
        <5> QED
          BY <3>4, <5>1, <5>2
      <4> QED
        BY <4>1
    <3> QED
      BY <1>1, <3>1, <3>2, <3>3, <3>4 DEF PassStep
  <2> QED
    BY <2>1, <2>2, <2>3
<1>2. CASE Crash
  BY <1>2, IdleIsPass DEF Crash
<1>3. ASSUME NEW i \in Intents, NEW state, Create(i, state)
      PROVE  BookedOrErrored'
  BY <1>3 DEF Create
<1>4. ASSUME NEW i \in Intents, NEW state, StripeMoves(i, state)
      PROVE  BookedOrErrored'
  BY <1>4 DEF StripeMoves
<1>5. ASSUME NEW i \in Intents, Push(i)
      PROVE  BookedOrErrored'
  BY <1>5 DEF Push
<1>6. CASE Tick
  BY <1>6 DEF Tick
<1>7. CASE UNCHANGED vars
  BY <1>7 DEF vars
<1> QED
  BY <1>1, <1>2, <1>3, <1>4, <1>5, <1>6, <1>7 DEF Next

-----------------------------------------------------------------------------
(* What a pass knows of open intents *)

\* A pass that is left alone goes on knowing what it knows while others book.
LEMMA KnowsKept ==
  ASSUME NEW p \in Passes, Knows(p), pass'[p] = pass[p], UNCHANGED intent, booked \subseteq booked'
  PROVE  Knows(p)'
<1>1. Open' \subseteq Open /\ In("succeeded")' = In("succeeded")
  BY DEF Open, In
<1>2. HeldBack(p)' = HeldBack(p) /\ \A i : NotBefore(p, i)' <=> NotBefore(p, i)
  BY DEF HeldBack, NotBefore
<1> QED
  BY <1>1, <1>2 DEF Knows

LEMMA OpenAre ==
  ASSUME TypeOK, Clocked, NEW i \in Open
  PROVE  /\ i \in Intents /\ i \in Attributable /\ i \notin booked /\ intent[i] # NoRow
         /\ intent[i].created \in Nat /\ intent[i].created <= now
         /\ i \in In("succeeded") \/ i \in In("pending")
<1>1. i \in Intents /\ i \in Attributable /\ i \notin booked /\ intent[i] # NoRow
      /\ (i \in In("succeeded") \/ i \in In("pending"))
  BY DEF Open, In
<1> QED
  BY <1>1, IntentTypes

LEMMA PassStepKnows ==
  ASSUME TypeOK, Clocked, Smooth, SmoothInv, NEW p \in Passes, PassStep(p)
  PROVE  /\ UNCHANGED <<intent, mishaps>>
         /\ \A q \in Passes : Knows(q)'
         /\ \A i \in Open' : cursor' <= intent[i].created
<1>1. /\ UNCHANGED <<intent, mishaps>> /\ booked \subseteq booked'
      /\ \A q \in Passes \ {p} : pass'[q] = pass[q]
  BY DEF PassStep, Start, FindSucceeded, SearchFails, Record, FindPending,
         PendingSearchFails, Finish, TypeOK
<1>2. \A q \in Passes \ {p} : Knows(q)'
  BY <1>1, KnowsKept DEF SmoothInv
<1>3. Open' \subseteq Open /\ In("succeeded")' = In("succeeded")
  BY <1>1 DEF Open, In
<1>4. /\ \A i \in Open : cursor <= intent[i].created
      /\ Knows(p) /\ pass[p] \in Pass /\ pass[p].from \in Nat
  BY PassTypes DEF SmoothInv
<1>5. CASE Start(p)
  <2>1. pass'[p].at = "asked" /\ pass'[p].from = cursor /\ cursor' = cursor
    BY <1>4, <1>5 DEF Start, TypeOK, Pass
  <2>2. Knows(p)'
    BY <1>1, <1>3, <1>4, <2>1 DEF Knows
  <2> QED
    BY <1>1, <1>2, <1>3, <1>4, <2>1, <2>2
<1>6. CASE FindSucceeded(p)
  <2>1. /\ pass[p].at = "asked" /\ pass'[p].at = "found" /\ pass'[p].from = pass[p].from /\ cursor' = cursor
        /\ pass'[p].found = In("succeeded") \cap Window(pass[p].from)
    BY <1>4, <1>6 DEF FindSucceeded, TypeOK, Pass
  <2>2. ASSUME NEW i \in Open
        PROVE  /\ pass[p].from <= intent[i].created
               /\ i \in In("succeeded") => i \in pass'[p].found
    <3>1. pass[p].from <= intent[i].created
      BY <1>4, <2>1 DEF Knows
    <3>2. i \in Window(pass[p].from)
      BY <1>4, <3>1, OpenAre, WindowIs
    <3> QED
      BY <2>1, <3>1, <3>2
  <2>3. Knows(p)'
    BY <1>1, <1>3, <2>1, <2>2 DEF Knows
  <2> QED
    BY <1>1, <1>2, <1>3, <1>4, <2>1, <2>3
<1>7. CASE SearchFails(p)
  <2>1. pass'[p].at = "idle" /\ cursor' = cursor
    BY <1>7, IdleIsPass DEF SearchFails, TypeOK
  <2> QED
    BY <1>1, <1>2, <1>3, <1>4, <2>1 DEF Knows
<1>8. ASSUME NEW failed, Record(p, failed)
      PROVE  Knows(p)' /\ cursor' = cursor
  <2>1. /\ pass[p].at = "found" /\ pass'[p].at = "recorded" /\ pass'[p].from = pass[p].from /\ cursor' = cursor
        /\ pass'[p].found = pass[p].found /\ pass'[p].errored = failed
        /\ booked' = booked \cup ((pass[p].found \cap Attributable) \ failed)
    BY <1>4, <1>8 DEF Record, TypeOK, Pass
  <2>2. ASSUME NEW i \in Open', i \in In("succeeded")
        PROVE  i \in pass'[p].errored \/ NotBefore(p, i)'
    <3>1. i \in pass[p].found \/ NotBefore(p, i)
      BY <1>3, <1>4, <2>1, <2>2 DEF Knows
    <3>2. i \in Attributable /\ i \notin booked'
      BY DEF Open
    <3>3. NotBefore(p, i) => NotBefore(p, i)'
      BY <1>1, <2>1 DEF NotBefore
    <3> QED
      BY <2>1, <3>1, <3>2, <3>3
  <2> QED
    BY <1>1, <1>3, <1>4, <2>1, <2>2 DEF Knows
<1>9. CASE FindPending(p)
  <2>1. /\ pass[p].at = "recorded" /\ pass'[p].at = "scanned" /\ pass'[p].from = pass[p].from /\ cursor' = cursor
        /\ pass'[p].found = pass[p].found /\ pass'[p].errored = pass[p].errored
        /\ pass'[p].pending = In("pending") \cap Window(pass[p].from)
    BY <1>4, <1>9 DEF FindPending, TypeOK, Pass
  <2>2. ASSUME NEW i \in Open
        PROVE  /\ pass[p].from <= intent[i].created
               /\ i \in HeldBack(p)' \/ NotBefore(p, i)'
    <3>1. pass[p].from <= intent[i].created
      BY <1>4, <2>1 DEF Knows
    <3>2. i \in Window(pass[p].from)
      BY <1>4, <3>1, OpenAre, WindowIs
    <3>3. CASE i \in In("pending")
      BY <2>1, <3>1, <3>2, <3>3 DEF HeldBack
    <3>4. CASE i \in In("succeeded")
      <4>1. i \in pass[p].errored \/ NotBefore(p, i)
        BY <1>4, <2>1, <3>4 DEF Knows
      <4> QED
        BY <1>1, <2>1, <3>1, <4>1 DEF HeldBack, NotBefore
    <3> QED
      BY <3>1, <3>3, <3>4, OpenAre
  <2>3. Knows(p)'
    BY <1>1, <1>3, <2>1, <2>2 DEF Knows
  <2> QED
    BY <1>1, <1>2, <1>3, <1>4, <2>1, <2>3
<1>10. ~PendingSearchFails(p)
  BY DEF Smooth, PendingSearchFails
<1>11. CASE Finish(p)
  <2>1. pass[p].at = "scanned" /\ pass'[p].at = "idle" /\ cursor' = NextCursor(p)
    BY <1>11, IdleIsPass DEF Finish, TypeOK
  <2>2. ASSUME NEW i \in Open
        PROVE  cursor' <= intent[i].created
    <3>1. pass[p].from <= intent[i].created /\ (i \in HeldBack(p) \/ NotBefore(p, i))
      BY <1>4, <2>1 DEF Knows
    <3>2. intent[i].created \in Nat /\ NextCursor(p) \in Nat
      BY OpenAre, PassTypes, CursorBounds
    <3>3. CASE i \in HeldBack(p)
      BY <2>1, <3>2, <3>3, CursorBounds
    <3>4. CASE NotBefore(p, i)
      BY <2>1, <3>1, <3>2, <3>4, CursorBounds DEF NotBefore
    <3> QED
      BY <3>1, <3>3, <3>4
  <2>3. Knows(p)'
    BY <2>1 DEF Knows
  <2> QED
    BY <1>1, <1>2, <1>3, <2>2, <2>3
<1>12. ASSUME NEW failed, Record(p, failed)
       PROVE  (\A q \in Passes : Knows(q)') /\ \A i \in Open' : cursor' <= intent[i].created
  BY <1>2, <1>3, <1>4, <1>8, <1>12
<1> QED
  BY <1>1, <1>5, <1>6, <1>7, <1>9, <1>10, <1>11, <1>12 DEF PassStep

LEMMA OthersKnow ==
  ASSUME TypeOK, Clocked, Smooth, SmoothInv, [Next]_vars, \A p \in Passes : ~PassStep(p)
  PROVE  SmoothInv'
<1>0. /\ In("unconfirmed") = {} /\ \A i \in Open : cursor <= intent[i].created
      /\ \A p \in Passes : Knows(p)
      /\ cursor \in Nat /\ now \in Nat /\ cursor <= now
      /\ \A p \in Passes : /\ pass[p].from \in Nat /\ pass[p].from <= now
                            /\ \A j \in pass[p].found : /\ j \in Intents /\ intent[j] # NoRow
                                                        /\ intent[j].created <= now
  BY PassTypes, IntentTypes DEF SmoothInv, TypeOK
<1>1. CASE Crash
  <2>1. UNCHANGED <<intent, cursor>> /\ booked \subseteq booked' /\ \A p \in Passes : pass'[p].at = "idle"
    BY <1>1, IdleIsPass DEF Crash
  <2>2. Open' \subseteq Open /\ In("unconfirmed")' = {}
    BY <1>0, <2>1 DEF Open, In
  <2> QED
    BY <1>0, <2>1, <2>2 DEF SmoothInv, Knows
<1>2. ASSUME NEW i \in Intents, NEW state \in States \ {"canceled"}, Create(i, state)
      PROVE  SmoothInv'
  <2>1. /\ intent[i] = NoRow /\ UNCHANGED <<booked, cursor, pass, now, mishaps>>
        /\ state # "unconfirmed"
        /\ intent'[i] = [created |-> now, state |-> state]
        /\ \A j \in Intents \ {i} : intent'[j] = intent[j]
    BY <1>2 DEF Create, TypeOK, Smooth
  <2>2. intent'[i].created = now /\ intent'[i].state = state
    BY <2>1
  <2>3. In("unconfirmed")' = {}
    BY <1>0, <2>1, <2>2 DEF In
  <2>4. \A j \in Open' : j = i \/ (j # i /\ j \in Open /\ intent'[j] = intent[j]
                                 /\ (j \in In("succeeded")' <=> j \in In("succeeded")))
    BY <2>1 DEF Open, In
  <2>5. ASSUME NEW p \in Passes
        PROVE  \A j \in pass[p].found : intent'[j] = intent[j] /\ intent'[j].created <= now
    BY <1>0, <2>1
  <2>6. ASSUME NEW p \in Passes, NEW j \in Open, j # i, NotBefore(p, j)
        PROVE  NotBefore(p, j)'
    <3>1. j \in Intents /\ intent'[j] = intent[j]
      BY <2>1, <2>6, OpenAre
    <3> QED
      BY <2>1, <2>5, <2>6, <3>1 DEF NotBefore
  <2>7. ASSUME NEW p \in Passes
        PROVE  Knows(p)'
    <3>1. pass[p].from <= intent'[i].created /\ NotBefore(p, i)'
      BY <1>0, <2>1, <2>2, <2>5 DEF NotBefore
    <3> QED
      BY <1>0, <2>1, <2>4, <2>6, <3>1 DEF Knows, HeldBack
  <2>8. \A j \in Open' : cursor' <= intent'[j].created
    BY <1>0, <2>1, <2>2, <2>4
  <2> QED
    BY <2>3, <2>7, <2>8 DEF SmoothInv
<1>3. ASSUME NEW i \in Intents, NEW state \in States, StripeMoves(i, state)
      PROVE  SmoothInv'
  <2>0. /\ UNCHANGED <<booked, cursor, pass, now, mishaps>> /\ intent[i] # NoRow
        /\ state \in Becomes(intent[i].state) /\ "unconfirmed" \notin mishaps
        /\ \A p \in Passes : pass[p].at \notin {"found", "recorded"}
        /\ intent[i].state \in States
    BY <1>3, IntentTypes DEF StripeMoves, Smooth
  <2>1. intent[i].state # "unconfirmed"
    BY <1>0, <2>0 DEF In
  <2>2. intent[i].state = "pending" /\ state \in {"succeeded", "canceled"}
    BY <2>0, <2>1 DEF Becomes, States
  <2>3. /\ intent' \in [Intents -> Intent \cup {NoRow}]
        /\ intent'[i] = [intent[i] EXCEPT !.state = state]
        /\ \A j \in Intents \ {i} : intent'[j] = intent[j]
    BY <1>3, TypesKept DEF StripeMoves, TypeOK
  <2>4. intent[i] \in Intent
    BY <2>0, IntentTypes
  <2>5. intent'[i].state = state /\ intent'[i].created = intent[i].created
    BY <2>3, <2>4 DEF Intent
  <2>6. In("unconfirmed")' = {}
    <3>1. ASSUME NEW j \in Intents, intent'[j] # NoRow, intent'[j].state = "unconfirmed"
          PROVE  FALSE
      <4>1. j # i
        BY <2>2, <2>5, <3>1
      <4>2. j \in In("unconfirmed")
        BY <2>3, <3>1, <4>1 DEF In
      <4> QED
        BY <1>0, <4>2
    <3> QED
      BY <3>1 DEF In
  <2>7. \A j \in Intents : intent'[j].created = intent[j].created
    BY <2>3, <2>5
  <2>8. Open' \subseteq Open
    BY <2>0, <2>2, <2>3, <2>5 DEF Open, In
  <2>9. ASSUME NEW p \in Passes, NEW j \in Open', NotBefore(p, j)
        PROVE  NotBefore(p, j)'
    <3>1. j \in Intents
      BY DEF Open, In
    <3> QED
      BY <1>0, <2>0, <2>7, <2>9, <3>1 DEF NotBefore
  <2>10. \A j \in Open' : j \in Intents
    BY DEF Open, In
  <2>11. ASSUME NEW p \in Passes
         PROVE  Knows(p)'
    <3>1. pass'[p] = pass[p] /\ pass[p].at \notin {"found", "recorded"}
      BY <2>0
    <3>2. HeldBack(p)' = HeldBack(p) /\ Knows(p)
      BY <1>0, <3>1 DEF HeldBack
    <3>3. ASSUME NEW j \in Open'
          PROVE  /\ pass[p].at # "idle" => pass[p].from <= intent'[j].created
                 /\ pass[p].at = "scanned" => j \in HeldBack(p)' \/ NotBefore(p, j)'
      <4>1. j \in Open /\ intent'[j].created = intent[j].created
        BY <2>7, <2>8, <2>10
      <4> QED
        BY <2>9, <3>2, <4>1 DEF Knows
    <3> QED
      BY <3>1, <3>3 DEF Knows
  <2>12. \A j \in Open' : cursor' <= intent'[j].created
    BY <1>0, <2>0, <2>7, <2>8, <2>10
  <2> QED
    BY <2>6, <2>11, <2>12 DEF SmoothInv
<1>4. ASSUME UNCHANGED <<intent, cursor, pass>>, booked \subseteq booked'
      PROVE  SmoothInv'
  <2>1. Open' \subseteq Open /\ In("unconfirmed")' = {}
    BY <1>0, <1>4 DEF Open, In
  <2>2. \A p \in Passes : Knows(p)'
    BY <1>0, <1>4, KnowsKept
  <2> QED
    BY <1>0, <1>4, <2>1, <2>2 DEF SmoothInv
<1>5. ASSUME NEW i \in Intents, Push(i)
      PROVE  SmoothInv'
  BY <1>4, <1>5 DEF Push
<1>6. CASE Tick
  BY <1>4, <1>6 DEF Tick
<1>7. CASE UNCHANGED vars
  BY <1>4, <1>7 DEF vars
<1> QED
  BY <1>1, <1>2, <1>3, <1>5, <1>6, <1>7 DEF Next

-----------------------------------------------------------------------------
(* The theorems *)

LEMMA InitGood == Init => ReconcileInv
<1> SUFFICES ASSUME Init
             PROVE  ReconcileInv
  OBVIOUS
<1>1. 1 \in 1 .. LastSecond /\ 0 \in 0 .. now
  BY SomeTime DEF Init
<1>2. TypeOK
  BY <1>1, IdleIsPass DEF Init, TypeOK
<1>3. Clocked
  BY IdleIsPass DEF Init, Clocked, Seen
<1>4. BookedOrErrored
  BY IdleIsPass DEF Init, BookedOrErrored
<1>5. In("unconfirmed") = {} /\ Open = {}
  BY DEF Init, In, Open
<1>6. SmoothInv
  BY <1>5 DEF SmoothInv, Knows
<1> QED
  BY <1>2, <1>3, <1>4, <1>6 DEF ReconcileInv

LEMMA NextKeeps ==
  ASSUME ReconcileInv, [Next]_vars
  PROVE  ReconcileInv'
<1> USE DEF ReconcileInv
<1>1. TypeOK' /\ Clocked' /\ BookedOrErrored'
  BY TypesKept, BookedOrErroredKept
<1>2. mishaps' = mishaps
  BY DEF Next, vars, PassStep, Start, FindSucceeded, SearchFails, Record, FindPending,
         PendingSearchFails, Finish, Crash, Create, StripeMoves, Push, Tick
<1>3. Smooth' <=> Smooth
  BY <1>2 DEF Smooth
<1>4. ASSUME Smooth, NEW p \in Passes, PassStep(p)
      PROVE  SmoothInv'
  <2>1. In("unconfirmed")' = {}
    BY <1>4, PassStepKnows DEF SmoothInv, In
  <2>2. \A i \in Open' : cursor' <= intent'[i].created
    BY <1>4, PassStepKnows
  <2> QED
    BY <1>4, <2>1, <2>2, PassStepKnows DEF SmoothInv
<1>5. ASSUME Smooth, \A p \in Passes : ~PassStep(p)
      PROVE  SmoothInv'
  BY <1>5, OthersKnow
<1>6. ~Smooth => SmoothInv'
  BY <1>3 DEF SmoothInv
<1> QED
  BY <1>1, <1>4, <1>5, <1>6

\* The intents, the ledger's set of them, the cursor, every pass and the time
\* have their types in every run of reconciliation; above all the cursor that
\* a pass computes and stores is never in the future and never negative.
THEOREM TypeCorrect == Spec => []TypeOK
<1>1. Init => ReconcileInv
  BY InitGood
<1>2. ReconcileInv /\ [Next]_vars => ReconcileInv'
  BY NextKeeps
<1>3. ReconcileInv => TypeOK
  BY DEF ReconcileInv
<1> QED
  BY <1>1, <1>2, <1>3, PTL DEF Spec

\* The inductive invariant holds in every run.
LEMMA InvHolds == Spec => []ReconcileInv
<1>1. Init => ReconcileInv
  BY InitGood
<1>2. ReconcileInv /\ [Next]_vars => ReconcileInv'
  BY NextKeeps
<1> QED
  BY <1>1, <1>2, PTL DEF Spec

\* Under smooth running the cursor never passes an intent that took or may yet
\* take a family's money and is not in the ledger, with any number of passes
\* that overlap, whatever is pushed or created meanwhile, and although records
\* and searches fail and the process dies (reconcile in payments/reconcile.ts).
THEOREM NothingIsPassedOverHolds == Spec => []NothingIsPassedOver
<1>1. ReconcileInv => NothingIsPassedOver
  <2> SUFFICES ASSUME ReconcileInv, Smooth,
                      NEW i \in (In("succeeded") \cup In("pending")) \cap Attributable, i \notin booked
               PROVE  i \in Window(cursor)
    BY DEF NothingIsPassedOver
  <2>1. TypeOK /\ Clocked /\ i \in Open /\ cursor \in Nat
    BY DEF Open, ReconcileInv, TypeOK
  <2>2. cursor <= intent[i].created /\ i \in Intents /\ intent[i] # NoRow
    BY <2>1, OpenAre DEF ReconcileInv, SmoothInv
  <2> QED
    BY <2>1, <2>2, WindowIs
<1> QED
  BY <1>1, InvHolds, PTL

\* The cursor a pass stores never passes an intent that pass has seen succeed
\* and left unrecorded, whatever goes wrong around it: what it found is in the
\* ledger by then or is looked at again (the loop and the cursor of reconcile).
THEOREM FoundIsBookedOrHeldHolds == Spec => FoundIsBookedOrHeld
<1> DEFINE Held == \A p \in Passes :
             pass[p].at = "scanned" /\ pass'[p].at = "idle" /\ cursor' # cursor =>
               \A i \in pass[p].found \cap Attributable : i \in booked \/ i \in Window(cursor')
<1>1. ASSUME ReconcileInv, [Next]_vars
      PROVE  Held
  <2> SUFFICES ASSUME NEW p \in Passes, pass[p].at = "scanned", pass'[p].at = "idle", cursor' # cursor,
                      NEW i \in pass[p].found \cap Attributable, i \notin booked
               PROVE  i \in Window(cursor')
    OBVIOUS
  <2>1. PICK q \in Passes : Finish(q)
    BY <1>1 DEF Next, vars, PassStep, Start, FindSucceeded, SearchFails, Record, FindPending,
         PendingSearchFails, Crash, Create, StripeMoves, Push, Tick
  <2>2. q = p
    BY <1>1, <2>1 DEF Finish, ReconcileInv, TypeOK
  <2>3. cursor' = NextCursor(p)
    BY <2>1, <2>2 DEF Finish
  <2>4. TypeOK /\ Clocked /\ i \in pass[p].errored
    BY <1>1 DEF ReconcileInv, BookedOrErrored
  <2>5. i \in HeldBack(p) /\ i \in Intents /\ intent[i] # NoRow
    BY <2>4, PassTypes DEF HeldBack
  <2>6. NextCursor(p) \in Nat /\ NextCursor(p) <= intent[i].created
    BY <2>4, <2>5, CursorBounds, PassTypes, IntentTypes
  <2> QED
    BY <2>3, <2>4, <2>5, <2>6, WindowIs
<1>2. ReconcileInv /\ [Next]_vars => [Held]_vars
  BY <1>1
<1> QED
  BY <1>2, InvHolds, PTL DEF Spec, FoundIsBookedOrHeld
=============================================================================
