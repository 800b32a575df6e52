---------------------------- MODULE CardsProofs ----------------------------
(***************************************************************************)
(* What holds of customers, saved cards and the switch of the account, for *)
(* any families, accounts and cards and any number of handlers that wait   *)
(* for Stripe at the same time.                                            *)
(***************************************************************************)
EXTENDS Cards, FiniteSetTheorems, TLAPS

-----------------------------------------------------------------------------
(* The inductive invariant *)

\* What a handler that waits for Stripe has read is enough for what it will do.
CallKnows(x) ==
  LET r == call[x] IN
  /\ r.does \in {"load", "switch"} => r.account \in Accounts
  /\ r.does \in {"mint", "setup", "save"} => r.family \in Families /\ r.account \in Accounts
  /\ r.does \in {"setup", "save"} =>
       r.customer \in Customers /\ made[r.customer] # NoRow /\ made[r.customer].family = r.family
  /\ r.does = "save" => r.card \in Cards
  /\ r.does = "detach" =>
       /\ r.card \in Cards /\ holder[r.card] # NoRow
       /\ holder[r.card] \in Customers => made[holder[r.card]].family = r.family

\* What the rows and Stripe name has been made, and for the family that names it.
RowsMatchStripe ==
  /\ \A f \in Families : customer[f] # NoRow =>
       made[customer[f]] # NoRow /\ made[customer[f]].family = f
  /\ \A u \in setups : made[u] # NoRow
  /\ \A c \in Cards : holder[c] \in Customers => made[holder[c]] # NoRow
  /\ \A c \in Cards : saved[c] # NoRow =>
       /\ holder[c] # NoRow
       /\ holder[c] \in Customers => made[holder[c]].family = saved[c].family

\* Two default cards of one family are the same card.
DefaultsAreOne ==
  \A c, d \in Cards : saved[c] # NoRow /\ saved[d] # NoRow /\ saved[c].family = saved[d].family
                      /\ saved[c].default /\ saved[d].default => c = d

BooksInv == TypeOK /\ RowsMatchStripe /\ DefaultsAreOne /\ \A x \in Calls : CallKnows(x)

\* The rows fit the account whose keys are loaded.
RowsFit ==
  /\ \A f \in Families : customer[f] # NoRow => made[customer[f]].account = client
  /\ \A c \in Cards : saved[c] # NoRow => holder[c] = customer[saved[c].family]

\* As long as the handlers keep apart, a load is alone and no two handlers
\* that wait are of one family.
Alone(x) ==
  \A y \in Calls \ {x} : Underway(x) /\ Underway(y) =>
    ~Loading(x) /\ ~Loading(y) /\ call[x].family # call[y].family

\* So what a handler has read is still true when it goes on.
StillTrue(x) ==
  LET r == call[x] IN
  /\ Loading(x) => r.account = chosen /\ (r.does = "switch" => r.prev = client)
  /\ Underway(x) /\ ~Loading(x) => r.family \in Families /\ r.account = client
  /\ r.does = "mint" => customer[r.family] = NoRow
  /\ r.does \in {"setup", "save"} => customer[r.family] = r.customer
  /\ r.does = "detach" => saved[r.card] = NoRow

\* Before the first load has succeeded nothing is stored.
NothingStored ==
  (\A f \in Families : customer[f] = NoRow) /\ (\A c \in Cards : saved[c] = NoRow)

SmoothInv ==
  smooth =>
    /\ RowsFit
    /\ \A x \in Calls : Alone(x) /\ StillTrue(x)
    /\ (\A x \in Calls : ~Loading(x)) => client = chosen
    /\ client = NoRow => NothingStored
    /\ \A x \in Calls : call[x].does = "load" => NothingStored

CardsInv == BooksInv /\ SmoothInv

-----------------------------------------------------------------------------
(* Handlers *)

LEMMA IdleIsACall == /\ Idle \in Call
                     /\ Idle.does = "nothing" /\ Idle.family = NoRow /\ Idle.account = NoRow
                     /\ Idle.customer = NoRow /\ Idle.card = NoRow /\ Idle.prev = NoRow
BY DEF Idle, Call, Row

LEMMA IdleKnows ==
  ASSUME NEW x \in Calls, call[x].does = "nothing"
  PROVE  CallKnows(x)
BY DEF CallKnows

\* A handler gets another record, and the others keep theirs.
LEMMA BecomesIs ==
  ASSUME TypeOK, NEW x \in Calls, NEW r \in Call, Becomes(x, r)
  PROVE  /\ call' \in [Calls -> Call] /\ call'[x] = r
         /\ \A y \in Calls \ {x} : call'[y] = call[y]
BY DEF Becomes, TypeOK

LEMMA EndsIs ==
  ASSUME TypeOK, NEW x \in Calls, Ends(x)
  PROVE  /\ call' \in [Calls -> Call] /\ call'[x] = Idle
         /\ \A y \in Calls \ {x} : call'[y] = call[y]
BY IdleIsACall, BecomesIs DEF Ends

\* A handler begins with what it has read, and with the client there is.
LEMMA BeginsIs ==
  ASSUME TypeOK, NEW x \in Calls, NEW r \in Call, Begins(x, r)
  PROVE  /\ call' \in [Calls -> Call]
         /\ call'[x].does = r.does /\ call'[x].family = r.family /\ call'[x].customer = r.customer
         /\ call'[x].card = r.card /\ call'[x].prev = r.prev
         /\ call'[x].account = (IF r.account = NoRow THEN client ELSE r.account)
         /\ \A y \in Calls \ {x} : call'[y] = call[y]
         /\ ~Underway(x) /\ smooth' \in BOOLEAN /\ (smooth' <=> smooth /\ Apart(x, r.family))
<1> DEFINE b == [r EXCEPT !.account = IF r.account = NoRow THEN client ELSE r.account]
<1>1. client \in Row(Accounts) /\ r.account \in Row(Accounts)
  BY DEF TypeOK, Call
<1>2. /\ b \in Call /\ b.does = r.does /\ b.family = r.family /\ b.customer = r.customer
      /\ b.card = r.card /\ b.prev = r.prev
      /\ b.account = (IF r.account = NoRow THEN client ELSE r.account)
  BY <1>1 DEF Call
<1>3. Becomes(x, b) /\ ~Underway(x)
  BY DEF Begins
<1>4. /\ call' \in [Calls -> Call] /\ call'[x] = b
      /\ \A y \in Calls \ {x} : call'[y] = call[y]
  <2> HIDE DEF b
  <2> QED BY <1>2, <1>3, BecomesIs
<1>5. smooth' = (smooth /\ Apart(x, r.family))
  BY DEF Begins
<1> HIDE DEF b
<1> QED
  BY <1>2, <1>3, <1>4, <1>5

LEMMA RestartsIs ==
  ASSUME TypeOK, Restarts
  PROVE  /\ call' \in [Calls -> Call] /\ client' = NoRow /\ smooth' = FALSE
         /\ UNCHANGED <<chosen, stripe>>
         /\ \A y \in Calls : call'[y].does = "nothing" \/ (call'[y].does = "load" /\ call'[y].account = chosen)
<1>1. PICK x \in Calls : call' = [y \in Calls |->
        IF y = x THEN [Idle EXCEPT !.does = "load", !.account = chosen] ELSE Idle]
  BY DEF Restarts
<1> DEFINE l == [Idle EXCEPT !.does = "load", !.account = chosen]
<1>2. l \in Call /\ l.does = "load" /\ l.account = chosen
  BY IdleIsACall DEF TypeOK, Call, Row, Idle
<1>3. call' \in [Calls -> Call] /\ \A y \in Calls : call'[y] = Idle \/ call'[y] = l
  BY <1>1, <1>2, IdleIsACall
<1> HIDE DEF l
<1> QED
  BY <1>2, <1>3, IdleIsACall DEF Restarts

\* What a handler knows stays true: Stripe keeps the customers it has made, and
\* a card that was attached is attached or detached.
LEMMA CallKnowsKept ==
  ASSUME BooksInv, NEW x \in Calls, call'[x] = call[x],
         \A u \in Customers : made[u] # NoRow => made'[u] = made[u],
         \A c \in Cards : holder[c] # NoRow => holder'[c] \in {holder[c], Gone}
  PROVE  CallKnows(x)'
<1>1. CallKnows(x) /\ RowsMatchStripe
  BY DEF BooksInv
<1>2. Gone \notin Customers /\ Gone # NoRow
  BY GoneIsNoId
<1>3. ASSUME call[x].does = "detach"
      PROVE  /\ holder'[call[x].card] # NoRow
             /\ holder'[call[x].card] \in Customers => made'[holder'[call[x].card]].family = call[x].family
  <2>1. call[x].card \in Cards /\ holder[call[x].card] # NoRow
    BY <1>1, <1>3 DEF CallKnows
  <2>2. holder'[call[x].card] \in Customers =>
          holder'[call[x].card] = holder[call[x].card] /\ made[holder[call[x].card]] # NoRow
    BY <1>1, <1>2, <2>1 DEF RowsMatchStripe
  <2>3. holder'[call[x].card] # NoRow
    BY <1>2, <2>1
  <2> QED
    BY <1>1, <1>3, <2>2, <2>3 DEF CallKnows
<1> QED
  BY <1>1, <1>3 DEF CallKnows

\* Rows go on matching when Stripe only adds to what it has, and every row is as
\* it was, or gone, or one that matches.
LEMMA RowsMatchKept ==
  ASSUME BooksInv,
         \A u \in Customers : made[u] # NoRow => made'[u] = made[u],
         \A c \in Cards : \/ holder'[c] = holder[c]
                          \/ holder[c] # NoRow /\ holder'[c] = Gone
                          \/ holder[c] = NoRow /\ holder'[c] \in setups,
         \A u \in setups' : u \in setups \/ made'[u] # NoRow,
         \A f \in Families : \/ customer'[f] \in {customer[f], NoRow}
                             \/ made'[customer'[f]] # NoRow /\ made'[customer'[f]].family = f,
         \A c \in Cards : \/ saved'[c] \in {saved[c], NoRow}
                          \/ /\ holder'[c] \in Customers
                             /\ made'[holder'[c]].family = saved'[c].family
  PROVE  RowsMatchStripe'
<1>1. RowsMatchStripe /\ setups \subseteq Customers /\ customer \in [Families -> Row(Customers)]
  BY DEF BooksInv, TypeOK
<1>2. Gone \notin Customers /\ Gone # NoRow /\ NoRow \notin Customers
  BY GoneIsNoId, NoRowIsNoId
<1>3. \A f \in Families : customer'[f] # NoRow =>
        made'[customer'[f]] # NoRow /\ made'[customer'[f]].family = f
  BY <1>1 DEF RowsMatchStripe, Row
<1>4. \A u \in setups' : made'[u] # NoRow
  BY <1>1 DEF RowsMatchStripe
<1>5. \A c \in Cards : holder'[c] \in Customers => made'[holder'[c]] # NoRow
  BY <1>1, <1>2 DEF RowsMatchStripe
<1>6. ASSUME NEW c \in Cards, saved'[c] # NoRow
      PROVE  /\ holder'[c] # NoRow
             /\ holder'[c] \in Customers => made'[holder'[c]].family = saved'[c].family
  <2>1. CASE saved'[c] = saved[c]
    <3>1. /\ holder[c] # NoRow /\ holder'[c] \in {holder[c], Gone}
          /\ holder[c] \in Customers => made[holder[c]] # NoRow /\ made[holder[c]].family = saved[c].family
      BY <1>1, <1>6, <2>1 DEF RowsMatchStripe
    <3> QED
      BY <1>2, <2>1, <3>1
  <2>2. CASE saved'[c] # saved[c]
    BY <1>2, <1>6, <2>2
  <2> QED
    BY <2>1, <2>2
<1> QED
  BY <1>3, <1>4, <1>5, <1>6 DEF RowsMatchStripe

LEMMA DefaultsKept ==
  ASSUME DefaultsAreOne, \A c \in Cards : saved'[c] \in {saved[c], NoRow}
  PROVE  DefaultsAreOne'
BY DEF DefaultsAreOne

-----------------------------------------------------------------------------
(* What a step does to the books *)

\* Nothing is stored and Stripe is not heard of.
LEMMA NothingStoredStep ==
  ASSUME BooksInv, UNCHANGED <<rows, stripe>>
  PROVE  /\ RowsMatchStripe' /\ DefaultsAreOne'
         /\ \A y \in Calls : call'[y] = call[y] => CallKnows(y)'
<1>1. UNCHANGED <<customer, saved, enrollment, made, holder, setups>>
  BY DEF rows, stripe
<1>2. RowsMatchStripe'
  BY <1>1, RowsMatchKept
<1>3. DefaultsAreOne'
  BY <1>1, DefaultsKept DEF BooksInv
<1>4. ASSUME NEW y \in Calls, call'[y] = call[y]
      PROVE  CallKnows(y)'
  BY <1>1, <1>4, CallKnowsKept
<1> QED
  BY <1>2, <1>3, <1>4

\* The keys begin to be loaded.
LEMMA BeginLoadBooks ==
  ASSUME BooksInv, NEW x \in Calls, Load(x) \/ \E a \in Accounts : Switch(x, a)
  PROVE  BooksInv'
<1> USE DEF BooksInv
<1>1. PICK a \in Accounts, r \in Call :
        /\ chosen' \in Accounts /\ Begins(x, r)
        /\ r.does \in {"load", "switch"} /\ r.account = a
        /\ UNCHANGED <<client, rows, stripe>>
  <2>1. CASE Load(x)
    <3> DEFINE r == [Idle EXCEPT !.does = "load", !.account = chosen]
    <3>1. r \in Call /\ r.does = "load" /\ r.account = chosen
      BY IdleIsACall DEF TypeOK, Call, Row, Idle
    <3>2. Begins(x, r) /\ chosen' = chosen /\ UNCHANGED <<client, rows, stripe>> /\ chosen \in Accounts
      BY <2>1 DEF Load, TypeOK
    <3> HIDE DEF r
    <3> QED
      BY <3>1, <3>2
  <2>2. ASSUME NEW a \in Accounts, Switch(x, a)
        PROVE  \E b \in Accounts, r \in Call :
                 /\ chosen' \in Accounts /\ Begins(x, r)
                 /\ r.does \in {"load", "switch"} /\ r.account = b
                 /\ UNCHANGED <<client, rows, stripe>>
    <3> DEFINE r == [Idle EXCEPT !.does = "switch", !.account = a, !.prev = client]
    <3>1. r \in Call /\ r.does = "switch" /\ r.account = a
      BY IdleIsACall DEF TypeOK, Call, Row, Idle
    <3>2. Begins(x, r) /\ chosen' = a /\ UNCHANGED <<client, rows, stripe>>
      BY <2>2 DEF Switch
    <3> HIDE DEF r
    <3> QED
      BY <3>1, <3>2
  <2> QED
    BY <2>1, <2>2
<1>2. a # NoRow
  BY NoRowIsNoId
<1>3. /\ call' \in [Calls -> Call] /\ smooth' \in BOOLEAN
      /\ call'[x].does \in {"load", "switch"} /\ call'[x].account \in Accounts
      /\ \A y \in Calls \ {x} : call'[y] = call[y]
  BY <1>1, <1>2, BeginsIs
<1>4. TypeOK'
  BY <1>1, <1>3 DEF TypeOK, rows, stripe
<1>5. CallKnows(x)'
  BY <1>3 DEF CallKnows
<1> QED
  BY <1>1, <1>3, <1>4, <1>5, NothingStoredStep

LEMMA AskBooks ==
  ASSUME BooksInv, NEW x \in Calls, NEW f \in Families, Ask(x, f)
  PROVE  BooksInv'
<1> USE DEF BooksInv
<1> DEFINE r == [Idle EXCEPT !.family = f, !.customer = customer[f],
                             !.does = IF customer[f] = NoRow THEN "mint" ELSE "setup"]
<1>1. /\ r \in Call /\ r.family = f /\ r.customer = customer[f] /\ r.account = NoRow
      /\ r.does = IF customer[f] = NoRow THEN "mint" ELSE "setup"
  BY IdleIsACall DEF TypeOK, Call, Row, Idle
<1>2. Begins(x, r) /\ client # NoRow /\ UNCHANGED <<chosen, client, rows, stripe>>
  BY DEF Ask
<1> HIDE DEF r
<1>3. client \in Accounts /\ customer[f] \in Row(Customers)
  BY <1>2 DEF TypeOK, Row
<1>4. /\ call' \in [Calls -> Call] /\ smooth' \in BOOLEAN
      /\ call'[x].does = (IF customer[f] = NoRow THEN "mint" ELSE "setup")
      /\ call'[x].family = f /\ call'[x].customer = customer[f] /\ call'[x].account \in Accounts
      /\ \A y \in Calls \ {x} : call'[y] = call[y]
  BY <1>1, <1>2, <1>3, BeginsIs
<1>5. TypeOK'
  BY <1>2, <1>4 DEF TypeOK, rows, stripe
<1>6. CallKnows(x)'
  <2>1. CASE customer[f] = NoRow
    BY <1>4, <2>1 DEF CallKnows
  <2>2. CASE customer[f] # NoRow
    <3>1. customer[f] \in Customers /\ made[customer[f]] # NoRow /\ made[customer[f]].family = f
      BY <1>3, <2>2 DEF RowsMatchStripe, Row
    <3> QED
      BY <1>2, <1>4, <2>2, <3>1 DEF CallKnows, stripe
  <2> QED
    BY <2>1, <2>2
<1> QED
  BY <1>2, <1>4, <1>5, <1>6, NothingStoredStep

LEMMA SaveBooks ==
  ASSUME BooksInv, NEW x \in Calls, NEW f \in Families, NEW c \in Cards, Save(x, f, c)
  PROVE  BooksInv'
<1> USE DEF BooksInv
<1> DEFINE r == [Idle EXCEPT !.does = "save", !.family = f, !.card = c, !.customer = customer[f]]
<1>1. /\ r \in Call /\ r.family = f /\ r.customer = customer[f] /\ r.account = NoRow
      /\ r.does = "save" /\ r.card = c
  BY IdleIsACall DEF TypeOK, Call, Row, Idle
<1>2. /\ Begins(x, r) /\ client # NoRow /\ customer[f] # NoRow
      /\ UNCHANGED <<chosen, client, rows, stripe>>
  BY DEF Save
<1> HIDE DEF r
<1>3. client \in Accounts /\ customer[f] \in Customers
  BY <1>2 DEF TypeOK, Row
<1>4. /\ call' \in [Calls -> Call] /\ smooth' \in BOOLEAN
      /\ call'[x].does = "save" /\ call'[x].card = c
      /\ call'[x].family = f /\ call'[x].customer = customer[f] /\ call'[x].account \in Accounts
      /\ \A y \in Calls \ {x} : call'[y] = call[y]
  BY <1>1, <1>2, <1>3, BeginsIs
<1>5. TypeOK'
  BY <1>2, <1>4 DEF TypeOK, rows, stripe
<1>6. CallKnows(x)'
  <2>1. made[customer[f]] # NoRow /\ made[customer[f]].family = f
    BY <1>2 DEF RowsMatchStripe
  <2> QED
    BY <1>2, <1>3, <1>4, <2>1 DEF CallKnows, stripe
<1> QED
  BY <1>2, <1>4, <1>5, <1>6, NothingStoredStep

\* The steps that clear rows of an account, or none of them.
LEMMA ResetIs ==
  ASSUME TypeOK, NEW n \in 1 .. 3, Reset(n)
  PROVE  /\ enrollment' \in [Families -> [enabled : BOOLEAN, card : Row(Cards)]]
         /\ saved' \in [Cards -> Row([family : Families, default : BOOLEAN])]
         /\ customer' \in [Families -> Row(Customers)]
         /\ \A f \in Families : ~enrollment'[f].enabled /\ enrollment'[f].card = NoRow
         /\ \A c \in Cards : saved'[c] \in {saved[c], NoRow}
         /\ \A f \in Families : customer'[f] \in {customer[f], NoRow}
         /\ n = 3 => \A c \in Cards : saved'[c] = NoRow
         /\ n = 3 => \A f \in Families : customer'[f] = NoRow
<1>1. [enabled |-> FALSE, card |-> NoRow] \in [enabled : BOOLEAN, card : Row(Cards)]
  BY DEF Row
<1>2. enrollment' = [f \in Families |-> [enabled |-> FALSE, card |-> NoRow]]
  BY DEF Reset
<1>3. saved' = [c \in Cards |-> NoRow] \/ saved' = saved
  BY DEF Reset
<1>4. customer' = [f \in Families |-> NoRow] \/ customer' = customer
  BY DEF Reset
<1>5. n = 3 => saved' = [c \in Cards |-> NoRow] /\ customer' = [f \in Families |-> NoRow]
  BY DEF Reset
<1>6. saved' \in [Cards -> Row([family : Families, default : BOOLEAN])]
  BY <1>3 DEF TypeOK, Row
<1>7. customer' \in [Families -> Row(Customers)]
  BY <1>4 DEF TypeOK, Row
<1> QED
  BY <1>1, <1>2, <1>3, <1>4, <1>5, <1>6, <1>7

LEMMA LoadEndsBooks ==
  ASSUME BooksInv, NEW x \in Calls, LoadSucceeds(x) \/ LoadFails(x)
  PROVE  BooksInv'
<1> USE DEF BooksInv
<1>1. /\ Loading(x) /\ Ends(x) /\ UNCHANGED <<chosen, stripe>>
      /\ client' \in {call[x].account, NoRow} /\ smooth' \in BOOLEAN
      /\ Reset(3) \/ UNCHANGED rows
  BY DEF LoadSucceeds, LoadFails, TypeOK
<1>2. client' \in Row(Accounts)
  BY <1>1 DEF Loading, CallKnows, Row
<1>3. /\ call' \in [Calls -> Call] /\ call'[x].does = "nothing"
      /\ \A y \in Calls \ {x} : call'[y] = call[y]
  BY <1>1, EndsIs, IdleIsACall
<1>4. /\ enrollment' \in [Families -> [enabled : BOOLEAN, card : Row(Cards)]]
      /\ saved' \in [Cards -> Row([family : Families, default : BOOLEAN])]
      /\ customer' \in [Families -> Row(Customers)]
      /\ \A c \in Cards : saved'[c] \in {saved[c], NoRow}
      /\ \A f \in Families : customer'[f] \in {customer[f], NoRow}
  <2>1. CASE Reset(3)
    <3>1. 3 \in 1 .. 3 /\ TypeOK
      OBVIOUS
    <3> QED
      BY <2>1, <3>1, ResetIs
  <2>2. CASE UNCHANGED rows
    <3>1. UNCHANGED <<customer, saved, enrollment>>
      BY <2>2 DEF rows
    <3> QED
      BY <3>1 DEF TypeOK
  <2> QED
    BY <1>1, <2>1, <2>2
<1>5. TypeOK'
  BY <1>1, <1>2, <1>3, <1>4 DEF TypeOK, stripe
<1>6. RowsMatchStripe'
  BY <1>1, <1>4, RowsMatchKept DEF stripe
<1>7. DefaultsAreOne'
  BY <1>4, DefaultsKept
<1>8. ASSUME NEW y \in Calls
      PROVE  CallKnows(y)'
  <2>1. CASE y = x
    BY <1>3, <2>1 DEF CallKnows
  <2>2. CASE y # x
    BY <1>1, <1>3, <2>2, CallKnowsKept DEF stripe
  <2> QED
    BY <2>1, <2>2
<1> QED
  BY <1>5, <1>6, <1>7, <1>8

\* The process dies, wherever it is.
LEMMA RestartBooks ==
  ASSUME BooksInv,
         Crash \/ (\E x \in Calls : SwitchCutShort(x)) \/ \E c \in Cards : RemoveCutShort(c)
  PROVE  BooksInv'
<1> USE DEF BooksInv
<1>1. Restarts
  BY DEF Crash, SwitchCutShort, RemoveCutShort
<1>2. /\ call' \in [Calls -> Call] /\ client' = NoRow /\ smooth' = FALSE
      /\ UNCHANGED <<chosen, stripe>>
      /\ \A y \in Calls : call'[y].does = "nothing" \/ (call'[y].does = "load" /\ call'[y].account = chosen)
  BY <1>1, RestartsIs
<1>3. /\ enrollment' \in [Families -> [enabled : BOOLEAN, card : Row(Cards)]]
      /\ saved' \in [Cards -> Row([family : Families, default : BOOLEAN])]
      /\ customer' \in [Families -> Row(Customers)]
      /\ \A c \in Cards : saved'[c] \in {saved[c], NoRow}
      /\ \A f \in Families : customer'[f] \in {customer[f], NoRow}
  <2>1. CASE Crash
    <3>1. UNCHANGED <<customer, saved, enrollment>>
      BY <2>1 DEF Crash, rows
    <3> QED
      BY <3>1 DEF TypeOK
  <2>2. ASSUME NEW n \in 1 .. 2, Reset(n)
        PROVE  <1>3!:
    <3>1. n \in 1 .. 3 /\ TypeOK
      OBVIOUS
    <3> QED
      BY <2>2, <3>1, ResetIs
  <2>3. ASSUME NEW c \in Cards, RemoveCutShort(c)
        PROVE  <1>3!:
    BY <2>3 DEF RemoveCutShort, TypeOK, Row
  <2> QED
    BY <2>1, <2>2, <2>3 DEF SwitchCutShort
<1>4. client' \in Row(Accounts) /\ chosen' \in Accounts
  BY <1>2 DEF Row, TypeOK
<1>5. TypeOK'
  BY <1>2, <1>3, <1>4 DEF TypeOK, stripe
<1>6. RowsMatchStripe'
  BY <1>2, <1>3, RowsMatchKept DEF stripe
<1>7. DefaultsAreOne'
  BY <1>3, DefaultsKept
<1>8. \A y \in Calls : CallKnows(y)'
  BY <1>2, <1>4 DEF CallKnows
<1> QED
  BY <1>5, <1>6, <1>7, <1>8

\* Stripe has made a customer, and the family has it.
LEMMA CustomerMadeBooks ==
  ASSUME BooksInv, NEW x \in Calls, NEW u \in Customers, CustomerMade(x, u)
  PROVE  BooksInv'
<1> USE DEF BooksInv
<1> DEFINE f == call[x].family
           row == [family |-> f, account |-> call[x].account]
           r == [call[x] EXCEPT !.customer = u, !.does = "setup"]
<1>1. /\ call[x].does = "mint" /\ made[u] = NoRow
      /\ made' = [made EXCEPT ![u] = row]
      /\ customer' = [customer EXCEPT ![f] = u]
      /\ Becomes(x, r)
      /\ UNCHANGED <<chosen, client, saved, enrollment, holder, setups, smooth>>
  BY DEF CustomerMade
<1>2. f \in Families /\ call[x].account \in Accounts /\ call[x] \in Call
  BY <1>1 DEF CallKnows, TypeOK
<1>3. row \in [family : Families, account : Accounts] /\ row.family = f
  BY <1>2
<1>4. /\ r \in Call /\ r.does = "setup" /\ r.customer = u /\ r.family = f
      /\ r.account = call[x].account
  BY <1>2 DEF Call, Row
<1> HIDE DEF row, r, f
<1>5. /\ made' \in [Customers -> Row([family : Families, account : Accounts])]
      /\ made'[u] = row /\ \A v \in Customers \ {u} : made'[v] = made[v]
  BY <1>1, <1>3 DEF TypeOK, Row
<1>6. made'[u] # NoRow
  BY <1>3, <1>5, NoRowIsNoRecord
<1>7. /\ customer' \in [Families -> Row(Customers)]
      /\ customer'[f] = u /\ \A g \in Families \ {f} : customer'[g] = customer[g]
  BY <1>1, <1>2 DEF TypeOK, Row
<1>8. /\ call' \in [Calls -> Call] /\ call'[x] = r
      /\ \A y \in Calls \ {x} : call'[y] = call[y]
  BY <1>1, <1>4, BecomesIs
<1>9. TypeOK'
  BY <1>1, <1>5, <1>7, <1>8 DEF TypeOK
<1>10. \A v \in Customers : made[v] # NoRow => made'[v] = made[v]
  BY <1>1, <1>5
<1>11. RowsMatchStripe'
  BY <1>1, <1>3, <1>5, <1>6, <1>7, <1>10, RowsMatchKept
<1>12. DefaultsAreOne'
  BY <1>1, DefaultsKept
<1>13. ASSUME NEW y \in Calls
       PROVE  CallKnows(y)'
  <2>1. CASE y = x
    BY <1>2, <1>3, <1>4, <1>5, <1>6, <1>8, <2>1 DEF CallKnows
  <2>2. CASE y # x
    BY <1>1, <1>8, <1>10, <2>2, CallKnowsKept
  <2> QED
    BY <2>1, <2>2
<1> QED
  BY <1>9, <1>11, <1>12, <1>13

\* A handler ends without having stored anything.
LEMMA EndsBooks ==
  ASSUME BooksInv, NEW x \in Calls, IntentMade(x) \/ GivesUp(x) \/ Detached(x)
  PROVE  BooksInv'
<1> USE DEF BooksInv
<1>1. /\ Ends(x) /\ UNCHANGED <<chosen, client, rows, made, smooth>>
      /\ setups' = setups \/ (call[x].does = "setup" /\ setups' = setups \cup {call[x].customer})
  BY DEF IntentMade, GivesUp, Detached, stripe
<1>2. /\ call' \in [Calls -> Call] /\ call'[x].does = "nothing"
      /\ \A y \in Calls \ {x} : call'[y] = call[y]
  BY <1>1, EndsIs, IdleIsACall
<1>3. /\ holder' \in [Cards -> Customers \cup {NoRow, Gone}]
      /\ \A c \in Cards : holder'[c] = holder[c] \/ (holder[c] # NoRow /\ holder'[c] = Gone)
  <2>1. CASE holder' = holder
    BY <2>1 DEF TypeOK
  <2>2. CASE Detached(x)
    <3>1. /\ call[x].card \in Cards /\ holder[call[x].card] # NoRow
          /\ holder' = [holder EXCEPT ![call[x].card] = Gone]
      BY <2>2 DEF Detached, CallKnows
    <3> QED
      BY <3>1 DEF TypeOK
  <2> QED
    BY <2>1, <2>2 DEF IntentMade, GivesUp, stripe
<1>4. setups' \subseteq Customers /\ \A u \in setups' : u \in setups \/ made[u] # NoRow
  BY <1>1 DEF CallKnows, TypeOK
<1>5. UNCHANGED <<customer, saved, enrollment, made>>
  BY <1>1 DEF rows
<1>6. TypeOK'
  BY <1>1, <1>2, <1>3, <1>4, <1>5 DEF TypeOK
<1>7. RowsMatchStripe'
  BY <1>3, <1>4, <1>5, RowsMatchKept
<1>8. DefaultsAreOne'
  BY <1>5, DefaultsKept
<1>9. ASSUME NEW y \in Calls
      PROVE  CallKnows(y)'
  <2>1. CASE y = x
    BY <1>2, <2>1 DEF CallKnows
  <2>2. CASE y # x
    BY <1>2, <1>3, <1>5, <2>2, CallKnowsKept
  <2> QED
    BY <2>1, <2>2
<1> QED
  BY <1>6, <1>7, <1>8, <1>9

\* The card is saved: it is the family's, and its default only if it has no other.
LEMMA CardFoundIs ==
  ASSUME BooksInv, NEW x \in Calls, CardFound(x)
  PROVE  /\ call[x].does = "save" /\ call[x].family \in Families /\ call[x].card \in Cards
         /\ holder[call[x].card] = call[x].customer /\ call[x].customer \in Customers
         /\ made[call[x].customer].family = call[x].family
         /\ saved' \in [Cards -> Row([family : Families, default : BOOLEAN])]
         /\ \A c \in Cards : \/ saved'[c] = saved[c]
                             \/ /\ c = call[x].card /\ saved[c] = NoRow
                                /\ saved'[c] = CardRow(call[x].family)
                                /\ saved'[c].family = call[x].family
                                /\ saved'[c].default <=> CardsOf(call[x].family) = {}
<1> DEFINE f == call[x].family
           c == call[x].card
<1>1. /\ call[x].does = "save" /\ Fits(x)
      /\ saved' = IF saved[c] # NoRow THEN saved ELSE [saved EXCEPT ![c] = CardRow(f)]
  BY DEF CardFound
<1>2. f \in Families /\ c \in Cards /\ call[x].customer \in Customers
      /\ made[call[x].customer].family = f
  BY <1>1 DEF BooksInv, CallKnows
<1>3. holder[c] = call[x].customer
  BY <1>1 DEF Fits
<1>4. /\ CardRow(f) \in [family : Families, default : BOOLEAN]
      /\ CardRow(f).family = f /\ CardRow(f).default = (CardsOf(f) = {})
  BY <1>2 DEF CardRow
<1>5. saved \in [Cards -> Row([family : Families, default : BOOLEAN])]
  BY DEF BooksInv, TypeOK
<1> HIDE DEF f, c
<1>6. CASE saved[c] # NoRow
  BY <1>1, <1>2, <1>3, <1>5, <1>6 DEF f, c
<1>7. CASE saved[c] = NoRow
  <2>1. saved' = [saved EXCEPT ![c] = CardRow(f)]
    BY <1>1, <1>7
  <2>2. /\ saved' \in [Cards -> Row([family : Families, default : BOOLEAN])]
        /\ saved'[c] = CardRow(f) /\ \A d \in Cards \ {c} : saved'[d] = saved[d]
    BY <1>2, <1>4, <1>5, <2>1 DEF Row
  <2> QED
    BY <1>1, <1>2, <1>3, <1>4, <1>7, <2>2 DEF f, c
<1> QED
  BY <1>6, <1>7

LEMMA CardFoundBooks ==
  ASSUME BooksInv, NEW x \in Calls, CardFound(x)
  PROVE  BooksInv'
<1> USE DEF BooksInv
<1>1. Ends(x) /\ UNCHANGED <<chosen, client, customer, enrollment, made, holder, setups, smooth>>
  BY DEF CardFound, stripe
<1>2. /\ call' \in [Calls -> Call] /\ call'[x].does = "nothing"
      /\ \A y \in Calls \ {x} : call'[y] = call[y]
  BY <1>1, EndsIs, IdleIsACall
<1>3. TypeOK'
  BY <1>1, <1>2, CardFoundIs DEF TypeOK
<1>4. \A c \in Cards : saved'[c] = saved[c] \/ (holder[c] \in Customers /\ made[holder[c]].family = saved'[c].family)
  BY CardFoundIs
<1>5. RowsMatchStripe'
  BY <1>1, <1>4, RowsMatchKept
<1>6. DefaultsAreOne'
  <2> SUFFICES ASSUME NEW c \in Cards, NEW d \in Cards, saved'[c] # NoRow, saved'[d] # NoRow,
                      saved'[c].family = saved'[d].family, saved'[c].default, saved'[d].default,
                      c # d
               PROVE  FALSE
    BY DEF DefaultsAreOne
  <2>1. CASE saved'[c] = saved[c] /\ saved'[d] = saved[d]
    BY <2>1 DEF DefaultsAreOne
  <2>2. CASE saved'[c] # saved[c]
    <3>1. CardsOf(saved'[c].family) = {} /\ saved'[d] = saved[d]
      BY <2>2, CardFoundIs
    <3> QED
      BY <3>1 DEF CardsOf
  <2>3. CASE saved'[d] # saved[d]
    <3>1. CardsOf(saved'[d].family) = {} /\ saved'[c] = saved[c]
      BY <2>3, CardFoundIs
    <3> QED
      BY <3>1 DEF CardsOf
  <2> QED
    BY <2>1, <2>2, <2>3
<1>7. ASSUME NEW y \in Calls
      PROVE  CallKnows(y)'
  <2>1. CASE y = x
    BY <1>2, <2>1 DEF CallKnows
  <2>2. CASE y # x
    BY <1>1, <1>2, <2>2, CallKnowsKept
  <2> QED
    BY <2>1, <2>2
<1> QED
  BY <1>3, <1>5, <1>6, <1>7

\* A card is removed: its row first, with the autopay that names it.
LEMMA RemoveIs ==
  ASSUME BooksInv, NEW x \in Calls, NEW c \in Cards, Remove(x, c)
  PROVE  /\ saved[c] # NoRow /\ saved[c].family \in Families /\ holder[c] # NoRow
         /\ saved' \in [Cards -> Row([family : Families, default : BOOLEAN])]
         /\ saved'[c] = NoRow /\ \A d \in Cards \ {c} : saved'[d] = saved[d]
         /\ enrollment' \in [Families -> [enabled : BOOLEAN, card : Row(Cards)]]
         /\ UNCHANGED <<chosen, client, customer, made, holder, setups>>
         /\ call' \in [Calls -> Call] /\ smooth' \in BOOLEAN /\ ~Underway(x)
         /\ \A y \in Calls \ {x} : call'[y] = call[y]
         /\ \/ client = NoRow /\ call'[x].does = "nothing" /\ (smooth' <=> smooth /\ Apart(x, NoRow))
            \/ /\ client # NoRow /\ call'[x].does = "detach" /\ call'[x].card = c
               /\ call'[x].family = saved[c].family /\ call'[x].account = client
               /\ (smooth' <=> smooth /\ Apart(x, saved[c].family))
<1>1. saved[c] # NoRow /\ saved[c] \in [family : Families, default : BOOLEAN] /\ holder[c] # NoRow
  BY DEF Remove, BooksInv, TypeOK, Row, RowsMatchStripe
<1>2. saved' = [saved EXCEPT ![c] = NoRow]
  BY DEF Remove
<1>3. /\ saved' \in [Cards -> Row([family : Families, default : BOOLEAN])]
      /\ saved'[c] = NoRow /\ \A d \in Cards \ {c} : saved'[d] = saved[d]
  BY <1>2 DEF BooksInv, TypeOK, Row
<1>4. enrollment' \in [Families -> [enabled : BOOLEAN, card : Row(Cards)]]
  <2>1. [enabled |-> FALSE, card |-> NoRow] \in [enabled : BOOLEAN, card : Row(Cards)]
    BY DEF Row
  <2>2. enrollment \in [Families -> [enabled : BOOLEAN, card : Row(Cards)]]
    BY DEF BooksInv, TypeOK
  <2>3. \/ enrollment' = enrollment
        \/ enrollment' = [enrollment EXCEPT ![saved[c].family] = [enabled |-> FALSE, card |-> NoRow]]
    BY DEF Remove
  <2> QED
    BY <2>1, <2>2, <2>3
<1>5. UNCHANGED <<chosen, client, customer, made, holder, setups>> /\ AsksToDetach(x, c)
  BY DEF Remove, stripe
<1>6. CASE client = NoRow
  <2>1. Begins(x, Idle)
    BY <1>5, <1>6 DEF AsksToDetach
  <2>2. /\ call' \in [Calls -> Call] /\ call'[x].does = "nothing"
        /\ \A y \in Calls \ {x} : call'[y] = call[y]
        /\ smooth' \in BOOLEAN /\ (smooth' <=> smooth /\ Apart(x, NoRow)) /\ ~Underway(x)
    BY <2>1, IdleIsACall, BeginsIs DEF BooksInv
  <2> QED
    BY <1>1, <1>3, <1>4, <1>5, <1>6, <2>2
<1>7. CASE client # NoRow
  <2> DEFINE r == [Idle EXCEPT !.does = "detach", !.family = saved[c].family, !.card = c]
  <2>1. /\ r \in Call /\ r.does = "detach" /\ r.family = saved[c].family /\ r.card = c
        /\ r.account = NoRow
    BY <1>1, IdleIsACall DEF Call, Row, Idle
  <2>2. Begins(x, r)
    BY <1>5, <1>7 DEF AsksToDetach
  <2> HIDE DEF r
  <2>3. /\ call' \in [Calls -> Call] /\ call'[x].does = "detach" /\ call'[x].card = c
        /\ call'[x].family = saved[c].family /\ call'[x].account = client
        /\ \A y \in Calls \ {x} : call'[y] = call[y]
        /\ smooth' \in BOOLEAN /\ (smooth' <=> smooth /\ Apart(x, saved[c].family)) /\ ~Underway(x)
    BY <2>1, <2>2, BeginsIs DEF BooksInv
  <2> QED
    BY <1>1, <1>3, <1>4, <1>5, <1>7, <2>3
<1> QED
  BY <1>6, <1>7

LEMMA RemoveBooks ==
  ASSUME BooksInv, NEW x \in Calls, NEW c \in Cards, Remove(x, c)
  PROVE  BooksInv'
<1> USE DEF BooksInv
<1>1. TypeOK'
  BY RemoveIs DEF TypeOK
<1>2. \A d \in Cards : saved'[d] \in {saved[d], NoRow}
  BY RemoveIs
<1>3. UNCHANGED <<customer, made, holder, setups>>
  BY RemoveIs
<1>4. RowsMatchStripe'
  BY <1>2, <1>3, RowsMatchKept
<1>5. DefaultsAreOne'
  BY <1>2, DefaultsKept
<1>6. ASSUME NEW y \in Calls
      PROVE  CallKnows(y)'
  <2>1. CASE y = x
    <3>1. CASE call'[x].does = "nothing"
      BY <2>1, <3>1 DEF CallKnows
    <3>2. CASE call'[x].does # "nothing"
      <4>1. /\ call'[x].does = "detach" /\ call'[x].card = c /\ call'[x].family = saved[c].family
            /\ holder[c] # NoRow /\ saved[c] # NoRow
        BY <3>2, RemoveIs
      <4>2. holder[c] \in Customers => made[holder[c]].family = saved[c].family
        BY <4>1 DEF RowsMatchStripe
      <4> QED
        BY <1>3, <2>1, <4>1, <4>2 DEF CallKnows
    <3> QED
      BY <3>1, <3>2
  <2>2. CASE y # x
    BY <1>3, <2>2, RemoveIs, CallKnowsKept
  <2> QED
    BY <2>1, <2>2
<1> QED
  BY <1>1, <1>4, <1>5, <1>6

\* A browser attaches a card; autopay is turned on or off.
LEMMA ParentBooks ==
  ASSUME BooksInv,
         \/ \E c \in Cards, u \in Customers : SetUp(c, u)
         \/ \E f \in Families, c \in Cards : TurnOn(f, c)
         \/ \E f \in Families : TurnOff(f)
  PROVE  BooksInv'
<1> USE DEF BooksInv
<1>1. UNCHANGED <<chosen, client, customer, saved, call, made, setups, smooth>>
  BY DEF SetUp, TurnOn, TurnOff, rows, stripe
<1>2. enrollment' \in [Families -> [enabled : BOOLEAN, card : Row(Cards)]]
  <2>1. ASSUME NEW f \in Families, NEW c \in Cards, TurnOn(f, c)
        PROVE  enrollment' \in [Families -> [enabled : BOOLEAN, card : Row(Cards)]]
    <3>1. PICK row : row = [enabled |-> TRUE, card |-> c]
      OBVIOUS
    <3>2. row \in [enabled : BOOLEAN, card : Row(Cards)]
      BY <3>1 DEF Row
    <3>3. enrollment' = [enrollment EXCEPT ![f] = row]
      BY <2>1, <3>1 DEF TurnOn
    <3> QED
      BY <3>2, <3>3 DEF TypeOK
  <2>2. ASSUME NEW f \in Families, TurnOff(f)
        PROVE  enrollment' \in [Families -> [enabled : BOOLEAN, card : Row(Cards)]]
    <3>1. PICK row : row = [enrollment[f] EXCEPT !.enabled = FALSE]
      OBVIOUS
    <3>2. enrollment[f] \in [enabled : BOOLEAN, card : Row(Cards)] /\ FALSE \in BOOLEAN
      BY DEF TypeOK
    <3>3. row \in [enabled : BOOLEAN, card : Row(Cards)]
      BY <3>1, <3>2
    <3>4. enrollment' = [enrollment EXCEPT ![f] = row]
      BY <2>2, <3>1 DEF TurnOff
    <3> QED
      BY <3>3, <3>4 DEF TypeOK
  <2> QED
    BY <2>1, <2>2 DEF SetUp, rows, TypeOK
<1>3. /\ holder' \in [Cards -> Customers \cup {NoRow, Gone}]
      /\ \A c \in Cards : holder'[c] = holder[c] \/ (holder[c] = NoRow /\ holder'[c] \in setups)
  BY DEF SetUp, TurnOn, TurnOff, stripe, TypeOK
<1>4. TypeOK'
  BY <1>1, <1>2, <1>3 DEF TypeOK
<1>5. RowsMatchStripe'
  BY <1>1, <1>3, RowsMatchKept
<1>6. DefaultsAreOne'
  BY <1>1, DefaultsKept
<1>7. ASSUME NEW y \in Calls
      PROVE  CallKnows(y)'
  BY <1>1, <1>3, CallKnowsKept
<1> QED
  BY <1>4, <1>5, <1>6, <1>7

LEMMA BooksKept ==
  ASSUME BooksInv, [Next]_vars
  PROVE  BooksInv'
<1>1. CASE UNCHANGED vars
  BY <1>1 DEF vars, rows, stripe, BooksInv, TypeOK, RowsMatchStripe, DefaultsAreOne, CallKnows
<1>2. ASSUME NEW x \in Calls, LoadSteps(x)
      PROVE  BooksInv'
  BY <1>2, BeginLoadBooks, LoadEndsBooks, RestartBooks DEF LoadSteps
<1>3. ASSUME NEW x \in Calls, CardSteps(x)
      PROVE  BooksInv'
  BY <1>3, AskBooks, CustomerMadeBooks, EndsBooks, SaveBooks, CardFoundBooks, RemoveBooks DEF CardSteps
<1> QED
  BY <1>1, <1>2, <1>3, ParentBooks, RestartBooks DEF Next

-----------------------------------------------------------------------------
(* What a step does while all goes smoothly *)

LEMMA InitGood ==
  ASSUME Init
  PROVE  CardsInv
<1>1. PICK x \in Calls : call = [y \in Calls |->
        IF y = x THEN [Idle EXCEPT !.does = "load", !.account = chosen] ELSE Idle]
  BY DEF Init
<1> DEFINE l == [Idle EXCEPT !.does = "load", !.account = chosen]
<1>2. l \in Call /\ l.does = "load" /\ l.account = chosen
  BY IdleIsACall DEF Init, Call, Row, Idle
<1>3. /\ call \in [Calls -> Call] /\ call[x] = l
      /\ \A y \in Calls \ {x} : call[y] = Idle
  BY <1>1, <1>2, IdleIsACall
<1> HIDE DEF l
<1>4. /\ chosen \in Accounts /\ client = NoRow /\ setups = {} /\ smooth = TRUE
      /\ \A f \in Families : customer[f] = NoRow
      /\ \A c \in Cards : saved[c] = NoRow /\ holder[c] = NoRow
  BY DEF Init
<1>5. TypeOK
  <2>1. [enabled |-> FALSE, card |-> NoRow] \in [enabled : BOOLEAN, card : Row(Cards)]
    BY DEF Row
  <2>2. enrollment \in [Families -> [enabled : BOOLEAN, card : Row(Cards)]]
    BY <2>1 DEF Init
  <2>3. /\ customer \in [Families -> Row(Customers)]
        /\ saved \in [Cards -> Row([family : Families, default : BOOLEAN])]
        /\ made \in [Customers -> Row([family : Families, account : Accounts])]
        /\ holder \in [Cards -> Customers \cup {NoRow, Gone}]
        /\ client \in Row(Accounts) /\ setups \subseteq Customers
    BY DEF Init, Row
  <2> QED
    BY <1>3, <1>4, <2>2, <2>3 DEF TypeOK
<1>6. NoRow \notin Customers
  BY NoRowIsNoId
<1>7. RowsMatchStripe /\ DefaultsAreOne
  BY <1>4, <1>6 DEF RowsMatchStripe, DefaultsAreOne
<1>8. \A y \in Calls : CallKnows(y)
  BY <1>2, <1>3, <1>4, IdleIsACall DEF CallKnows
<1>9. SmoothInv
  <2>1. RowsFit /\ NothingStored
    BY <1>4 DEF RowsFit, NothingStored
  <2>2. Loading(x) /\ \A y \in Calls \ {x} : ~Underway(y) /\ ~Loading(y)
    BY <1>2, <1>3, IdleIsACall DEF Loading, Underway
  <2>3. \A y \in Calls : Alone(y)
    BY <2>2 DEF Alone
  <2>4. \A y \in Calls : StillTrue(y)
    BY <1>2, <1>3, IdleIsACall DEF StillTrue, Loading, Underway
  <2> QED
    BY <2>1, <2>2, <2>3, <2>4 DEF SmoothInv
<1> QED
  BY <1>5, <1>7, <1>8, <1>9 DEF CardsInv, BooksInv

\* What is still true of one handler stays so when another takes a step that
\* leaves its family alone.
LEMMA StillTrueKept ==
  ASSUME NEW y \in Calls, StillTrue(y), call'[y] = call[y], UNCHANGED <<chosen, client>>,
         ~Loading(y) /\ Underway(y) => customer'[call[y].family] = customer[call[y].family],
         call[y].does = "detach" => saved'[call[y].card] \in {saved[call[y].card], NoRow}
  PROVE  StillTrue(y)'
BY DEF StillTrue, Loading, Underway

\* A handler that is no load begins and keeps clear of the others.
LEMMA BeginsSmoothly ==
  ASSUME CardsInv, NEW x \in Calls, ~Underway(x), call'[x].does \notin {"load", "switch"},
         \A y \in Calls \ {x} : call'[y] = call[y],
         smooth' => smooth /\ (call'[x].does = "nothing" \/ Apart(x, call'[x].family)),
         UNCHANGED <<chosen, client, customer, made, holder>>,
         \A c \in Cards : saved'[c] \in {saved[c], NoRow},
         smooth' => StillTrue(x)'
  PROVE  SmoothInv'
<1> SUFFICES ASSUME smooth'
             PROVE  /\ RowsFit' /\ \A y \in Calls : Alone(y)' /\ StillTrue(y)'
                    /\ (\A y \in Calls : ~Loading(y)') => client' = chosen'
                    /\ client' = NoRow => NothingStored'
                    /\ \A y \in Calls : call'[y].does = "load" => NothingStored'
  BY DEF SmoothInv
<1>1. /\ smooth /\ RowsFit /\ \A y \in Calls : Alone(y) /\ StillTrue(y)
      /\ (\A y \in Calls : ~Loading(y)) => client = chosen
      /\ client = NoRow => NothingStored
      /\ \A y \in Calls : call[y].does = "load" => NothingStored
  BY DEF SmoothInv, CardsInv
<1>2. RowsFit'
  BY <1>1 DEF RowsFit
<1>3. \A y \in Calls \ {x} : Underway(y)' = Underway(y) /\ Loading(y)' = Loading(y)
  BY DEF Underway, Loading
<1>4. ~Loading(x)' /\ ~Loading(x)
  BY DEF Underway, Loading
<1>5. ASSUME NEW y \in Calls
      PROVE  Alone(y)'
  <2>1. CASE ~Underway(x)'
    BY <1>1, <1>3, <2>1 DEF Alone
  <2>2. CASE Underway(x)'
    <3>1. \A z \in Calls \ {x} : Underway(z) => ~Loading(z) /\ call[z].family # call'[x].family
      BY <2>2 DEF Apart, Underway
    <3>2. CASE y = x
      BY <1>3, <1>4, <3>1, <3>2 DEF Alone
    <3>3. CASE y # x
      BY <1>1, <1>3, <1>4, <3>1, <3>3 DEF Alone
    <3> QED
      BY <3>2, <3>3
  <2> QED
    BY <2>1, <2>2
<1>6. ASSUME NEW y \in Calls
      PROVE  StillTrue(y)'
  <2>1. CASE y # x
    <3>1. call[y].does = "detach" => call[y].card \in Cards
      BY DEF CardsInv, BooksInv, CallKnows
    <3> QED
      BY <1>1, <2>1, <3>1, StillTrueKept
  <2> QED
    BY <2>1
<1>7. NothingStored => NothingStored'
  BY DEF NothingStored
<1> QED
  BY <1>1, <1>2, <1>3, <1>4, <1>5, <1>6, <1>7

\* A handler that is no load goes on, or ends.
LEMMA GoesOnSmoothly ==
  ASSUME CardsInv, NEW x \in Calls, Underway(x), ~Loading(x),
         \/ call'[x].does = "nothing"
         \/ call'[x].does = "setup" /\ call'[x].family = call[x].family,
         \A y \in Calls \ {x} : call'[y] = call[y],
         UNCHANGED <<chosen, client, smooth>>,
         smooth => RowsFit' /\ StillTrue(x)',
         smooth => \A y \in Calls \ {x} : StillTrue(y)',
         client # NoRow \/ UNCHANGED <<customer, saved>>
  PROVE  SmoothInv'
<1> SUFFICES ASSUME smooth
             PROVE  /\ RowsFit' /\ \A y \in Calls : Alone(y)' /\ StillTrue(y)'
                    /\ (\A y \in Calls : ~Loading(y)') => client' = chosen'
                    /\ client' = NoRow => NothingStored'
                    /\ \A y \in Calls : call'[y].does = "load" => NothingStored'
  BY DEF SmoothInv
<1>1. /\ \A y \in Calls : Alone(y)
      /\ (\A y \in Calls : ~Loading(y)) => client = chosen
      /\ client = NoRow => NothingStored
  BY DEF SmoothInv, CardsInv
<1>2. \A y \in Calls \ {x} : ~Loading(y) /\ ~Loading(y)' /\ call'[y].does # "load" /\ Underway(y)' = Underway(y)
  BY <1>1 DEF Alone, Underway, Loading
<1>3. ~Loading(x)' /\ call'[x].does # "load"
  BY DEF Loading
<1>4. ASSUME NEW y \in Calls
      PROVE  Alone(y)'
  <2>1. CASE ~Underway(x)'
    BY <1>1, <1>2, <2>1 DEF Alone
  <2>2. CASE Underway(x)'
    <3>1. call'[x].family = call[x].family
      BY <2>2 DEF Underway
    <3>2. CASE y = x
      BY <1>1, <1>2, <1>3, <3>1, <3>2 DEF Alone
    <3>3. CASE y # x
      BY <1>1, <1>2, <1>3, <3>1, <3>3 DEF Alone
    <3> QED
      BY <3>2, <3>3
  <2> QED
    BY <2>1, <2>2
<1>5. NothingStored /\ UNCHANGED <<customer, saved>> => NothingStored'
  BY DEF NothingStored
<1> QED
  BY <1>1, <1>2, <1>3, <1>4, <1>5

\* A load is alone, so nobody has read what it changes.
LEMMA LoadSmooth ==
  ASSUME CardsInv, NEW x \in Calls, LoadSteps(x)
  PROVE  SmoothInv'
<1> USE DEF CardsInv, BooksInv
<1>1. CASE LoadFails(x) \/ SwitchCutShort(x)
  BY <1>1 DEF LoadFails, SwitchCutShort, Restarts, SmoothInv
<1>2. ASSUME Load(x) \/ \E a \in Accounts : Switch(x, a)
      PROVE  SmoothInv'
  <2>1. PICK r \in Call :
          /\ Begins(x, r) /\ r.account = chosen' /\ chosen' \in Accounts /\ r.family = NoRow
          /\ UNCHANGED <<client, rows, stripe>>
          /\ \/ r.does = "load" /\ client = NoRow
             \/ r.does = "switch" /\ r.prev = client
    <3>1. CASE Load(x)
      <4> DEFINE l == [Idle EXCEPT !.does = "load", !.account = chosen]
      <4>1. l \in Call /\ l.does = "load" /\ l.account = chosen /\ l.family = NoRow
        BY IdleIsACall DEF TypeOK, Call, Row, Idle
      <4>2. /\ Begins(x, l) /\ chosen' = chosen /\ UNCHANGED <<client, rows, stripe>>
            /\ chosen \in Accounts /\ client = NoRow
        BY <3>1 DEF Load, TypeOK
      <4> HIDE DEF l
      <4> QED
        BY <4>1, <4>2
    <3>2. ASSUME NEW a \in Accounts, Switch(x, a)
          PROVE  \E r \in Call :
                   /\ Begins(x, r) /\ r.account = chosen' /\ chosen' \in Accounts /\ r.family = NoRow
                   /\ UNCHANGED <<client, rows, stripe>>
                   /\ \/ r.does = "load" /\ client = NoRow
                      \/ r.does = "switch" /\ r.prev = client
      <4> DEFINE l == [Idle EXCEPT !.does = "switch", !.account = a, !.prev = client]
      <4>1. l \in Call /\ l.does = "switch" /\ l.account = a /\ l.family = NoRow /\ l.prev = client
        BY IdleIsACall DEF TypeOK, Call, Row, Idle
      <4>2. Begins(x, l) /\ chosen' = a /\ UNCHANGED <<client, rows, stripe>>
        BY <3>2 DEF Switch
      <4> HIDE DEF l
      <4> QED
        BY <4>1, <4>2
    <3> QED
      BY <1>2, <3>1, <3>2
  <2>2. chosen' # NoRow
    BY <2>1, NoRowIsNoId
  <2>3. /\ call'[x].does = r.does /\ call'[x].account = chosen' /\ call'[x].prev = r.prev
        /\ \A y \in Calls \ {x} : call'[y] = call[y]
        /\ ~Underway(x) /\ (smooth' <=> smooth /\ Apart(x, NoRow))
    BY <2>1, <2>2, BeginsIs
  <2>4. UNCHANGED <<client, customer, saved, made, holder>>
    BY <2>1 DEF rows, stripe
  <2> SUFFICES ASSUME smooth'
               PROVE  /\ RowsFit' /\ \A y \in Calls : Alone(y)' /\ StillTrue(y)'
                      /\ (\A y \in Calls : ~Loading(y)') => client' = chosen'
                      /\ client' = NoRow => NothingStored'
                      /\ \A y \in Calls : call'[y].does = "load" => NothingStored'
    BY DEF SmoothInv
  <2>5. RowsFit /\ (client = NoRow => NothingStored)
    BY <2>3 DEF SmoothInv
  <2>6. RowsFit' /\ (NothingStored => NothingStored')
    BY <2>4, <2>5 DEF RowsFit, NothingStored
  <2>7. Loading(x)' /\ \A y \in Calls \ {x} : call'[y].does = "nothing"
    BY <2>1, <2>3 DEF Apart, Underway, Loading
  <2>8. \A y \in Calls : Alone(y)'
    BY <2>7 DEF Alone, Underway
  <2>9. \A y \in Calls : StillTrue(y)'
    BY <2>1, <2>3, <2>4, <2>7 DEF StillTrue, Loading, Underway
  <2> QED
    BY <2>1, <2>3, <2>4, <2>5, <2>6, <2>7, <2>8, <2>9
<1>3. CASE LoadSucceeds(x)
  <2>1. /\ Loading(x) /\ client' = call[x].account /\ Ends(x)
        /\ IF Clears(x) THEN Reset(3) ELSE UNCHANGED rows
        /\ UNCHANGED <<chosen, stripe, smooth>>
    BY <1>3 DEF LoadSucceeds
  <2>2. call'[x].does = "nothing" /\ \A y \in Calls \ {x} : call'[y] = call[y]
    BY <2>1, EndsIs, IdleIsACall
  <2> SUFFICES ASSUME smooth
               PROVE  /\ RowsFit' /\ \A y \in Calls : Alone(y)' /\ StillTrue(y)'
                      /\ (\A y \in Calls : ~Loading(y)') => client' = chosen'
                      /\ client' = NoRow => NothingStored'
                      /\ \A y \in Calls : call'[y].does = "load" => NothingStored'
    BY <2>1 DEF SmoothInv
  <2>3. /\ RowsFit /\ StillTrue(x) /\ Alone(x) /\ (client = NoRow => NothingStored)
        /\ call[x].does = "load" => NothingStored
    BY DEF SmoothInv
  <2>4. client' = chosen' /\ client' # NoRow
    BY <2>1, <2>3, NoRowIsNoId DEF StillTrue, TypeOK
  <2>5. \A y \in Calls : call'[y].does = "nothing"
    BY <2>1, <2>2, <2>3 DEF Alone, Loading, Underway
  <2>6. RowsFit'
    <3>1. CASE Clears(x)
      <4>1. 3 \in 1 .. 3 /\ TypeOK /\ Reset(3)
        BY <2>1, <3>1
      <4>2. (\A c \in Cards : saved'[c] = NoRow) /\ \A f \in Families : customer'[f] = NoRow
        BY <4>1, ResetIs
      <4> QED
        BY <4>2 DEF RowsFit
    <3>2. CASE ~Clears(x)
      <4>1. UNCHANGED <<customer, saved, made, holder>>
        BY <2>1, <3>2 DEF rows, stripe
      <4>2. NothingStored \/ client' = client
        BY <2>1, <2>3, <3>2 DEF Clears, Loading, StillTrue
      <4> QED
        BY <2>3, <4>1, <4>2 DEF RowsFit, NothingStored
    <3> QED
      BY <3>1, <3>2
  <2>7. \A y \in Calls : Alone(y)' /\ StillTrue(y)'
    BY <2>5 DEF Alone, StillTrue, Underway, Loading
  <2> QED
    BY <2>4, <2>5, <2>6, <2>7
<1> QED
  BY <1>1, <1>2, <1>3 DEF LoadSteps

\* A handler asks for a customer or a setup intent, or to save a card.
LEMMA AskSmooth ==
  ASSUME CardsInv, NEW x \in Calls, NEW f \in Families, Ask(x, f)
  PROVE  SmoothInv'
<1> USE DEF CardsInv, BooksInv
<1> DEFINE r == [Idle EXCEPT !.family = f, !.customer = customer[f],
                             !.does = IF customer[f] = NoRow THEN "mint" ELSE "setup"]
<1>1. /\ r \in Call /\ r.family = f /\ r.customer = customer[f] /\ r.account = NoRow
      /\ r.does = IF customer[f] = NoRow THEN "mint" ELSE "setup"
  BY IdleIsACall DEF TypeOK, Call, Row, Idle
<1>2. Begins(x, r) /\ UNCHANGED <<chosen, client, rows, stripe>>
  BY DEF Ask
<1> HIDE DEF r
<1>3. /\ call'[x].does = (IF customer[f] = NoRow THEN "mint" ELSE "setup")
      /\ call'[x].family = f /\ call'[x].customer = customer[f] /\ call'[x].account = client
      /\ \A y \in Calls \ {x} : call'[y] = call[y]
      /\ ~Underway(x) /\ (smooth' <=> smooth /\ Apart(x, f))
  BY <1>1, <1>2, BeginsIs
<1>4. UNCHANGED <<chosen, client, customer, saved, made, holder>>
  BY <1>2 DEF rows, stripe
<1>5. StillTrue(x)' /\ call'[x].does \notin {"load", "switch"}
  BY <1>3, <1>4 DEF StillTrue, Loading, Underway
<1> QED
  BY <1>3, <1>4, <1>5, BeginsSmoothly

LEMMA SaveSmooth ==
  ASSUME CardsInv, NEW x \in Calls, NEW f \in Families, NEW c \in Cards, Save(x, f, c)
  PROVE  SmoothInv'
<1> USE DEF CardsInv, BooksInv
<1> DEFINE r == [Idle EXCEPT !.does = "save", !.family = f, !.card = c, !.customer = customer[f]]
<1>1. /\ r \in Call /\ r.family = f /\ r.customer = customer[f] /\ r.account = NoRow
      /\ r.does = "save" /\ r.card = c
  BY IdleIsACall DEF TypeOK, Call, Row, Idle
<1>2. Begins(x, r) /\ UNCHANGED <<chosen, client, rows, stripe>>
  BY DEF Save
<1> HIDE DEF r
<1>3. /\ call'[x].does = "save"
      /\ call'[x].family = f /\ call'[x].customer = customer[f] /\ call'[x].account = client
      /\ \A y \in Calls \ {x} : call'[y] = call[y]
      /\ ~Underway(x) /\ (smooth' <=> smooth /\ Apart(x, f))
  BY <1>1, <1>2, BeginsIs
<1>4. UNCHANGED <<chosen, client, customer, saved, made, holder>>
  BY <1>2 DEF rows, stripe
<1>5. StillTrue(x)' /\ call'[x].does \notin {"load", "switch"}
  BY <1>3, <1>4 DEF StillTrue, Loading, Underway
<1> QED
  BY <1>3, <1>4, <1>5, BeginsSmoothly

LEMMA RemoveSmooth ==
  ASSUME CardsInv, NEW x \in Calls, NEW c \in Cards, Remove(x, c)
  PROVE  SmoothInv'
<1>1. /\ saved[c].family \in Families /\ saved'[c] = NoRow
      /\ \A d \in Cards \ {c} : saved'[d] = saved[d]
      /\ UNCHANGED <<chosen, client, customer, made, holder>>
      /\ ~Underway(x) /\ \A y \in Calls \ {x} : call'[y] = call[y]
      /\ \/ call'[x].does = "nothing" /\ (smooth' <=> smooth /\ Apart(x, NoRow))
         \/ /\ call'[x].does = "detach" /\ call'[x].card = c
            /\ call'[x].family = saved[c].family /\ call'[x].account = client
            /\ (smooth' <=> smooth /\ Apart(x, saved[c].family))
  BY RemoveIs DEF CardsInv
<1>2. StillTrue(x)' /\ call'[x].does \notin {"load", "switch"}
  BY <1>1 DEF StillTrue, Loading, Underway
<1>3. \A d \in Cards : saved'[d] \in {saved[d], NoRow}
  BY <1>1
<1>4. smooth' => smooth /\ (call'[x].does = "nothing" \/ Apart(x, call'[x].family))
  BY <1>1
<1> QED
  BY <1>1, <1>2, <1>3, <1>4, BeginsSmoothly

\* The family that gets a customer had none, and so it had no cards.
LEMMA CustomerMadeSmooth ==
  ASSUME CardsInv, NEW x \in Calls, NEW u \in Customers, CustomerMade(x, u)
  PROVE  SmoothInv'
<1> USE DEF CardsInv, BooksInv
<1> DEFINE f == call[x].family
           row == [family |-> f, account |-> call[x].account]
           r == [call[x] EXCEPT !.customer = u, !.does = "setup"]
<1>1. /\ call[x].does = "mint" /\ made[u] = NoRow
      /\ made' = [made EXCEPT ![u] = row]
      /\ customer' = [customer EXCEPT ![f] = u]
      /\ Becomes(x, r)
      /\ UNCHANGED <<chosen, client, saved, holder, smooth>>
  BY DEF CustomerMade
<1>2. f \in Families /\ call[x].account \in Accounts /\ call[x] \in Call
  BY <1>1 DEF CallKnows, TypeOK
<1>3. row.account = call[x].account
  OBVIOUS
<1>4. /\ r \in Call /\ r.does = "setup" /\ r.customer = u /\ r.family = f
      /\ r.account = call[x].account
  BY <1>2 DEF Call, Row
<1> HIDE DEF row, r
<1>5. made'[u] = row /\ \A v \in Customers \ {u} : made'[v] = made[v]
  BY <1>1 DEF TypeOK
<1>6. customer'[f] = u /\ \A g \in Families \ {f} : customer'[g] = customer[g]
  BY <1>1, <1>2 DEF TypeOK
<1>7. call'[x] = r /\ \A y \in Calls \ {x} : call'[y] = call[y]
  BY <1>1, <1>4, BecomesIs
<1>8. Underway(x) /\ ~Loading(x)
  BY <1>1 DEF Underway, Loading
<1>9. ASSUME smooth
      PROVE  RowsFit' /\ StillTrue(x)' /\ client # NoRow /\ \A y \in Calls \ {x} : StillTrue(y)'
  <2>1. RowsFit /\ StillTrue(x) /\ \A y \in Calls : Alone(y) /\ StillTrue(y)
    BY <1>9 DEF SmoothInv
  <2>2. call[x].account = client /\ customer[f] = NoRow /\ client # NoRow
    BY <1>1, <1>2, <1>8, <2>1, NoRowIsNoId DEF StillTrue
  <2>3. \A c \in Cards : saved[c] # NoRow => saved[c].family \in Families /\ saved[c].family # f
    BY <2>1, <2>2 DEF RowsFit, RowsMatchStripe, TypeOK, Row
  <2>4. \A g \in Families \ {f} : customer[g] # NoRow => customer[g] \in Customers \ {u}
    BY <1>1 DEF RowsMatchStripe, TypeOK, Row
  <2>5. \A g \in Families : customer'[g] # NoRow => made'[customer'[g]].account = client'
    BY <1>1, <1>3, <1>5, <1>6, <2>1, <2>2, <2>4 DEF RowsFit
  <2>6. \A c \in Cards : saved'[c] # NoRow => holder'[c] = customer'[saved'[c].family]
    BY <1>1, <1>6, <2>1, <2>3 DEF RowsFit
  <2>7. StillTrue(x)'
    BY <1>1, <1>2, <1>4, <1>6, <1>7, <2>2 DEF StillTrue, Loading, Underway
  <2>8. ASSUME NEW y \in Calls \ {x}
        PROVE  StillTrue(y)'
    <3>1. ~Loading(y) /\ Underway(y) => call[y].family \in Families \ {f}
      BY <1>8, <2>1 DEF Alone, StillTrue
    <3> QED
      BY <1>1, <1>6, <1>7, <2>1, <3>1, StillTrueKept
  <2> QED
    BY <2>2, <2>5, <2>6, <2>7, <2>8 DEF RowsFit
<1>10. CASE smooth
  BY <1>1, <1>4, <1>7, <1>8, <1>9, <1>10, GoesOnSmoothly
<1>11. CASE ~smooth
  BY <1>1, <1>11 DEF SmoothInv
<1> QED
  BY <1>10, <1>11

\* The card that is saved is the customer's that the family still has.
LEMMA CardFoundSmooth ==
  ASSUME CardsInv, NEW x \in Calls, CardFound(x)
  PROVE  SmoothInv'
<1> USE DEF CardsInv, BooksInv
<1> DEFINE f == call[x].family
           c == call[x].card
<1>1. Ends(x) /\ UNCHANGED <<chosen, client, customer, made, holder, smooth>>
  BY DEF CardFound, stripe
<1>2. call'[x].does = "nothing" /\ \A y \in Calls \ {x} : call'[y] = call[y]
  BY <1>1, EndsIs, IdleIsACall
<1>3. /\ call[x].does = "save" /\ f \in Families /\ c \in Cards
      /\ holder[c] = call[x].customer /\ call[x].customer \in Customers
      /\ made[call[x].customer].family = f
      /\ \A d \in Cards : saved'[d] = saved[d] \/ (d = c /\ saved'[d].family = f)
  BY CardFoundIs
<1>4. Underway(x) /\ ~Loading(x)
  BY <1>3 DEF Underway, Loading
<1>5. ASSUME smooth
      PROVE  RowsFit' /\ StillTrue(x)' /\ client # NoRow /\ \A y \in Calls \ {x} : StillTrue(y)'
  <2>1. RowsFit /\ StillTrue(x) /\ \A y \in Calls : Alone(y) /\ StillTrue(y)
    BY <1>5 DEF SmoothInv
  <2>2. customer[f] = call[x].customer /\ call[x].account = client /\ client # NoRow
    BY <1>3, <1>4, <2>1, NoRowIsNoId DEF StillTrue, CallKnows
  <2>3. RowsFit'
    BY <1>1, <1>3, <2>1, <2>2 DEF RowsFit
  <2>4. StillTrue(x)'
    BY <1>2 DEF StillTrue, Loading, Underway
  <2>5. ASSUME NEW y \in Calls \ {x}
        PROVE  StillTrue(y)'
    <3>1. ASSUME call[y].does = "detach"
          PROVE  saved'[call[y].card] = saved[call[y].card]
      <4>1. /\ call[y].card \in Cards
            /\ holder[call[y].card] \in Customers => made[holder[call[y].card]].family = call[y].family
        BY <3>1 DEF CallKnows
      <4>2. call[y].family # f
        BY <1>4, <2>1, <3>1 DEF Alone, Underway
      <4> QED
        BY <1>3, <4>1, <4>2
    <3> QED
      BY <1>1, <1>2, <2>1, <3>1, StillTrueKept
  <2> QED
    BY <2>2, <2>3, <2>4, <2>5
<1>6. CASE smooth
  BY <1>1, <1>2, <1>4, <1>5, <1>6, GoesOnSmoothly
<1>7. CASE ~smooth
  BY <1>1, <1>7 DEF SmoothInv
<1> QED
  BY <1>6, <1>7

\* A handler ends; the card it may have had detached is no longer saved.
LEMMA EndsSmooth ==
  ASSUME CardsInv, NEW x \in Calls, IntentMade(x) \/ GivesUp(x) \/ Detached(x)
  PROVE  SmoothInv'
<1> USE DEF CardsInv, BooksInv
<1>1. Ends(x) /\ UNCHANGED <<chosen, client, customer, saved, made, smooth>>
  BY DEF IntentMade, GivesUp, Detached, stripe, rows
<1>2. call'[x].does = "nothing" /\ \A y \in Calls \ {x} : call'[y] = call[y]
  BY <1>1, EndsIs, IdleIsACall
<1>3. Underway(x) /\ ~Loading(x)
  BY DEF IntentMade, GivesUp, Detached, Underway, Loading
<1>4. ASSUME smooth
      PROVE  RowsFit' /\ StillTrue(x)' /\ \A y \in Calls \ {x} : StillTrue(y)'
  <2>1. RowsFit /\ StillTrue(x) /\ \A y \in Calls : Alone(y) /\ StillTrue(y)
    BY <1>4 DEF SmoothInv
  <2>2. \A c \in Cards : saved[c] # NoRow => holder'[c] = holder[c]
    <3>1. CASE holder' = holder
      BY <3>1
    <3>2. CASE Detached(x)
      <4>1. /\ saved[call[x].card] = NoRow
            /\ holder' = [holder EXCEPT ![call[x].card] = Gone]
        BY <2>1, <3>2 DEF Detached, StillTrue
      <4> QED
        BY <4>1 DEF TypeOK
    <3> QED
      BY <3>1, <3>2 DEF IntentMade, GivesUp, stripe
  <2>3. RowsFit'
    BY <1>1, <2>1, <2>2 DEF RowsFit
  <2>4. StillTrue(x)'
    BY <1>2 DEF StillTrue, Loading, Underway
  <2>5. \A y \in Calls \ {x} : StillTrue(y)'
    BY <1>1, <1>2, <2>1, StillTrueKept
  <2> QED
    BY <2>3, <2>4, <2>5
<1>5. CASE smooth
  BY <1>1, <1>2, <1>3, <1>4, <1>5, GoesOnSmoothly
<1>6. CASE ~smooth
  BY <1>1, <1>6 DEF SmoothInv
<1> QED
  BY <1>5, <1>6

LEMMA ParentSmooth ==
  ASSUME CardsInv,
         \/ \E c \in Cards, u \in Customers : SetUp(c, u)
         \/ \E f \in Families, c \in Cards : TurnOn(f, c)
         \/ \E f \in Families : TurnOff(f)
  PROVE  SmoothInv'
<1> USE DEF CardsInv, BooksInv
<1>1. UNCHANGED <<chosen, client, customer, saved, call, made, smooth>>
  BY DEF SetUp, TurnOn, TurnOff, rows, stripe
<1>2. \A c \in Cards : holder'[c] = holder[c] \/ holder[c] = NoRow
  BY DEF SetUp, TurnOn, TurnOff, stripe, TypeOK
<1>3. RowsFit => RowsFit'
  BY <1>1, <1>2 DEF RowsFit, RowsMatchStripe
<1> QED
  BY <1>1, <1>3 DEF SmoothInv, Alone, StillTrue, NothingStored, Loading, Underway

LEMMA CardsKept ==
  ASSUME CardsInv, [Next]_vars
  PROVE  CardsInv'
<1>1. BooksInv'
  BY BooksKept DEF CardsInv
<1>2. SmoothInv'
  <2>1. CASE UNCHANGED vars
    <3>1. UNCHANGED <<chosen, client, customer, saved, call, made, holder, smooth>>
      BY <2>1 DEF vars, rows, stripe
    <3> QED
      BY <3>1 DEF CardsInv, SmoothInv, RowsFit, Alone, StillTrue, NothingStored, Loading, Underway
  <2>2. ASSUME NEW x \in Calls, CardSteps(x)
        PROVE  SmoothInv'
    BY <2>2, AskSmooth, CustomerMadeSmooth, EndsSmooth, SaveSmooth, CardFoundSmooth, RemoveSmooth
       DEF CardSteps
  <2>3. ASSUME Crash \/ \E c \in Cards : RemoveCutShort(c)
        PROVE  SmoothInv'
    BY <2>3 DEF Crash, RemoveCutShort, Restarts, SmoothInv
  <2> QED
    BY <2>1, <2>2, <2>3, LoadSmooth, ParentSmooth DEF Next
<1> QED
  BY <1>1, <1>2 DEF CardsInv

LEMMA AtMostOne ==
  ASSUME NEW D, \A c, d \in D : c = d
  PROVE  Cardinality(D) <= 1
<1>1. CASE D = {}
  <2>1. Cardinality(D) = 0
    BY <1>1, FS_EmptySet
  <2> QED
    BY <2>1
<1>2. CASE D # {}
  <2>1. PICK c : D = {c}
    BY <1>2
  <2>2. Cardinality({c}) = 1
    BY FS_Singleton
  <2>3. Cardinality(D) = 1
    BY <2>1, <2>2
  <2> QED
    BY <2>3
<1> QED
  BY <1>1, <1>2

-----------------------------------------------------------------------------
(* Theorems *)

LEMMA CardsInvHolds == Spec => []CardsInv
<1>1. Init => CardsInv
  BY InitGood
<1>2. CardsInv /\ [Next]_vars => CardsInv'
  BY CardsKept
<1> QED
  BY <1>1, <1>2, PTL DEF Spec

\* Every variable has its type, whatever is stored and asked of Stripe.
THEOREM TypeCorrect == Spec => []TypeOK
<1>1. CardsInv => TypeOK
  BY DEF CardsInv, BooksInv
<1> QED
  BY <1>1, CardsInvHolds, PTL

\* A family never has two default cards, although several may be saved at once:
\* a card becomes the default in the same step that finds no other.
THEOREM OneDefaultCardHolds == Spec => []OneDefaultCard
<1>1. DefaultsAreOne => OneDefaultCard
  <2> SUFFICES ASSUME DefaultsAreOne, NEW f \in Families
               PROVE  Cardinality({c \in CardsOf(f) : saved[c].default}) <= 1
    BY DEF OneDefaultCard
  <2>1. \A c, d \in {c \in CardsOf(f) : saved[c].default} : c = d
    BY DEF DefaultsAreOne, CardsOf
  <2> QED
    BY <2>1, AtMostOne
<1>2. CardsInv => OneDefaultCard
  BY <1>1 DEF CardsInv, BooksInv
<1> QED
  BY <1>2, CardsInvHolds, PTL

\* A family's customer and cards were made for it and for no other, although
\* handlers of several families wait for Stripe at once and one family may ask
\* for several customers.
THEOREM CardsStayHolds == Spec => []CardsStayInTheFamily
<1>1. CardsInv => CardsStayInTheFamily
  BY DEF CardsInv, BooksInv, RowsMatchStripe, CardsStayInTheFamily, CardsOf
<1> QED
  BY <1>1, CardsInvHolds, PTL

\* As long as the handlers keep apart, every load succeeds and the process
\* lives, what is stored between handlers can be charged with the keys loaded.
THEOREM StoredFitsHolds == Spec => []StoredFitsWhenSmooth
<1>1. CardsInv => StoredFitsWhenSmooth
  BY DEF CardsInv, SmoothInv, StoredFitsWhenSmooth, StoredFits, RowsFit, CardsOf, Loading, Underway
<1> QED
  BY <1>1, CardsInvHolds, PTL

\* A family keeps its autopay's card in a step that leaves both alone.
LEMMA HasItsCardKept ==
  ASSUME NEW f \in Families, HasItsCard(f), enrollment'[f] = enrollment[f],
         \A c \in CardsOf(f) : c = enrollment[f].card => saved'[c] = saved[c]
  PROVE  HasItsCard(f)'
BY DEF HasItsCard, CardsOf

LEMMA StepKeepsItsCard ==
  ASSUME CardsInv, Next, NEW f \in Families, HasItsCard(f)
  PROVE  HasItsCard(f)' \/ \E c \in CardsOf(f) : RemoveCutShort(c)
<1> USE DEF CardsInv, BooksInv
<1>1. ASSUME UNCHANGED <<saved, enrollment>>
      PROVE  HasItsCard(f)'
  BY <1>1, HasItsCardKept
<1>2. ASSUME NEW n \in 1 .. 3, Reset(n)
      PROVE  HasItsCard(f)'
  <2>1. enrollment' = [g \in Families |-> [enabled |-> FALSE, card |-> NoRow]]
    BY <1>2 DEF Reset
  <2>2. ~enrollment'[f].enabled /\ enrollment'[f].card = NoRow
    BY <2>1
  <2> QED
    BY <2>2 DEF HasItsCard
<1>3. ASSUME NEW x \in Calls, LoadSteps(x)
      PROVE  HasItsCard(f)'
  <2>1. UNCHANGED rows \/ \E n \in 1 .. 3 : Reset(n)
    <3>1. CASE LoadSucceeds(x)
      <4>1. 3 \in 1 .. 3
        OBVIOUS
      <4> QED
        BY <3>1, <4>1 DEF LoadSucceeds
    <3>2. CASE SwitchCutShort(x)
      <4>1. PICK n \in 1 .. 2 : Reset(n)
        BY <3>2 DEF SwitchCutShort
      <4>2. n \in 1 .. 3
        OBVIOUS
      <4> QED
        BY <4>1, <4>2
    <3> QED
      BY <1>3, <3>1, <3>2 DEF LoadSteps, Load, Switch, LoadFails
  <2>2. UNCHANGED rows => UNCHANGED <<saved, enrollment>>
    BY DEF rows
  <2> QED
    BY <1>1, <1>2, <2>1, <2>2
<1>4. ASSUME NEW x \in Calls, NEW c \in Cards, Remove(x, c)
      PROVE  HasItsCard(f)'
  <2>1. /\ saved[c] # NoRow
        /\ \A d \in Cards \ {c} : saved'[d] = saved[d]
    BY <1>4, RemoveIs
  <2>2. enrollment' = IF enrollment[saved[c].family].card = c
                      THEN [enrollment EXCEPT ![saved[c].family] = [enabled |-> FALSE, card |-> NoRow]]
                      ELSE enrollment
    BY <1>4 DEF Remove
  <2>3. CASE enrollment[f].card = c
    <3>1. saved[c].family = f
      BY <2>1, <2>3, NoRowIsNoId DEF HasItsCard, CardsOf
    <3>2. ~enrollment'[f].enabled /\ enrollment'[f].card = NoRow
      BY <2>2, <2>3, <3>1 DEF TypeOK
    <3> QED
      BY <3>2 DEF HasItsCard
  <2>4. CASE enrollment[f].card # c
    <3>1. enrollment'[f] = enrollment[f]
      BY <2>2, <2>4 DEF TypeOK
    <3> QED
      BY <2>1, <2>4, <3>1, HasItsCardKept DEF CardsOf
  <2> QED
    BY <2>3, <2>4
<1>5. ASSUME NEW x \in Calls, CardSteps(x)
      PROVE  HasItsCard(f)'
  <2>1. CASE CardFound(x)
    <3>1. enrollment' = enrollment /\ \A c \in Cards : saved'[c] = saved[c] \/ saved[c] = NoRow
      BY <2>1, CardFoundIs DEF CardFound
    <3> QED
      BY <3>1, HasItsCardKept DEF CardsOf
  <2>2. CASE \E c \in Cards : Remove(x, c)
    BY <1>4, <2>2
  <2>3. CASE ~CardFound(x) /\ ~\E c \in Cards : Remove(x, c)
    <3>1. UNCHANGED <<saved, enrollment>>
      BY <1>5, <2>3 DEF CardSteps, Ask, CustomerMade, IntentMade, GivesUp, Save, Detached, rows
    <3> QED
      BY <1>1, <3>1
  <2> QED
    BY <2>1, <2>2, <2>3
<1>6. ASSUME NEW g \in Families, NEW c \in Cards, TurnOn(g, c)
      PROVE  HasItsCard(f)'
  <2>1. /\ enrollment' = [enrollment EXCEPT ![g] = [enabled |-> TRUE, card |-> c]]
        /\ saved' = saved /\ c \in CardsOf(g)
    BY <1>6 DEF TurnOn
  <2>2. CASE f = g
    <3>1. enrollment'[f].card = c /\ c # NoRow
      BY <2>1, <2>2, NoRowIsNoId DEF TypeOK
    <3> QED
      BY <2>1, <2>2, <3>1 DEF HasItsCard, CardsOf
  <2>3. CASE f # g
    BY <2>1, <2>3, HasItsCardKept DEF TypeOK
  <2> QED
    BY <2>2, <2>3
<1>7. ASSUME NEW g \in Families, TurnOff(g)
      PROVE  HasItsCard(f)'
  <2>1. enrollment' = [enrollment EXCEPT ![g].enabled = FALSE] /\ saved' = saved
    BY <1>7 DEF TurnOff
  <2>2. CASE f = g
    <3>1. enrollment'[f].card = enrollment[f].card /\ ~enrollment'[f].enabled
      BY <2>1, <2>2 DEF TypeOK
    <3> QED
      BY <2>1, <3>1 DEF HasItsCard, CardsOf
  <2>3. CASE f # g
    BY <2>1, <2>3, HasItsCardKept DEF TypeOK
  <2> QED
    BY <2>2, <2>3
<1>8. ASSUME NEW c \in Cards, RemoveCutShort(c)
      PROVE  HasItsCard(f)' \/ \E d \in CardsOf(f) : RemoveCutShort(d)
  <2>1. saved[c] # NoRow /\ saved' = [saved EXCEPT ![c] = NoRow] /\ enrollment' = enrollment
    BY <1>8 DEF RemoveCutShort
  <2>2. CASE saved[c].family = f
    BY <1>8, <2>1, <2>2 DEF CardsOf
  <2>3. CASE saved[c].family # f
    <3>1. \A d \in CardsOf(f) : saved'[d] = saved[d]
      BY <2>1, <2>3 DEF CardsOf, TypeOK
    <3> QED
      BY <2>1, <3>1, HasItsCardKept
  <2> QED
    BY <2>2, <2>3
<1>9. ASSUME Crash \/ \E c \in Cards, u \in Customers : SetUp(c, u)
      PROVE  HasItsCard(f)'
  <2>1. UNCHANGED <<saved, enrollment>>
    BY <1>9 DEF Crash, SetUp, rows
  <2> QED
    BY <1>1, <2>1
<1> QED
  BY <1>3, <1>5, <1>6, <1>7, <1>8, <1>9 DEF Next

\* Only a removal cut short parts a family's autopay from its card: no saving or
\* removing of cards does, no switch, and no crash in the middle of a switch.
THEOREM AutopayKeepsItsCardHolds == Spec => AutopayKeepsItsCard
<1> DEFINE Keeps == \A f \in Families :
             HasItsCard(f) => HasItsCard(f)' \/ \E c \in CardsOf(f) : RemoveCutShort(c)
<1>1. CardsInv /\ [Next]_vars => [Keeps]_vars
  BY StepKeepsItsCard
<1>2. Spec => [][Keeps]_vars
  <2> HIDE DEF Keeps
  <2> QED
    BY <1>1, CardsInvHolds, PTL DEF Spec
<1> QED
  BY <1>2 DEF AutopayKeepsItsCard
=============================================================================
