----------------------------- MODULE DeskProofs -----------------------------
(***************************************************************************)
(* Theorems about what is small and stands by itself: guardians and their  *)
(* families, the limiter, the paying page and the browser's screens; and   *)
(* that these, the accounts and the office keep their types side by side.  *)
(***************************************************************************)
EXTENDS MCDesk, AccountsProofs, OfficeProofs, SequenceTheorems

-----------------------------------------------------------------------------
(* Guardians, their families and their accounts, for any families,         *)
(* guardians, contacts and addresses                                       *)

\* Only guardians on file are linked; a fact the code leaves to its foreign keys.
LinkedAreOnFile == \A g \in Guardians, f \in Families : <<g, f>> \in link => OnFile(g)

GuardiansInv == GuardiansTypeOK /\ LinkedAreOnFile /\ NobodyIsLost

LEMMA GuardiansInitGood == GuardiansAssumption /\ GuardiansInit => GuardiansInv
BY DEF GuardiansAssumption, GuardiansInit, GuardiansInv, GuardiansTypeOK, LinkedAreOnFile, NobodyIsLost, OnFile

LEMMA GuardiansStepTypes ==
  ASSUME GuardiansAssumption, GuardiansTypeOK, [GuardiansNext]_guardiansVars
  PROVE  GuardiansTypeOK'
<1> USE DEF GuardiansTypeOK
<1>1. ASSUME NEW g \in Guardians, NEW f \in Families, NEW email \in Emails \cup {NoEmail},
             GuardianCreate(g, f, email)
      PROVE  GuardiansTypeOK'
  BY <1>1 DEF GuardianCreate, door
<1>2. ASSUME NEW g \in Guardians, NEW email \in Emails \cup {NoEmail}, GuardianUpdate(g, email)
      PROVE  GuardiansTypeOK'
  BY <1>2 DEF GuardianUpdate, door
<1>3. ASSUME NEW g \in Guardians, NEW f \in Families, GuardianLinkFamily(g, f)
      PROVE  GuardiansTypeOK'
  BY <1>3 DEF GuardianLinkFamily
<1>4. ASSUME NEW g \in Guardians, NEW f \in Families, GuardianUnlinkFamily(g, f)
      PROVE  GuardiansTypeOK'
  BY <1>4 DEF GuardianUnlinkFamily
<1>5. ASSUME NEW c \in Contacts, NEW f \in Families, EmergencyContactAdd(c, f)
      PROVE  GuardiansTypeOK'
  BY <1>5 DEF EmergencyContactAdd, door
<1>6. ASSUME NEW c \in Contacts, EmergencyContactRemove(c)
      PROVE  GuardiansTypeOK'
  BY <1>6 DEF EmergencyContactRemove, door
<1>7. ASSUME NEW g \in Guardians, InviteCreate(g)
      PROVE  GuardiansTypeOK'
  BY <1>7 DEF InviteCreate
<1>8. ASSUME NEW g \in Guardians, InviteAccept(g)
      PROVE  GuardiansTypeOK'
  BY <1>8 DEF InviteAccept, Invitable, OnFile
<1>9. ASSUME NEW f \in Families, NEW email \in Emails, Register(f, email)
      PROVE  GuardiansTypeOK'
  BY <1>9 DEF Register, Matches, Listed
<1>10. CASE UNCHANGED guardiansVars
  BY <1>10 DEF guardiansVars
<1> QED
  BY <1>1, <1>2, <1>3, <1>4, <1>5, <1>6, <1>7, <1>8, <1>9, <1>10 DEF GuardiansNext

LEMMA GuardiansStepKeeps ==
  ASSUME GuardiansAssumption, GuardiansInv, [GuardiansNext]_guardiansVars
  PROVE  GuardiansInv'
<1> USE DEF GuardiansInv
<1>t. GuardiansTypeOK'
  BY GuardiansStepTypes
<1> USE DEF OnFile, Listed, LinkedAreOnFile, NobodyIsLost
<1>1. ASSUME NEW g \in Guardians, NEW f \in Families, NEW email \in Emails \cup {NoEmail},
             GuardianCreate(g, f, email)
      PROVE  GuardiansInv'
  <2>1. /\ person' = [person EXCEPT ![g] = email] /\ link' = link \cup {<<g, f>>}
        /\ letGo' = letGo
    BY <1>1 DEF GuardianCreate, door
  <2>2. email # NoRow /\ person'[g] # NoRow /\ \A h \in Guardians : h # g => person'[h] = person[h]
    BY <2>1 DEF GuardiansTypeOK, GuardiansAssumption
  <2> QED
    BY <1>t, <2>1, <2>2
<1>2. ASSUME NEW g \in Guardians, NEW email \in Emails \cup {NoEmail}, GuardianUpdate(g, email)
      PROVE  GuardiansInv'
  <2>1. /\ person' = [person EXCEPT ![g] = email] /\ link' = link /\ letGo' = letGo
        /\ person[g] # NoRow
    BY <1>2 DEF GuardianUpdate, door
  <2>2. person'[g] # NoRow /\ \A h \in Guardians : h # g => person'[h] = person[h]
    BY <2>1 DEF GuardiansTypeOK, GuardiansAssumption
  <2> QED
    BY <1>t, <2>1, <2>2
<1>3. ASSUME NEW g \in Guardians, NEW f \in Families, GuardianLinkFamily(g, f)
      PROVE  GuardiansInv'
  BY <1>t, <1>3 DEF GuardianLinkFamily
<1>4. ASSUME NEW g \in Guardians, NEW f \in Families, GuardianUnlinkFamily(g, f)
      PROVE  GuardiansInv'
  BY <1>t, <1>4 DEF GuardianUnlinkFamily
<1>5. ASSUME UNCHANGED <<person, link, letGo>>
      PROVE  GuardiansInv'
  BY <1>t, <1>5
<1>6. CASE (\E c \in Contacts, f \in Families : EmergencyContactAdd(c, f))
           \/ (\E c \in Contacts : EmergencyContactRemove(c))
  BY <1>5, <1>6 DEF EmergencyContactAdd, EmergencyContactRemove, door
<1>7. CASE \/ \E g \in Guardians : InviteCreate(g) \/ InviteAccept(g)
           \/ \E f \in Families, email \in Emails : Register(f, email)
           \/ UNCHANGED guardiansVars
  BY <1>5, <1>7 DEF InviteCreate, InviteAccept, Register, guardiansVars
<1> QED
  BY <1>1, <1>2, <1>3, <1>4, <1>6, <1>7 DEF GuardiansNext

LEMMA GuardiansInvHolds == ASSUME GuardiansAssumption PROVE GuardiansSpec => []GuardiansInv
<1>1. GuardiansInit => GuardiansInv
  BY GuardiansInitGood
<1>2. GuardiansInv /\ [GuardiansNext]_guardiansVars => GuardiansInv'
  BY GuardiansStepKeeps
<1> QED
  BY <1>1, <1>2, PTL DEF GuardiansSpec

\* The office's handlers and the doors to an account write rows of their types only.
THEOREM GuardiansTypeCorrect == ASSUME GuardiansAssumption PROVE GuardiansSpec => []GuardiansTypeOK
BY GuardiansInvHolds, PTL DEF GuardiansInv

\* A guardian created in one transaction with his first link is found under some
\* family for as long as the office does not take him off his last one.
THEOREM NobodyIsLostHolds == ASSUME GuardiansAssumption PROVE GuardiansSpec => []NobodyIsLost
BY GuardiansInvHolds, PTL DEF GuardiansInv

\* No two guardians have accounts of one name.
LoginsDiffer ==
  \A g, h \in Guardians : login[g] # NoRow /\ login[h] = login[g] => g = h

\* An account is made only in a name that no other has when it is made.
LEMMA LoginsStayDifferent ==
  ASSUME GuardiansTypeOK, LoginsDiffer, [GuardiansNext]_guardiansVars
  PROVE  LoginsDiffer'
<1>1. CASE UNCHANGED login
  BY <1>1 DEF LoginsDiffer
<1>2. ASSUME NEW g \in Guardians, InviteAccept(g)
      PROVE  LoginsDiffer'
  <2>1. \A h \in Guardians : login'[h] = IF h = g THEN person[g] ELSE login[h]
    BY <1>2 DEF InviteAccept, GuardiansTypeOK
  <2>2. \A h \in Guardians : login[h] # person[g]
    BY <1>2 DEF InviteAccept, Invitable
  <2> QED
    BY <2>1, <2>2 DEF LoginsDiffer
<1> QED
  BY <1>1, <1>2 DEF GuardiansNext, guardiansVars, door, GuardianCreate, GuardianUpdate,
     GuardianLinkFamily, GuardianUnlinkFamily, EmergencyContactAdd, EmergencyContactRemove,
     InviteCreate, Register

\* Whoever signs in by an account's name sees the families of the guardian who made it and
\* no others', for any addresses, shared and exchanged as they may be, and any open
\* invites: for which inviteAccept must ask again what mintInvite asked.
THEOREM AccountsSeeTheirOwnHolds ==
  ASSUME GuardiansAssumption PROVE GuardiansSpec => []AccountsSeeTheirOwn
<1>1. GuardiansInit => LoginsDiffer
  BY DEF GuardiansInit, LoginsDiffer
<1>2. GuardiansInv /\ LoginsDiffer /\ [GuardiansNext]_guardiansVars => LoginsDiffer'
  BY LoginsStayDifferent DEF GuardiansInv
<1>3. LoginsDiffer => AccountsSeeTheirOwn
  BY DEF LoginsDiffer, AccountsSeeTheirOwn, FamiliesOf
<1> QED
  BY <1>1, <1>2, <1>3, GuardiansInvHolds, PTL DEF GuardiansSpec

-----------------------------------------------------------------------------
(* The limiter, for any keys, any number of overlapping attempts and any   *)
(* limits                                                                  *)

\* The attempts let in with k and not yet decided.
UnderwayWith(k) == {c \in Attempts : attempt[c] = k}

\* An unblocked key has its failures in its count; a blocked one has at least as
\* many as the limit, and what is still under way with it fits under the bound.
Accounted(k) ==
  /\ ~hits[k].blocked => wrong[k] = hits[k].count
  /\ hits[k].blocked =>
       /\ wrong[k] >= MaxFailures
       /\ wrong[k] + Cardinality(UnderwayWith(k)) <= MaxFailures + Cardinality(Attempts) - 1

LimiterInv == LimiterTypeOK /\ \A k \in Keys : Accounted(k)

-----------------------------------------------------------------------------
(* Entries and the attempts under way *)

Entries == [count : 0 .. MaxFailures - 1, blocked : BOOLEAN]

LEMMA FreshIsAnEntry ==
  ASSUME LimiterAssumption
  PROVE  Fresh \in Entries /\ Fresh.count = 0 /\ ~Fresh.blocked
BY DEF LimiterAssumption, Fresh, Entries

\* One more failure of an entry.
LEMMA CountedEntry ==
  ASSUME LimiterAssumption, NEW e \in Entries
  PROVE  /\ Counted(e) \in Entries
         /\ Counted(e).blocked <=> (e.blocked \/ e.count = MaxFailures - 1)
         /\ ~Counted(e).blocked => Counted(e).count = e.count + 1
<1>1. e.count \in 0 .. MaxFailures - 1 /\ e.blocked \in BOOLEAN
  BY DEF Entries
<1>2. (e.count + 1 >= MaxFailures) <=> (e.count = MaxFailures - 1)
  BY <1>1 DEF LimiterAssumption
<1>3. Counted(e).blocked = (e.blocked \/ e.count + 1 >= MaxFailures)
  BY Zenon DEF Counted
<1>4. Counted(e).count = IF e.count + 1 >= MaxFailures THEN 0 ELSE e.count + 1
  BY Zenon DEF Counted
<1>5. (IF e.count + 1 >= MaxFailures THEN 0 ELSE e.count + 1) \in 0 .. MaxFailures - 1
  BY <1>1 DEF LimiterAssumption
<1>6. (e.blocked \/ e.count + 1 >= MaxFailures) \in BOOLEAN
  BY Zenon
<1>7. Counted(e) \in Entries
  BY <1>5, <1>6, Zenon DEF Counted, Entries
<1> QED
  BY <1>1, <1>2, <1>3, <1>4, <1>7

LEMMA UnderwayIsFinite ==
  ASSUME LimiterAssumption, NEW k
  PROVE  /\ IsFiniteSet(UnderwayWith(k)) /\ Cardinality(Attempts) \in Nat
         /\ Cardinality(UnderwayWith(k)) \in Nat /\ Cardinality(UnderwayWith(k)) <= Cardinality(Attempts)
BY FS_Subset, FS_CardinalityType DEF LimiterAssumption, UnderwayWith

LEMMA OneLeaves ==
  ASSUME LimiterAssumption, LimiterTypeOK, NEW c \in Attempts, NEW k \in Keys, attempt[c] = k, Leaves(c)
  PROVE  /\ attempt' \in [Attempts -> Keys \cup {NoKey}]
         /\ Cardinality(UnderwayWith(k))' = Cardinality(UnderwayWith(k)) - 1
         /\ \A x \in Keys : x # k => UnderwayWith(x)' = UnderwayWith(x)
<1>1. attempt' = [attempt EXCEPT ![c] = NoKey] /\ attempt \in [Attempts -> Keys \cup {NoKey}]
  BY DEF Leaves, LimiterTypeOK
<1>2. \A d \in Attempts : attempt'[d] = IF d = c THEN NoKey ELSE attempt[d]
  BY <1>1
<1>3. {d \in Attempts : attempt'[d] = k} = UnderwayWith(k) \ {c}
  BY <1>2 DEF UnderwayWith, LimiterAssumption
<1>4. Cardinality(UnderwayWith(k) \ {c}) = Cardinality(UnderwayWith(k)) - 1
  <2>1. c \in UnderwayWith(k)
    BY DEF UnderwayWith
  <2> QED
    BY <2>1, UnderwayIsFinite, FS_RemoveElement
<1>5. \A x \in Keys : x # k => {d \in Attempts : attempt'[d] = x} = UnderwayWith(x)
  BY <1>2 DEF UnderwayWith, LimiterAssumption
<1>6. \A x : UnderwayWith(x)' = {d \in Attempts : attempt'[d] = x}
  BY DEF UnderwayWith
<1>7. Cardinality(UnderwayWith(k))' = Cardinality({d \in Attempts : attempt'[d] = k})
  BY DEF UnderwayWith
<1> QED
  BY <1>1, <1>3, <1>4, <1>5, <1>6, <1>7
-----------------------------------------------------------------------------
(* The map's order *)

LEMMA EnteredTypes ==
  ASSUME LimiterAssumption, LimiterTypeOK, NEW k \in Keys
  PROVE  /\ Entered(k) \in Seq(Keys) /\ Len(Entered(k)) <= MaxKeys + 1
         /\ Len(Entered(k)) > MaxKeys =>
              /\ Tail(Entered(k)) \in Seq(Keys) /\ Len(Tail(Entered(k))) <= MaxKeys
<1>1. order \in Seq(Keys) /\ Len(order) \in Nat /\ Len(order) <= MaxKeys /\ MaxKeys \in Nat \ {0}
  BY LenProperties DEF LimiterTypeOK, LimiterAssumption
<1>2. Append(order, k) \in Seq(Keys) /\ Len(Append(order, k)) = Len(order) + 1
  BY <1>1, AppendProperties
<1>3. Entered(k) \in Seq(Keys) /\ Len(Entered(k)) \in Nat /\ Len(Entered(k)) <= MaxKeys + 1
  BY <1>1, <1>2 DEF Entered
<1>4. ASSUME Len(Entered(k)) > MaxKeys
      PROVE  Tail(Entered(k)) \in Seq(Keys) /\ Len(Tail(Entered(k))) <= MaxKeys
  <2>1. Entered(k) # << >>
    BY <1>1, <1>4, EmptySeq
  <2> QED
    BY <1>1, <1>3, <2>1, HeadTailProperties
<1> QED
  BY <1>3, <1>4

LEMMA DroppedTypes ==
  ASSUME LimiterAssumption, LimiterTypeOK, NEW i \in DOMAIN order
  PROVE  /\ SubSeq(order, 1, i - 1) \o SubSeq(order, i + 1, Len(order)) \in Seq(Keys)
         /\ Len(SubSeq(order, 1, i - 1) \o SubSeq(order, i + 1, Len(order))) <= MaxKeys
<1>1. order \in Seq(Keys) /\ Len(order) \in Nat /\ Len(order) <= MaxKeys
      /\ MaxKeys \in Nat /\ i \in 1 .. Len(order)
  BY LenProperties DEF LimiterTypeOK, LimiterAssumption
<1>2. \A j \in 1 .. Len(order) : order[j] \in Keys
  BY <1>1, ElementOfSeq
<1>3. SubSeq(order, 1, i - 1) \in Seq(Keys) /\ Len(SubSeq(order, 1, i - 1)) = i - 1
  BY <1>1, <1>2, SubSeqProperties
<1>4. /\ SubSeq(order, i + 1, Len(order)) \in Seq(Keys)
      /\ Len(SubSeq(order, i + 1, Len(order))) = Len(order) - i
  BY <1>1, <1>2, SubSeqProperties
<1> QED
  BY <1>1, <1>3, <1>4, ConcatProperties

-----------------------------------------------------------------------------
(* The steps *)

LEMMA LetInKeeps ==
  ASSUME LimiterAssumption, LimiterInv, NEW c \in Attempts, NEW k \in Keys, LetIn(c, k)
  PROVE  LimiterInv'
<1>1. /\ attempt' = [attempt EXCEPT ![c] = k] /\ attempt[c] = NoKey /\ ~hits[k].blocked
      /\ UNCHANGED <<hits, order, wrong>>
  BY DEF LetIn
<1>2. LimiterTypeOK'
  BY <1>1 DEF LimiterInv, LimiterTypeOK
<1>3. ASSUME NEW x \in Keys
      PROVE  Accounted(x)'
  <2>1. CASE x = k
    BY <1>1, <2>1 DEF LimiterInv, Accounted
  <2>2. CASE x # k
    <3>1. \A d \in Attempts : attempt'[d] = x <=> attempt[d] = x
      BY <1>1, <2>2 DEF LimiterInv, LimiterTypeOK, LimiterAssumption
    <3>2. UnderwayWith(x)' = UnderwayWith(x)
      BY <3>1 DEF UnderwayWith
    <3> QED
      BY <1>1, <3>2 DEF LimiterInv, Accounted
  <2> QED
    BY <2>1, <2>2
<1> QED
  BY <1>2, <1>3 DEF LimiterInv

LEMMA FailsKeeps ==
  ASSUME LimiterAssumption, LimiterInv, NEW c \in Attempts, Fails(c)
  PROVE  LimiterInv'
<1>0. PICK k \in Keys : k = attempt[c]
  BY DEF Fails, LimiterInv, LimiterTypeOK
<1> DEFINE over == Len(Entered(k)) > MaxKeys
           gone == IF over THEN {Head(Entered(k))} ELSE {}
<1>1. k \in Keys
  BY <1>0
<1>2. /\ order' = IF over THEN Tail(Entered(k)) ELSE Entered(k)
      /\ hits' = [x \in Keys |-> IF x \in gone THEN Fresh
                                 ELSE IF x = k THEN Counted(hits[x]) ELSE hits[x]]
      /\ wrong' = [x \in Keys |-> IF x \in gone THEN 0
                                  ELSE IF x = k THEN wrong[x] + 1 ELSE wrong[x]]
      /\ Leaves(c)
  BY <1>0 DEF Fails
<1> HIDE DEF over, gone
<1>3. \A x \in Keys : hits[x] \in Entries /\ wrong[x] \in Nat
  BY DEF LimiterInv, LimiterTypeOK, Entries
<1>4. \A x \in Keys : Counted(hits[x]) \in Entries
  BY <1>3, CountedEntry
<1>5. hits' \in [Keys -> Entries] /\ wrong' \in [Keys -> Nat]
  BY <1>2, <1>3, <1>4, FreshIsAnEntry
<1>6. order' \in Seq(Keys) /\ Len(order') <= MaxKeys
  <2>1. Entered(k) \in Seq(Keys) /\ Len(Entered(k)) \in Nat /\ MaxKeys \in Nat
    BY <1>1, EnteredTypes, LenProperties DEF LimiterInv, LimiterAssumption
  <2>2. over => Tail(Entered(k)) \in Seq(Keys) /\ Len(Tail(Entered(k))) <= MaxKeys
    BY <1>1, EnteredTypes DEF LimiterInv, over
  <2>3. ~over => Len(Entered(k)) <= MaxKeys
    BY <2>1 DEF over
  <2> QED
    BY <1>2, <2>1, <2>2, <2>3
<1>7. /\ attempt' \in [Attempts -> Keys \cup {NoKey}]
      /\ Cardinality(UnderwayWith(k))' = Cardinality(UnderwayWith(k)) - 1
      /\ \A x \in Keys : x # k => UnderwayWith(x)' = UnderwayWith(x)
  BY <1>0, <1>2, OneLeaves DEF LimiterInv
<1>8. LimiterTypeOK'
  BY <1>5, <1>6, <1>7 DEF LimiterTypeOK, Entries
<1>9. ASSUME NEW x \in Keys
      PROVE  Accounted(x)'
  <2>1. CASE x \in gone
    <3>1. hits'[x] = Fresh /\ wrong'[x] = 0
      BY <1>2, <2>1
    <3> QED
      BY <3>1, FreshIsAnEntry DEF Accounted
  <2>2. CASE x \notin gone /\ x # k
    <3>1. hits'[x] = hits[x] /\ wrong'[x] = wrong[x] /\ UnderwayWith(x)' = UnderwayWith(x)
      BY <1>2, <1>7, <2>2
    <3> QED
      BY <3>1 DEF Accounted, LimiterInv
  <2>3. CASE x \notin gone /\ x = k
    <3>1. hits'[k] = Counted(hits[k]) /\ wrong'[k] = wrong[k] + 1
      BY <1>1, <1>2, <2>3
    <3>2. /\ Counted(hits[k]).blocked <=> (hits[k].blocked \/ hits[k].count = MaxFailures - 1)
          /\ ~Counted(hits[k]).blocked => Counted(hits[k]).count = hits[k].count + 1
      BY <1>1, <1>3, CountedEntry
    <3>3. Accounted(k) /\ MaxFailures \in Nat /\ wrong[k] \in Nat /\ hits[k].count \in Nat
      BY <1>1, <1>3 DEF LimiterInv, LimiterAssumption, Entries
    <3>4. /\ Cardinality(Attempts) \in Nat /\ Cardinality(UnderwayWith(k)) \in Nat
          /\ Cardinality(UnderwayWith(k)) <= Cardinality(Attempts)
      BY UnderwayIsFinite
    <3>5. CASE ~hits'[k].blocked
      BY <2>3, <3>1, <3>2, <3>3, <3>5 DEF Accounted
    <3>6. CASE hits[k].blocked
      <4>1. /\ wrong'[k] >= MaxFailures
            /\ wrong'[k] + (Cardinality(UnderwayWith(k)) - 1) <= MaxFailures + Cardinality(Attempts) - 1
        BY <3>1, <3>3, <3>4, <3>6 DEF Accounted
      <4>2. hits'[k].blocked
        BY <3>1, <3>2, <3>6
      <4> QED
        BY <2>3, <1>7, <4>1, <4>2 DEF Accounted
    <3>7. CASE hits'[k].blocked /\ ~hits[k].blocked
      <4>1. wrong[k] = MaxFailures - 1
        BY <3>1, <3>2, <3>3, <3>7 DEF Accounted
      <4>2. /\ wrong'[k] >= MaxFailures
            /\ wrong'[k] + (Cardinality(UnderwayWith(k)) - 1) <= MaxFailures + Cardinality(Attempts) - 1
        BY <3>1, <3>3, <3>4, <4>1
      <4> QED
        BY <2>3, <1>7, <4>2, <3>7 DEF Accounted
    <3> QED
      BY <2>3, <3>5, <3>6, <3>7
  <2> QED
    BY <2>1, <2>2, <2>3
<1> QED
  BY <1>8, <1>9 DEF LimiterInv

\* A key that starts afresh owes nothing.
LEMMA AfreshIsAccounted ==
  ASSUME LimiterAssumption, NEW k \in Keys, hits'[k] = Fresh, wrong'[k] = 0
  PROVE  Accounted(k)'
BY FreshIsAnEntry DEF Accounted

LEMMA SucceedsKeeps ==
  ASSUME LimiterAssumption, LimiterInv, NEW c \in Attempts, Succeeds(c)
  PROVE  LimiterInv'
<1>0. PICK k \in Keys : k = attempt[c]
  BY DEF Succeeds, LimiterInv, LimiterTypeOK
<1>1. k \in Keys
  BY <1>0
<1>2. /\ hits' = [hits EXCEPT ![k] = Fresh] /\ wrong' = [wrong EXCEPT ![k] = 0]
      /\ Leaves(c)
  BY <1>0 DEF Succeeds
<1>3. order' \in Seq(Keys) /\ Len(order') <= MaxKeys
  BY DroppedTypes DEF Succeeds, LimiterInv, LimiterTypeOK
<1>4. /\ attempt' \in [Attempts -> Keys \cup {NoKey}]
      /\ \A x \in Keys : x # k => UnderwayWith(x)' = UnderwayWith(x)
  BY <1>0, <1>2, OneLeaves DEF LimiterInv
<1>5. LimiterTypeOK'
  BY <1>1, <1>2, <1>3, <1>4, FreshIsAnEntry DEF LimiterInv, LimiterTypeOK, Entries
<1>6. ASSUME NEW x \in Keys
      PROVE  Accounted(x)'
  <2>1. CASE x = k
    BY <1>2, <2>1, AfreshIsAccounted DEF LimiterInv, LimiterTypeOK
  <2>2. CASE x # k
    BY <1>2, <1>4, <2>2 DEF Accounted, LimiterInv, LimiterTypeOK
  <2> QED
    BY <2>1, <2>2
<1> QED
  BY <1>5, <1>6 DEF LimiterInv

LEMMA GivesUpKeeps ==
  ASSUME LimiterAssumption, LimiterInv, NEW c \in Attempts, GivesUp(c)
  PROVE  LimiterInv'
<1>0. PICK k \in Keys : k = attempt[c]
  BY DEF GivesUp, LimiterInv, LimiterTypeOK
<1>1. Leaves(c) /\ UNCHANGED <<hits, order, wrong>>
  BY DEF GivesUp
<1>2. /\ attempt' \in [Attempts -> Keys \cup {NoKey}]
      /\ Cardinality(UnderwayWith(k))' = Cardinality(UnderwayWith(k)) - 1
      /\ \A x \in Keys : x # k => UnderwayWith(x)' = UnderwayWith(x)
  BY <1>0, <1>1, OneLeaves DEF LimiterInv
<1>3. LimiterTypeOK'
  BY <1>1, <1>2 DEF LimiterInv, LimiterTypeOK
<1>4. ASSUME NEW x \in Keys
      PROVE  Accounted(x)'
  <2>1. CASE x = k
    <3>1. /\ Cardinality(Attempts) \in Nat /\ Cardinality(UnderwayWith(k)) \in Nat
          /\ wrong[k] \in Nat /\ MaxFailures \in Nat
      BY <1>1, UnderwayIsFinite DEF LimiterInv, LimiterTypeOK, LimiterAssumption
    <3> QED
      BY <1>0, <1>1, <1>2, <2>1, <3>1 DEF LimiterInv, Accounted
  <2>2. CASE x # k
    BY <1>1, <1>2, <2>2 DEF LimiterInv, Accounted
  <2> QED
    BY <2>1, <2>2
<1> QED
  BY <1>3, <1>4 DEF LimiterInv

LEMMA LapsesKeeps ==
  ASSUME LimiterAssumption, LimiterInv, NEW k \in Keys, Lapses(k)
  PROVE  LimiterInv'
<1>1. /\ hits' = [hits EXCEPT ![k] = Fresh] /\ wrong' = [wrong EXCEPT ![k] = 0]
      /\ UNCHANGED <<order, attempt>>
  BY DEF Lapses
<1>2. LimiterTypeOK'
  BY <1>1, FreshIsAnEntry DEF LimiterInv, LimiterTypeOK, Entries
<1>3. ASSUME NEW x \in Keys
      PROVE  Accounted(x)'
  <2>1. CASE x = k
    BY <1>1, <2>1, AfreshIsAccounted DEF LimiterInv, LimiterTypeOK
  <2>2. CASE x # k
    BY <1>1, <2>2 DEF Accounted, UnderwayWith, LimiterInv, LimiterTypeOK
  <2> QED
    BY <2>1, <2>2
<1> QED
  BY <1>2, <1>3 DEF LimiterInv

\* Nothing is known and nobody waits: at the start, and after a restart.
LEMMA EmptyIsGood ==
  ASSUME LimiterAssumption, LimiterInit
  PROVE  LimiterInv
<1>1. LimiterTypeOK
  BY FreshIsAnEntry, EmptySeq DEF LimiterInit, LimiterTypeOK, Entries, LimiterAssumption
<1>2. \A k \in Keys : Accounted(k)
  BY FreshIsAnEntry DEF LimiterInit, Accounted
<1> QED
  BY <1>1, <1>2 DEF LimiterInv

LEMMA LimiterRestartKeeps ==
  ASSUME LimiterAssumption, LimiterInv, LimiterRestarts
  PROVE  LimiterInv'
<1>1. LimiterTypeOK'
  BY FreshIsAnEntry, EmptySeq DEF LimiterRestarts, LimiterTypeOK, Entries, LimiterAssumption
<1>2. \A k \in Keys : Accounted(k)'
  BY AfreshIsAccounted DEF LimiterRestarts
<1> QED
  BY <1>1, <1>2 DEF LimiterInv

LEMMA LimiterInvHolds == ASSUME LimiterAssumption PROVE LimiterSpec => []LimiterInv
<1>1. LimiterInit => LimiterInv
  BY EmptyIsGood
<1>2. LimiterInv /\ [LimiterNext]_limiterVars => LimiterInv'
  <2> SUFFICES ASSUME LimiterInv, [LimiterNext]_limiterVars
               PROVE  LimiterInv'
    OBVIOUS
  <2>1. CASE UNCHANGED limiterVars
    BY <2>1 DEF limiterVars, LimiterInv, LimiterTypeOK, Accounted, UnderwayWith
  <2> QED
    BY <2>1, LetInKeeps, FailsKeeps, SucceedsKeeps, GivesUpKeeps, LapsesKeeps, LimiterRestartKeeps
       DEF LimiterNext
<1> QED
  BY <1>1, <1>2, PTL DEF LimiterSpec

\* The map never grows past its limit, and its entries stay below the count that
\* blocks, however many attempts overlap.
THEOREM LimiterTypeCorrect == ASSUME LimiterAssumption PROVE LimiterSpec => []LimiterTypeOK
BY LimiterInvHolds, PTL DEF LimiterInv

\* A key fails at most as often as the limit and the attempts that can overlap,
\* whatever fails, succeeds, lapses or is evicted meanwhile.
THEOREM GuessesAreLimitedHolds == ASSUME LimiterAssumption PROVE LimiterSpec => []GuessesAreLimited
<1>1. LimiterInv => GuessesAreLimited
  <2> SUFFICES ASSUME LimiterInv, NEW k \in Keys
               PROVE  wrong[k] <= MaxFailures + Cardinality(Attempts) - 1
    BY DEF GuessesAreLimited
  <2>1. /\ Cardinality(Attempts) \in Nat /\ Cardinality(UnderwayWith(k)) \in Nat
        /\ wrong[k] \in Nat /\ MaxFailures \in Nat
        /\ hits[k].count \in 0 .. MaxFailures - 1
    BY UnderwayIsFinite DEF LimiterInv, LimiterTypeOK, LimiterAssumption
  <2>2. Accounted(k)
    BY DEF LimiterInv
  <2> QED
    BY <2>1, <2>2 DEF Accounted
<1> QED
  BY <1>1, LimiterInvHolds, PTL

\* A key is blocked only by as many failures of its own as the limit.
THEOREM BlockedByItsOwnHolds == ASSUME LimiterAssumption PROVE LimiterSpec => []BlockedByItsOwn
<1>1. LimiterInv => BlockedByItsOwn
  BY DEF LimiterInv, Accounted, BlockedByItsOwn
<1> QED
  BY <1>1, LimiterInvHolds, PTL

-----------------------------------------------------------------------------
(* The paying page, for any number of tabs and intents                     *)

\* A page has the client secret it works with, and before it has one nothing of
\* an earlier one is left.
HoldsOne ==
  \A p \in Pages :
    /\ used[p] \subseteq {held[p]}
    /\ phase[p] \in {"closed", "amount", "starting"} => used[p] = {}
    /\ phase[p] \in {"card", "paying", "recording"} => held[p] \in Intents

BookedAreTaken == \A i \in booked : intent[i] = "succeeded"

PageInv == PageTypeOK /\ HoldsOne /\ BookedAreTaken

LEMMA PageInitGood == PageInit => PageInv
BY DEF PageInit, PageInv, PageTypeOK, Phases, HoldsOne, BookedAreTaken

\* A step of one page, which changes what that page shows and no intent.
LEMMA PageStep ==
  ASSUME PageInv, NEW p \in Pages, NEW x \in Phases, NEW y \in Phases, Shows(p, x, y)
  PROVE  /\ phase' \in [Pages -> Phases]
         /\ phase[p] = x /\ phase'[p] = y
         /\ \A q \in Pages : q # p => phase'[q] = phase[q]
BY DEF PageInv, PageTypeOK, Shows

LEMMA StartedKeeps ==
  ASSUME PageInv, NEW p \in Pages, NEW i \in Intents, Started(p, i)
  PROVE  PageInv'
<1>1. /\ phase' \in [Pages -> Phases]
      /\ phase[p] = "starting" /\ phase'[p] = "card"
      /\ \A q \in Pages : q # p => phase'[q] = phase[q]
  BY PageStep DEF Started, Phases
<1>2. /\ intent[i] = "none" /\ intent' = [intent EXCEPT ![i] = "open"]
      /\ held' = [held EXCEPT ![p] = i]
      /\ used' = [used EXCEPT ![p] = @ \cup {i}]
      /\ sent' = sent /\ booked' = booked
  BY DEF Started
<1>3. used[p] = {}
  BY <1>1 DEF PageInv, HoldsOne
<1>4. PageTypeOK'
  BY <1>1, <1>2 DEF PageInv, PageTypeOK
<1>5. HoldsOne'
  BY <1>1, <1>2, <1>3 DEF PageInv, PageTypeOK, HoldsOne
<1>6. BookedAreTaken'
  BY <1>2 DEF PageInv, PageTypeOK, BookedAreTaken
<1> QED
  BY <1>4, <1>5, <1>6 DEF PageInv

LEMMA StartFailsKeeps ==
  ASSUME PageInv, NEW p \in Pages, StartFails(p)
  PROVE  PageInv'
<1>1. /\ phase' \in [Pages -> Phases]
      /\ phase[p] = "starting" /\ phase'[p] = "amount"
      /\ \A q \in Pages : q # p => phase'[q] = phase[q]
  BY PageStep DEF StartFails, Phases
<1>2. UNCHANGED <<held, sent, booked, used>>
  BY DEF StartFails
<1>3. /\ intent' \in [Intents -> {"none", "open", "processing", "succeeded"}]
      /\ \A i \in Intents : intent[i] = "succeeded" => intent'[i] = "succeeded"
  BY DEF StartFails, PageInv, PageTypeOK
<1> QED
  BY <1>1, <1>2, <1>3 DEF PageInv, PageTypeOK, HoldsOne, BookedAreTaken

LEMMA WaitKeeps ==
  ASSUME PageInv, NEW p \in Pages,
         \/ Open(p) \/ Start(p) \/ Pay(p) \/ Paid(p) \/ PayFails(p)
  PROVE  PageInv'
<1>1. CASE Open(p)
  BY <1>1 DEF Open, Shows, Rest, PageInv, PageTypeOK, Phases, HoldsOne, BookedAreTaken
<1>2. CASE Start(p)
  BY <1>2 DEF Start, Shows, Rest, PageInv, PageTypeOK, Phases, HoldsOne, BookedAreTaken
<1>3. CASE Pay(p)
  BY <1>3 DEF Pay, Shows, PageInv, PageTypeOK, Phases, HoldsOne, BookedAreTaken
<1>4. CASE Paid(p)
  BY <1>4 DEF Paid, Shows, Rest, PageInv, PageTypeOK, Phases, HoldsOne, BookedAreTaken
<1>5. CASE PayFails(p)
  BY <1>5 DEF PayFails, Shows, Rest, PageInv, PageTypeOK, Phases, HoldsOne, BookedAreTaken
<1> QED
  BY <1>1, <1>2, <1>3, <1>4, <1>5

LEMMA RecordedKeeps ==
  ASSUME PageInv, NEW p \in Pages, Recorded(p)
  PROVE  PageInv'
<1>1. /\ phase' \in [Pages -> Phases]
      /\ phase[p] = "recording" /\ phase'[p] = "done"
      /\ \A q \in Pages : q # p => phase'[q] = phase[q]
  BY PageStep DEF Recorded, Phases
<1>2. /\ UNCHANGED <<held, intent, sent, used>>
      /\ booked' \subseteq booked \cup {i \in {held[p]} : intent[i] = "succeeded"}
  BY DEF Recorded
<1>3. held[p] \in Intents
  BY <1>1 DEF PageInv, HoldsOne
<1> QED
  BY <1>1, <1>2, <1>3 DEF PageInv, PageTypeOK, HoldsOne, BookedAreTaken

LEMMA ReloadKeeps ==
  ASSUME PageInv, NEW p \in Pages, Reload(p)
  PROVE  PageInv'
BY DEF Reload, PageInv, PageTypeOK, Phases, HoldsOne, BookedAreTaken

\* What Stripe and reconciliation do: a success is final.
LEMMA StripeKeeps ==
  ASSUME PageInv, NEW i \in Intents, Takes(i) \/ Settles(i) \/ Refuses(i) \/ Reconciled(i)
  PROVE  PageInv'
<1>1. /\ intent' \in [Intents -> {"none", "open", "processing", "succeeded"}]
      /\ \A j \in Intents : intent[j] = "succeeded" => intent'[j] = "succeeded"
      /\ sent' \subseteq Intents
      /\ UNCHANGED <<phase, held, used>>
  BY DEF Takes, Settles, Refuses, Reconciled, PageInv, PageTypeOK
<1>2. /\ booked' \subseteq booked \cup {i}
      /\ i \notin booked /\ i \in booked' => intent'[i] = "succeeded"
  BY DEF Takes, Settles, Refuses, Reconciled
<1> QED
  BY <1>1, <1>2 DEF PageInv, PageTypeOK, HoldsOne, BookedAreTaken

LEMMA PageInvHolds == PageSpec => []PageInv
<1>1. PageInv /\ [PageNext]_pageVars => PageInv'
  <2> SUFFICES ASSUME PageInv, [PageNext]_pageVars
               PROVE  PageInv'
    OBVIOUS
  <2>1. CASE UNCHANGED pageVars
    BY <2>1 DEF pageVars, PageInv, PageTypeOK, HoldsOne, BookedAreTaken
  <2> QED
    BY <2>1, StartedKeeps, StartFailsKeeps, WaitKeeps, RecordedKeeps, ReloadKeeps, StripeKeeps
       DEF PageNext
<1> QED
  BY <1>1, PageInitGood, PTL DEF PageSpec

\* A page, Stripe's intents and the books keep their types through every lost
\* answer and reload: in particular what is confirmed and booked is an intent.
THEOREM PageTypeCorrect == PageSpec => []PageTypeOK
BY PageInvHolds, PTL DEF PageInv

\* A page takes money once between two loads, whatever answers it misses and however
\* often its button is pressed: it never lets go of the intent it began with.
THEOREM OncePerPageHolds == PageSpec => []OncePerPage
<1>1. PageInv => OncePerPage
  <2> SUFFICES ASSUME PageInv, NEW p \in Pages
               PROVE  Cardinality(TakenBy(p)) <= 1
    BY DEF OncePerPage, PageInv, BookedAreTaken
  <2>1. TakenBy(p) \subseteq {held[p]}
    BY DEF TakenBy, PageInv, HoldsOne
  <2>2. IsFiniteSet({held[p]}) /\ Cardinality({held[p]}) = 1
    BY FS_Singleton
  <2>3. Cardinality(TakenBy(p)) <= Cardinality({held[p]})
    BY <2>1, <2>2, FS_Subset
  <2> QED
    BY <2>2, <2>3
<1> QED
  BY <1>1, PageInvHolds, PTL

-----------------------------------------------------------------------------
(* The browser's screens                                                   *)

\* A question has an answer of the server's, and the forms that a mailed link
\* opens are sent from its page.
FormsAreInPlace ==
  /\ query.who \in {"idle", "asked"} => query = No(query.who)
  /\ pressed.does = "reset" => place = "reset"
  /\ pressed.does = "accept" => place = "invite"

\* What the browser makes of an answer.
Kept(answer) == [answer EXCEPT !.cookie = FALSE]

\* As long as no form was served and nothing unknown happened, an answer on its
\* way is what the server says now, and so is the one that is kept.
AnswersAreCurrent ==
  place = "app" /\ pressed.state = "sent" /\ ~behind =>
    /\ query \notin {No("idle"), No("asked")} => query = Says(Vouches)
    /\ query = No("idle") => cached = Kept(Says(Vouches))

ScreensInv == ScreensTypeOK /\ FormsAreInPlace /\ AnswersAreCurrent

LEMMA SameAnswer ==
  ASSUME NEW a \in Answer, NEW b \in Answer,
         a.who = b.who, a.must = b.must, a.setup = b.setup, a.cookie = b.cookie
  PROVE  a = b
BY DEF Answer

LEMMA NoIsAnAnswer ==
  /\ \A what \in Roles \cup {"nobody", "loading", "failed", "idle", "asked"} : No(what) \in Answer
  /\ \A what : No(what).who = what /\ ~No(what).cookie
BY DEF No, Answer

\* What the server says, field by field.
LEMMA SaysIs ==
  ASSUME ScreensTypeOK, NEW word \in BOOLEAN
  PROVE  /\ Says(word) \in Answer
         /\ Says(word).who \in Roles \cup {"nobody"}
         /\ Says(word).cookie => who = "nobody" /\ word /\ Says(word).who = "admin"
         /\ Says(word).cookie => ~Says(word).must /\ ~Says(word).setup
         /\ who # "nobody" => Says(word) = IF AllowedFrom(who, visit.origin)
                                           THEN [No(who) EXCEPT !.must = must] ELSE No("nobody")
<1>1. who \in Roles \cup {"nobody"} /\ must \in BOOLEAN /\ populated \in BOOLEAN
  BY DEF ScreensTypeOK
<1>2. CASE who = "nobody" /\ word
  <2>1. Says(word) = [who |-> "admin", must |-> FALSE, setup |-> FALSE, cookie |-> TRUE]
    BY <1>2 DEF Says
  <2>2. "admin" \in Roles
    BY DEF Roles
  <2>3. Says(word) \in Answer
    BY <2>1, <2>2 DEF Answer
  <2>4. Says(word).who = "admin" /\ ~Says(word).must /\ ~Says(word).setup
    BY <2>1
  <2> QED
    BY <1>2, <2>2, <2>3, <2>4
<1>3. CASE who = "nobody" /\ ~word
  <2>1. Says(word) = [No("nobody") EXCEPT !.setup = ~populated]
    BY <1>3 DEF Says
  <2>2. Says(word) = [who |-> "nobody", must |-> FALSE, setup |-> ~populated, cookie |-> FALSE]
    BY <2>1 DEF No
  <2> QED
    BY <1>1, <1>3, <2>2 DEF Answer
<1>4. CASE who # "nobody" /\ ~AllowedFrom(who, visit.origin)
  <2>1. Says(word) = No("nobody")
    BY <1>4 DEF Says
  <2> QED
    BY <1>4, <2>1 DEF Answer, No
<1>5. CASE who # "nobody" /\ AllowedFrom(who, visit.origin)
  <2>1. Says(word) = [No(who) EXCEPT !.must = must]
    BY <1>5 DEF Says
  <2>2. Says(word) = [who |-> who, must |-> must, setup |-> FALSE, cookie |-> FALSE]
    BY <2>1 DEF No
  <2>3. Says(word) \in Answer
    BY <1>1, <1>5, <2>2 DEF Answer
  <2>4. Says(word).who = who /\ ~Says(word).cookie
    BY <2>2
  <2> QED
    BY <1>1, <1>5, <2>1, <2>3, <2>4
<1> QED
  BY <1>2, <1>3, <1>4, <1>5

\* The gate chooses by what it keeps of an answer, and never a mailed link's page.
LEMMA GateIs ==
  ASSUME NEW answer \in Answer, answer.who \notin {"idle", "asked"}
  PROVE  /\ Gate(Kept(answer)) = Gate(answer)
         /\ Gate(answer) \in Roles \cup {"connecting", "login", "change", "notice", "setup"}
<1>1. /\ Kept(answer).who = answer.who /\ Kept(answer).must = answer.must
      /\ Kept(answer).setup = answer.setup
  BY DEF Kept, Answer
<1>2. /\ answer.who \in Roles \cup {"nobody", "loading", "failed"}
      /\ answer.must \in BOOLEAN /\ answer.setup \in BOOLEAN
  BY DEF Answer
<1> QED
  BY <1>1, <1>2 DEF Gate, Roles

\* What is on its way once a form is answered, and who the browser is then.
LEMMA SignsInTypes ==
  ASSUME NEW role \in Roles, NEW first \in BOOLEAN, SignsIn(role, first)
  PROVE  who' \in Roles /\ must' \in BOOLEAN
BY DEF SignsIn, Roles

LEMMA LoadsTypes ==
  ASSUME NEW there \in {"app", "invite", "reset", "register", "outside"}, Loads(there)
  PROVE  /\ place' = there
         /\ cached' \in Answer /\ cached'.who = "loading"
         /\ query' \in Answer /\ query' = No("asked") /\ query'.who = "asked"
         /\ pressed' = NoForm /\ pressed'.does = "none"
         /\ pressed' \in [does : Forms, as : Roles, state : {"sent", "done"}]
<1>1. NoForm \in [does : Forms, as : Roles, state : {"sent", "done"}] /\ NoForm.does = "none"
  BY DEF NoForm, Forms, Roles
<1> QED
  BY <1>1, NoIsAnAnswer DEF Loads

LEMMA ScreensInitGood == ScreensInit => ScreensInv
<1> SUFFICES ASSUME ScreensInit
             PROVE  ScreensInv
  OBVIOUS
<1>1. /\ NoForm \in [does : Forms, as : Roles, state : {"sent", "done"}] /\ NoForm.does = "none"
  BY DEF NoForm, Forms, Roles
<1>2. /\ cached = No("loading") /\ query = No("asked") /\ pressed = NoForm
      /\ No("loading") \in Answer /\ No("loading").who = "loading"
      /\ No("asked") \in Answer /\ No("asked").who = "asked"
      /\ No("idle").who = "idle"
  BY NoIsAnAnswer DEF ScreensInit
<1>3. ScreensTypeOK
  BY <1>1, <1>2 DEF ScreensInit, ScreensTypeOK
<1>4. FormsAreInPlace
  BY <1>1, <1>2 DEF FormsAreInPlace
<1>5. AnswersAreCurrent
  BY <1>2 DEF AnswersAreCurrent
<1> QED
  BY <1>3, <1>4, <1>5 DEF ScreensInv

\* The server says the same again as long as it has the same session and users,
\* and the page is the same.
LEMMA SaysAgain ==
  ASSUME UNCHANGED <<server, visit>>
  PROVE  Says(Vouches)' = Says(Vouches)
BY DEF server, Says, Vouches

\* An answer on its way, or none; then it is asked.
LEMMA QueryIs ==
  ASSUME ScreensTypeOK, FormsAreInPlace
  PROVE  /\ query \in Answer /\ query.cookie \in BOOLEAN
         /\ query \notin {No("idle"), No("asked")} => query.who \in Roles \cup {"nobody"}
<1>1. query \in Answer /\ query.who \notin {"loading", "failed"}
  BY DEF ScreensTypeOK
<1>2. query.who \in {"idle", "asked"} => query = No("idle") \/ query = No("asked")
  BY DEF FormsAreInPlace
<1> QED
  BY <1>1, <1>2 DEF Answer

\* The session query: it is asked, it arrives, it fails.
LEMMA QuerySteps ==
  ASSUME ScreensInv, Ask \/ Arrives \/ QueryFails
  PROVE  ScreensInv'
<1> USE DEF ScreensInv
<1>1. /\ No("idle") \in Answer /\ No("idle").who = "idle" /\ ~No("idle").cookie
      /\ No("asked") \in Answer /\ No("asked").who = "asked"
      /\ No("failed") \in Answer /\ No("failed").who = "failed"
      /\ Vouches \in BOOLEAN
  BY NoIsAnAnswer DEF Vouches, ScreensTypeOK, Visit
<1>2. CASE Ask
  <2>1. PICK word \in {Vouches, FALSE} :
          query' = Says(word) /\ behind' = (who = "nobody" /\ word # Vouches)
    BY <1>2 DEF Ask
  <2>2. UNCHANGED <<server, page, cached, pressed>>
    BY <1>2 DEF Ask
  <2>3. word \in BOOLEAN /\ Says(word) \in Answer /\ Says(word).who \in Roles \cup {"nobody"}
    BY <1>1, SaysIs
  <2>4. ~behind' => Says(word) = Says(Vouches)
    <3>1. CASE who = "nobody"
      BY <2>1, <3>1
    <3>2. CASE who # "nobody"
      BY <1>1, <2>3, <3>2, SaysIs
    <3> QED
      BY <3>1, <3>2
  <2>5. ScreensTypeOK'
    <3>1. query'.who \notin {"loading", "failed"} /\ behind' \in BOOLEAN
      BY <2>1, <2>3 DEF Roles
    <3> QED
      BY <2>1, <2>2, <2>3, <3>1 DEF ScreensTypeOK, server, page
  <2>6. FormsAreInPlace'
    BY <2>1, <2>2, <2>3 DEF FormsAreInPlace, page, Roles
  <2>7. Says(Vouches)' = Says(Vouches)
    BY <2>2, SaysAgain DEF page
  <2>8. query' # No("idle")
    BY <1>1, <2>1, <2>3 DEF Roles
  <2> QED
    BY <2>1, <2>4, <2>5, <2>6, <2>7, <2>8 DEF AnswersAreCurrent
<1>3. CASE Arrives
  <2>1. /\ query \notin {No("idle"), No("asked")}
        /\ cached' = Kept(query) /\ query' = No("idle")
        /\ who' = IF query.cookie THEN "admin" ELSE who
        /\ must' = (must /\ ~query.cookie)
        /\ UNCHANGED <<populated, page, pressed, behind>>
    BY <1>3 DEF Arrives, Kept
  <2>2. query \in Answer /\ query.who \in Roles \cup {"nobody"} /\ query.cookie \in BOOLEAN
    BY <2>1, QueryIs
  <2>3. Kept(query) \in Answer /\ Kept(query).who = query.who
    BY <2>2 DEF Kept, Answer
  <2>4. "admin" \in Roles /\ "idle" \notin Roles /\ "asked" \notin Roles
    BY DEF Roles
  <2>5. ScreensTypeOK'
    BY <1>1, <2>1, <2>2, <2>3, <2>4 DEF ScreensTypeOK, page
  <2>6. FormsAreInPlace'
    BY <1>1, <2>1 DEF FormsAreInPlace, page
  <2>7. ASSUME place = "app", pressed.state = "sent", ~behind
        PROVE  Kept(query) = Kept(Says(Vouches)')
    <3>1. query = Says(Vouches)
      BY <2>1, <2>7 DEF AnswersAreCurrent
    <3>2. CASE query.cookie
      <4>1. who = "nobody" /\ Vouches
        BY <1>1, <3>1, <3>2, SaysIs
      <4>2. query = [who |-> "admin", must |-> FALSE, setup |-> FALSE, cookie |-> TRUE]
        BY <3>1, <4>1 DEF Says
      <4>3. visit.origin = "lan"
        BY <4>1 DEF Vouches
      <4>4. who' = "admin" /\ must' = FALSE /\ visit' = visit
        BY <2>1, <3>2 DEF page
      <4>5. Says(Vouches)' = [No("admin") EXCEPT !.must = FALSE]
        <5>1. who' # "nobody" /\ AllowedFrom(who', visit'.origin)
          BY <4>3, <4>4 DEF AllowedFrom
        <5> QED
          BY <4>4, <5>1 DEF Says
      <4>6. Says(Vouches)' = [who |-> "admin", must |-> FALSE, setup |-> FALSE, cookie |-> FALSE]
        BY <4>5 DEF No
      <4> DEFINE admins == [who |-> "admin", must |-> FALSE, setup |-> FALSE, cookie |-> FALSE]
      <4>7. admins \in Answer
        BY DEF Answer, Roles
      <4>8. Kept(query) = admins
        <5>1. /\ Kept(query) \in Answer /\ Kept(query).who = "admin"
              /\ Kept(query).must = FALSE /\ Kept(query).setup = FALSE /\ Kept(query).cookie = FALSE
          BY <2>2, <4>2 DEF Kept, Answer
        <5> QED
          BY <5>1, <4>7, SameAnswer
      <4>9. Kept(admins) = admins
        <5>1. /\ Kept(admins) \in Answer /\ Kept(admins).who = "admin"
              /\ Kept(admins).must = FALSE /\ Kept(admins).setup = FALSE /\ Kept(admins).cookie = FALSE
          BY <4>7 DEF Kept, Answer
        <5> QED
          BY <5>1, <4>7, SameAnswer
      <4> QED
        BY <4>6, <4>8, <4>9
    <3>3. CASE ~query.cookie
      <4>1. must \in BOOLEAN
        BY DEF ScreensTypeOK
      <4>2. must' = must
        BY <2>1, <3>3, <4>1
      <4>3. UNCHANGED <<server, visit>>
        BY <2>1, <3>3, <4>2 DEF server, page
      <4> QED
        BY <3>1, <4>3, SaysAgain
    <3> QED
      BY <2>2, <3>2, <3>3
  <2>8. AnswersAreCurrent'
    BY <2>1, <2>7 DEF AnswersAreCurrent, page, Kept
  <2> QED
    BY <2>5, <2>6, <2>8
<1>4. CASE QueryFails
  <2>1. /\ cached' = No("failed") /\ query' = No("idle") /\ behind' = TRUE
        /\ UNCHANGED <<server, page, pressed>>
    BY <1>4 DEF QueryFails
  <2>2. ScreensTypeOK'
    BY <1>1, <2>1 DEF ScreensTypeOK, server, page
  <2> QED
    BY <1>1, <2>1, <2>2 DEF FormsAreInPlace, AnswersAreCurrent, page
<1> QED
  BY <1>2, <1>3, <1>4

\* A form is sent from the screen that has it.
LEMMA FormSteps ==
  ASSUME ScreensInv, (\E role \in Roles : Login(role)) \/ Setup \/ Change \/ Logout \/ Accept \/ NewPassword
  PROVE  ScreensInv'
<1> USE DEF ScreensInv
<1>1. PICK screen \in Roles \cup {"login", "setup", "change", "invite", "reset"},
           what \in Forms, role \in Roles :
        /\ Submits(screen, what, role)
        /\ what = "reset" => screen = "reset"
        /\ what = "accept" => screen = "invite"
  BY DEF Login, Setup, Change, Logout, Accept, NewPassword, Roles, Forms, ScreensTypeOK
<1>2. /\ pressed' = [does |-> what, as |-> role, state |-> "sent"]
      /\ UNCHANGED <<server, page, asked, behind>> /\ Screen = screen /\ pressed = NoForm
  BY <1>1 DEF Submits
<1>3. pressed.state = "sent" /\ pressed'.does = what /\ pressed'.state = "sent"
      /\ pressed' \in [does : Forms, as : Roles, state : {"sent", "done"}]
  BY <1>2 DEF NoForm
<1>4. ASSUME what \in {"reset", "accept"}
      PROVE  place = screen
  <2>1. CASE place = "app"
    <3>1. Gate(cached) \in Roles \cup {"connecting", "login", "change", "notice", "setup"}
      BY GateIs DEF ScreensTypeOK
    <3> QED
      BY <1>1, <1>2, <1>4, <2>1, <3>1 DEF Screen, Roles
  <2>2. CASE place # "app"
    BY <1>2, <2>2 DEF Screen
  <2> QED
    BY <2>1, <2>2
<1>5. ScreensTypeOK'
  BY <1>2, <1>3 DEF ScreensTypeOK, server, page, asked
<1>6. FormsAreInPlace'
  BY <1>1, <1>2, <1>3, <1>4 DEF FormsAreInPlace, page, asked
<1>7. Says(Vouches)' = Says(Vouches)
  BY <1>2, SaysAgain DEF page
<1>8. AnswersAreCurrent'
  BY <1>2, <1>3, <1>7 DEF AnswersAreCurrent, page, asked
<1> QED
  BY <1>5, <1>6, <1>8

\* The server does what it was asked: nothing is current until it is asked again.
LEMMA ServesKeeps ==
  ASSUME ScreensInv, Serves
  PROVE  ScreensInv'
<1> USE DEF ScreensInv
<1>1. /\ pressed' = [pressed EXCEPT !.state = "done"]
      /\ who' \in {"nobody", who} /\ UNCHANGED <<page, asked, behind>>
      /\ populated' = (populated \/ pressed.does = "setup")
      /\ must' = (must /\ who' # "nobody" /\ pressed.does # "change")
  BY DEF Serves
<1>2. /\ pressed' \in [does : Forms, as : Roles, state : {"sent", "done"}]
      /\ pressed'.does = pressed.does /\ pressed'.state = "done"
  BY <1>1 DEF ScreensTypeOK
<1>3. populated' \in BOOLEAN /\ must' \in BOOLEAN
  BY <1>1
<1>4. ScreensTypeOK'
  BY <1>1, <1>2, <1>3 DEF ScreensTypeOK, page, asked
<1> QED
  BY <1>1, <1>2, <1>4 DEF FormsAreInPlace, AnswersAreCurrent, page, asked

\* The answer to a form: the session is asked for again.
LEMMA AnswerSteps ==
  ASSUME ScreensInv, Answered \/ LogoutSettles
  PROVE  ScreensInv'
<1> USE DEF ScreensInv
<1>1. /\ query' = No("asked") /\ pressed' = NoForm
      /\ UNCHANGED <<populated, page, cached, behind>>
  BY DEF Answered, LogoutSettles
<1>2. /\ pressed.as \in Roles /\ who \in Roles \cup {"nobody"} /\ must \in BOOLEAN
      /\ query.cookie \in BOOLEAN
  BY QueryIs DEF ScreensTypeOK
<1>3. who' \in Roles \cup {"nobody"} /\ must' \in BOOLEAN
  BY <1>2 DEF Answered, LogoutSettles, SignedIn, SignsIn, Roles
<1>4. /\ NoForm \in [does : Forms, as : Roles, state : {"sent", "done"}] /\ NoForm.does = "none"
      /\ No("asked") \in Answer /\ No("asked").who = "asked" /\ No("idle").who = "idle"
  BY NoIsAnAnswer DEF NoForm, Forms, Roles
<1>5. ScreensTypeOK'
  BY <1>1, <1>3, <1>4 DEF ScreensTypeOK, page
<1> QED
  BY <1>1, <1>4, <1>5 DEF FormsAreInPlace, AnswersAreCurrent, page

\* A form that ends without its session asked for: it is refused, or its answer
\* is lost, or it was a password reset, which has a page of its own.
LEMMA FormEnds ==
  ASSUME ScreensInv, Errs \/ ResetAnswered
  PROVE  ScreensInv'
<1> USE DEF ScreensInv
<1>1. /\ pressed' = NoForm /\ UNCHANGED <<server, page, asked>>
      /\ NoForm \in [does : Forms, as : Roles, state : {"sent", "done"}]
      /\ NoForm.does = "none" /\ NoForm.state = "sent"
  BY DEF Errs, ResetAnswered, NoForm, Forms, Roles
<1>2. behind' \in BOOLEAN
  BY DEF Errs, ResetAnswered, ScreensTypeOK
<1>3. ScreensTypeOK'
  BY <1>1, <1>2 DEF ScreensTypeOK, server, page, asked
<1>4. ASSUME place = "app", ~behind'
      PROVE  pressed.state = "sent" /\ ~behind
  <2>1. CASE Errs
    BY <1>4, <2>1 DEF Errs, ScreensTypeOK
  <2>2. CASE ResetAnswered
    BY <1>4, <2>2 DEF ResetAnswered, FormsAreInPlace
  <2> QED
    BY <2>1, <2>2
<1>5. Says(Vouches)' = Says(Vouches)
  BY <1>1, SaysAgain DEF page
<1> QED
  BY <1>1, <1>3, <1>4, <1>5 DEF FormsAreInPlace, AnswersAreCurrent, page, asked

\* A new page.
LEMMA LoadSteps ==
  ASSUME ScreensInv,
         AcceptAnswered \/ \E there \in {"app", "invite", "reset", "register"}, how \in Visit : Load(there, how)
  PROVE  ScreensInv'
<1> USE DEF ScreensInv
<1>1. PICK there \in {"app", "invite", "reset", "register", "outside"} : Loads(there)
  BY DEF AcceptAnswered, Load
<1>2. /\ who' \in Roles \cup {"nobody"} /\ must' \in BOOLEAN
      /\ populated' = populated /\ visit' \in Visit /\ behind' = behind
  <2>1. CASE AcceptAnswered
    <3>1. "parent" \in Roles
      BY DEF Roles
    <3> QED
      BY <2>1, <3>1, SignsInTypes DEF AcceptAnswered, ScreensTypeOK
  <2>2. CASE \E t \in {"app", "invite", "reset", "register"}, how \in Visit : Load(t, how)
    BY <2>2 DEF Load, server, ScreensTypeOK
  <2> QED
    BY <2>1, <2>2
<1>3. /\ place' = there
      /\ cached' \in Answer /\ cached'.who = "loading"
      /\ query' \in Answer /\ query' = No("asked") /\ query'.who = "asked"
      /\ pressed'.does = "none"
      /\ pressed' \in [does : Forms, as : Roles, state : {"sent", "done"}]
  BY <1>1, LoadsTypes
<1>4. ScreensTypeOK'
  BY <1>2, <1>3 DEF ScreensTypeOK
<1>5. No("idle").who = "idle"
  BY NoIsAnAnswer
<1> QED
  BY <1>3, <1>4, <1>5 DEF FormsAreInPlace, AnswersAreCurrent

LEMMA ElsewhereSteps ==
  ASSUME ScreensInv, SignedOutElsewhere \/ PasswordIsReset \/ SetupElsewhere
  PROVE  ScreensInv'
<1> USE DEF ScreensInv
<1>1. behind' = TRUE /\ UNCHANGED <<page, asked, pressed>>
  BY DEF SignedOutElsewhere, PasswordIsReset, SetupElsewhere
<1>2. who' \in {who, "nobody"} /\ must' \in BOOLEAN /\ populated' \in BOOLEAN
  BY DEF SignedOutElsewhere, PasswordIsReset, SetupElsewhere, ScreensTypeOK
<1>3. ScreensTypeOK'
  BY <1>1, <1>2 DEF ScreensTypeOK, page, asked
<1> QED
  BY <1>1, <1>3 DEF FormsAreInPlace, AnswersAreCurrent, page, asked

LEMMA ScreensInvHolds == ScreensSpec => []ScreensInv
<1>1. ScreensInv /\ [ScreensNext]_screensVars => ScreensInv'
  <2> SUFFICES ASSUME ScreensInv, [ScreensNext]_screensVars
               PROVE  ScreensInv'
    OBVIOUS
  <2>1. CASE UNCHANGED screensVars
    <3>1. Says(Vouches)' = Says(Vouches)
      BY <2>1, SaysAgain DEF screensVars, page
    <3> QED
      BY <2>1, <3>1 DEF screensVars, server, page, asked, ScreensInv, ScreensTypeOK,
                        FormsAreInPlace, AnswersAreCurrent
  <2> QED
    BY <2>1, QuerySteps, FormSteps, ServesKeeps, AnswerSteps, FormEnds, LoadSteps, ElsewhereSteps
       DEF ScreensNext
<1> QED
  BY <1>1, ScreensInitGood, PTL DEF ScreensSpec

\* The browser, its page and the answers it has keep their types; in particular a
\* question is never answered twice.
THEOREM ScreensTypeCorrect == ScreensSpec => []ScreensTypeOK
BY ScreensInvHolds, PTL DEF ScreensInv

\* When nothing is under way and nothing happened that the page cannot know, it
\* shows what the server would have it show (the gate in App.tsx), in whatever
\* order its questions, forms and their answers crossed.
THEOREM ScreenIsCurrentHolds == ScreensSpec => []ScreenIsCurrent
<1>1. ScreensInv => ScreenIsCurrent
  <2> SUFFICES ASSUME ScreensInv, place = "app", query = No("idle"), pressed = NoForm, ~behind
               PROVE  Screen = Gate(Says(Vouches))
    BY DEF ScreenIsCurrent
  <2>1. cached = Kept(Says(Vouches))
    BY DEF ScreensInv, AnswersAreCurrent, NoForm
  <2>2. Vouches \in BOOLEAN
    BY DEF Vouches, ScreensInv, ScreensTypeOK, Visit
  <2>3. Says(Vouches) \in Answer /\ Says(Vouches).who \notin {"idle", "asked"}
    BY <2>2, SaysIs DEF ScreensInv, Roles
  <2> QED
    BY <2>1, <2>3, GateIs DEF Screen
<1> QED
  BY <1>1, ScreensInvHolds, PTL

-----------------------------------------------------------------------------
(* The parts side by side *)

\* Every part keeps its types whichever of them moves, for any rows, keys, pages
\* and visitors: what a part does is a step of that part and leaves the others.
THEOREM DeskTypesHold == DeskSpec => []DeskTypeOK
<1>1. DeskInit => /\ Init /\ OfficeInit /\ GuardiansInit /\ LimiterInit /\ PageInit /\ ScreensInit
  BY DEF DeskInit
<1>2. [DeskNext]_<<accountsVars, officeVars, guardiansVars, limiterVars, pageVars, screensVars, part>>
        => /\ [Next]_vars /\ [OfficeNext]_officeVars /\ [GuardiansNext]_guardiansVars
           /\ [LimiterNext]_limiterVars /\ [PageNext]_pageVars /\ [ScreensNext]_screensVars
  BY DEF DeskNext, accountsVars
<1>3. DeskSpec => /\ Spec /\ OfficeSpec /\ GuardiansSpec /\ LimiterSpec /\ PageSpec /\ ScreensSpec
  BY <1>1, <1>2, PTL DEF DeskSpec, Spec, OfficeSpec, GuardiansSpec, LimiterSpec, PageSpec, ScreensSpec
<1>4. OfficeAssumption /\ GuardiansAssumption /\ LimiterAssumption
  BY PartsAssumption
<1>5. /\ Spec => []TypeOK
      /\ OfficeSpec => []OfficeTypeOK
      /\ GuardiansSpec => []GuardiansTypeOK
      /\ LimiterSpec => []LimiterTypeOK
      /\ PageSpec => []PageTypeOK
      /\ ScreensSpec => []ScreensTypeOK
  BY <1>4, AccountsTypeCorrect, OfficeTypeCorrect, GuardiansTypeCorrect, LimiterTypeCorrect,
     PageTypeCorrect, ScreensTypeCorrect
<1> QED
  BY <1>3, <1>5, PTL DEF DeskTypeOK
=============================================================================
