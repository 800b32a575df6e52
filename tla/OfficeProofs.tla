---------------------------- MODULE OfficeProofs ----------------------------
(***************************************************************************)
(* Theorems about the office, for any families, students, fee plans,       *)
(* prices and discounts.                                                   *)
(*                                                                         *)
(* Fees are of students and plans that are on file (FeesAreOnFile), so     *)
(* that every bill is a sum of prices; and nothing but the loop itself     *)
(* runs while it makes a period's bills, so that what it has passed stays  *)
(* as it left it.                                                          *)
(***************************************************************************)
EXTENDS Office, CentsTheorems

FeesAreOnFile == \A a \in fee : student[a[1]] # NoRow /\ plan[a[2]] # NoRow

LoopIsOnFile == ~Quiet => \A f \in sweep.todo : family[f] # NoRow

OfficeInv == OfficeTypeOK /\ FeesAreOnFile /\ LoopIsOnFile /\ PinsIdentify /\ NobodyIsLeftOut

-----------------------------------------------------------------------------
(* What a bill comes to *)

LEMMA RoundedIsNat ==
  ASSUME NEW n \in Nat
  PROVE  (n + 5000) \div 10000 \in Nat
OBVIOUS

\* A discount is at least nothing and at most the whole.
LEMMA DiscountFits ==
  ASSUME NEW d \in Discount, NEW subtotal \in Nat
  PROVE  DiscountCents(d, subtotal) \in 0 .. subtotal
<1>1. d.kind \in {"none", "fixed", "percent"} /\ d.value \in Nat
  BY DEF Discount
<1>2. CASE d.kind = "none"
  BY <1>2 DEF DiscountCents
<1>3. CASE d.kind = "percent"
  <2>1. subtotal * d.value \in Nat
    BY <1>1
  <2>2. (subtotal * d.value + 5000) \div 10000 \in Nat
    BY <2>1, RoundedIsNat
  <2> QED
    BY <1>3, <2>2 DEF DiscountCents, Lesser
<1>4. CASE d.kind = "fixed"
  BY <1>1, <1>4 DEF DiscountCents, Lesser
<1> QED
  BY <1>1, <1>2, <1>3, <1>4

\* No bill is below zero.
LEMMA BillIsNat ==
  ASSUME OfficeAssumption, OfficeTypeOK, FeesAreOnFile, NEW f \in Families, family[f] # NoRow
  PROVE  NewBill(f) \in Nat
<1> DEFINE prices == [a \in FeeLines(f) |-> plan[a[2]].price]
<1>1. IsFiniteSet(Students \X Plans)
  BY FS_Product DEF OfficeAssumption
<1>2. FeeLines(f) \subseteq fee /\ fee \subseteq Students \X Plans
  BY DEF FeeLines, Shown, OfficeTypeOK
<1>3. IsFiniteSet(FeeLines(f))
  BY <1>1, <1>2, FS_Subset
<1>4. \A a \in FeeLines(f) : plan[a[2]] \in Plan
  BY <1>2 DEF OfficeTypeOK, FeesAreOnFile
<1>5. prices \in [FeeLines(f) -> Nat]
  BY <1>4 DEF Plan, OfficeAssumption
<1>6. Gross(FeeLines(f)) \in Nat
  BY <1>3, <1>5, SumIsNat DEF Gross
<1>7. family[f].discount \in Discount
  BY DEF OfficeTypeOK, Family
<1> QED
  BY <1>6, <1>7, DiscountFits DEF NewBill

-----------------------------------------------------------------------------
(* What a handler may change between two loops *)

LEMMA FamilyRows ==
  ASSUME OfficeInv, Quiet, family' \in [Families -> Family \cup {NoRow}],
         UNCHANGED <<student, fees, bill, sweep>>
  PROVE  OfficeInv'
BY DEF OfficeInv, OfficeTypeOK, FeesAreOnFile, PinsIdentify, LoopIsOnFile, NobodyIsLeftOut, Quiet, fees

LEMMA StudentRows ==
  ASSUME OfficeInv, Quiet, student' \in [Students -> Student \cup {NoRow}], PinsIdentify',
         \A s \in Students : student[s] # NoRow => student'[s] # NoRow,
         UNCHANGED <<family, fees, bill, sweep>>
  PROVE  OfficeInv'
<1>1. OfficeTypeOK' /\ NobodyIsLeftOut' /\ LoopIsOnFile'
  BY DEF OfficeInv, OfficeTypeOK, LoopIsOnFile, NobodyIsLeftOut, Quiet, fees
<1>2. FeesAreOnFile'
  BY DEF OfficeInv, OfficeTypeOK, FeesAreOnFile, fees
<1> QED
  BY <1>1, <1>2 DEF OfficeInv

LEMMA FeeRows ==
  ASSUME OfficeInv, Quiet, plan' \in [Plans -> Plan \cup {NoRow}],
         fee' \subseteq Students \X Plans, FeesAreOnFile', UNCHANGED <<register, bill, sweep>>
  PROVE  OfficeInv'
BY DEF OfficeInv, OfficeTypeOK, PinsIdentify, LoopIsOnFile, NobodyIsLeftOut, Quiet, register

\* A bill is made where there is none, and the others are left alone.
LEMMA BilledIs ==
  ASSUME OfficeAssumption, OfficeInv, NEW f \in Families, family[f] # NoRow, NEW q \in Periods
  PROVE  /\ Billed(f, q) \in [Families \X Periods -> Nat \cup {NoRow}]
         /\ \A b \in Families \X Periods : bill[b] # NoRow => Billed(f, q)[b] # NoRow
         /\ FeeLines(f) = {} \/ Billed(f, q)[<<f, q>>] # NoRow
<1>1. bill \in [Families \X Periods -> Nat \cup {NoRow}] /\ <<f, q>> \in Families \X Periods
  BY DEF OfficeInv, OfficeTypeOK
<1>2. NewBill(f) \in Nat /\ NewBill(f) # NoRow
  BY BillIsNat DEF OfficeInv, OfficeAssumption
<1> DEFINE made == [bill EXCEPT ![<<f, q>>] = NewBill(f)]
<1>3. /\ made \in [Families \X Periods -> Nat \cup {NoRow}]
      /\ made[<<f, q>>] = NewBill(f)
      /\ \A b \in Families \X Periods : b # <<f, q>> => made[b] = bill[b]
  BY <1>1, <1>2
<1>4. Billed(f, q) = IF bill[<<f, q>>] # NoRow \/ FeeLines(f) = {} THEN bill ELSE made
  BY DEF Billed
<1> HIDE DEF made
<1> QED
  BY <1>1, <1>2, <1>3, <1>4

-----------------------------------------------------------------------------
(* Families and students *)

LEMMA FamilyCreateKeeps ==
  ASSUME OfficeInv, NEW f \in Families, FamilyCreate(f)
  PROVE  OfficeInv'
BY FamilyRows DEF FamilyCreate, OfficeInv, OfficeTypeOK, Family, Discount

LEMMA FamilyUpdateKeeps ==
  ASSUME OfficeInv, NEW f \in Families, NEW status \in {"active", "archived"},
         FamilyUpdate(f, status)
  PROVE  OfficeInv'
BY FamilyRows DEF FamilyUpdate, OfficeInv, OfficeTypeOK, Family

LEMMA SetDiscountKeeps ==
  ASSUME OfficeAssumption, OfficeInv, NEW f \in Families, NEW d \in Discounts, SetDiscount(f, d)
  PROVE  OfficeInv'
<1> DEFINE given == [kind  |-> d.kind,
                     value |-> CASE d.kind = "none"    -> 0
                                 [] d.kind = "percent" -> Lesser(d.value, 10000)
                                 [] d.kind = "fixed"   -> d.value]
<1>1. given \in Discount
  BY DEF OfficeAssumption, Discount, Lesser
<1>2. /\ Quiet /\ family[f] # NoRow /\ family' = [family EXCEPT ![f].discount = given]
      /\ UNCHANGED <<student, fees, bill, sweep>>
  BY DEF SetDiscount
<1> HIDE DEF given
<1>3. family' \in [Families -> Family \cup {NoRow}]
  BY <1>1, <1>2 DEF OfficeInv, OfficeTypeOK, Family
<1> QED
  BY <1>2, <1>3, FamilyRows

\* A student gets a PIN that nobody has, his own included.
LEMMA FreshPin ==
  ASSUME OfficeInv, NEW s \in Students, NEW pin \in FreePins, NEW row, row.pin = pin,
         student' = [student EXCEPT ![s] = row]
  PROVE  PinsIdentify'
<1>1. \A t \in Students : student[t] # NoRow => student[t].pin # pin
  BY DEF FreePins
<1>2. student'[s].pin = pin /\ \A t \in Students : t # s => student'[t] = student[t]
  BY DEF OfficeInv, OfficeTypeOK
<1> QED
  BY <1>1, <1>2 DEF OfficeInv, PinsIdentify

LEMMA StudentCreateKeeps ==
  ASSUME OfficeAssumption, OfficeInv, NEW s \in Students, NEW f \in Families, StudentCreate(s, f)
  PROVE  OfficeInv'
<1>1. PICK pin \in FreePins :
        student' = [student EXCEPT ![s] = [family |-> f, status |-> "active", pin |-> pin]]
  BY DEF StudentCreate
<1>2. [family |-> f, status |-> "active", pin |-> pin] \in Student
  BY <1>1 DEF FreePins, Student
<1>3. student' \in [Students -> Student \cup {NoRow}]
  BY <1>1, <1>2 DEF OfficeInv, OfficeTypeOK
<1>4. \A t \in Students : student[t] # NoRow => student'[t] # NoRow
  BY <1>1, <1>2 DEF OfficeAssumption, OfficeInv, OfficeTypeOK
<1>5. PinsIdentify'
  BY <1>1, FreshPin
<1> QED
  BY <1>3, <1>4, <1>5, StudentRows DEF StudentCreate

\* One of a student's columns is written.
LEMMA StudentWithStatus ==
  ASSUME NEW row \in Student, NEW status \in {"active", "withdrawn"}
  PROVE  [row EXCEPT !.status = status] \in Student /\ [row EXCEPT !.status = status].pin = row.pin
BY DEF Student

LEMMA StudentWithPin ==
  ASSUME NEW row \in Student, NEW pin \in Pins
  PROVE  [row EXCEPT !.pin = pin] \in Student /\ [row EXCEPT !.pin = pin].pin = pin
BY DEF Student

LEMMA StudentUpdateKeeps ==
  ASSUME OfficeAssumption, OfficeInv, NEW s \in Students,
         NEW status \in {"active", "withdrawn"}, StudentUpdate(s, status)
  PROVE  OfficeInv'
<1> DEFINE row == [student[s] EXCEPT !.status = status]
<1>1. student[s] \in Student /\ student' = [student EXCEPT ![s] = row]
  BY DEF StudentUpdate, OfficeInv, OfficeTypeOK
<1>2. row \in Student /\ row.pin = student[s].pin
  BY <1>1, StudentWithStatus
<1> HIDE DEF row
<1>3. student' \in [Students -> Student \cup {NoRow}]
  BY <1>1, <1>2 DEF OfficeInv, OfficeTypeOK
<1>4. \A t \in Students : /\ student'[t] # NoRow <=> student[t] # NoRow
                          /\ student'[t].pin = student[t].pin
  BY <1>1, <1>2 DEF OfficeAssumption, OfficeInv, OfficeTypeOK
<1>5. PinsIdentify'
  BY <1>4 DEF OfficeInv, PinsIdentify
<1> QED
  BY <1>3, <1>4, <1>5, StudentRows DEF StudentUpdate

LEMMA PinRegenerateKeeps ==
  ASSUME OfficeAssumption, OfficeInv, NEW s \in Students, PinRegenerate(s)
  PROVE  OfficeInv'
<1>1. PICK pin \in FreePins : student' = [student EXCEPT ![s].pin = pin]
  BY DEF PinRegenerate
<1> DEFINE row == [student[s] EXCEPT !.pin = pin]
<1>2. student[s] \in Student /\ student' = [student EXCEPT ![s] = row]
  BY <1>1 DEF PinRegenerate, OfficeInv, OfficeTypeOK
<1>3. row \in Student /\ row.pin = pin
  BY <1>1, <1>2, StudentWithPin DEF FreePins
<1> HIDE DEF row
<1>4. student' \in [Students -> Student \cup {NoRow}]
  BY <1>2, <1>3 DEF OfficeInv, OfficeTypeOK
<1>5. \A t \in Students : student[t] # NoRow => student'[t] # NoRow
  BY <1>2, <1>3 DEF OfficeAssumption, OfficeInv, OfficeTypeOK
<1>6. PinsIdentify'
  BY <1>1, <1>2, <1>3, FreshPin
<1> QED
  BY <1>4, <1>5, <1>6, StudentRows DEF PinRegenerate

-----------------------------------------------------------------------------
(* Fees *)

LEMMA FeePlanCreateKeeps ==
  ASSUME OfficeAssumption, OfficeInv, NEW p \in Plans, NEW price \in Prices,
         FeePlanCreate(p, price)
  PROVE  OfficeInv'
<1> DEFINE row == [price |-> price, status |-> "active"]
<1>1. row \in Plan /\ plan' = [plan EXCEPT ![p] = row] /\ UNCHANGED <<register, fee, bill, sweep>>
      /\ Quiet
  BY DEF FeePlanCreate, Plan
<1> HIDE DEF row
<1>2. plan' \in [Plans -> Plan \cup {NoRow}]
  BY <1>1 DEF OfficeInv, OfficeTypeOK
<1>3. \A a \in fee : student[a[1]] # NoRow /\ plan'[a[2]] # NoRow
  BY <1>1 DEF OfficeAssumption, OfficeInv, OfficeTypeOK, FeesAreOnFile
<1>4. FeesAreOnFile' /\ fee' \subseteq Students \X Plans
  BY <1>1, <1>3 DEF OfficeInv, OfficeTypeOK, FeesAreOnFile, register
<1> QED
  BY <1>1, <1>2, <1>4, FeeRows

\* Fees are dropped, and no plan with them.
LEMMA FeesDropped ==
  ASSUME OfficeInv, Quiet, plan' \in [Plans -> Plan \cup {NoRow}], \A a \in fee' : a \in fee,
         \A p \in Plans : plan[p] # NoRow => plan'[p] # NoRow, UNCHANGED <<register, bill, sweep>>
  PROVE  OfficeInv'
<1>1. fee \subseteq Students \X Plans
  BY DEF OfficeInv, OfficeTypeOK
<1>2. \A a \in fee : a[2] \in Plans
  BY <1>1
<1>3. fee' \subseteq Students \X Plans
  BY <1>1
<1>4. \A a \in fee' : student'[a[1]] # NoRow /\ plan'[a[2]] # NoRow
  BY <1>2 DEF OfficeInv, FeesAreOnFile, register
<1> QED
  BY <1>3, <1>4, FeeRows DEF FeesAreOnFile

LEMMA FeePlanArchiveKeeps ==
  ASSUME OfficeAssumption, OfficeInv, NEW p \in Plans, FeePlanArchive(p)
  PROVE  OfficeInv'
<1>1. (\A a \in fee' : a \in fee) /\ Quiet /\ UNCHANGED <<register, bill, sweep>> /\ plan[p] \in Plan
  BY DEF FeePlanArchive, AssignmentsOf, OfficeInv, OfficeTypeOK
<1> DEFINE row == [plan[p] EXCEPT !.status = "archived"]
<1>2. CASE UNCHANGED plan
  BY <1>1, <1>2, FeesDropped DEF OfficeInv, OfficeTypeOK
<1>3. CASE plan' = [plan EXCEPT ![p] = row]
  <2>1. row \in Plan
    BY <1>1 DEF Plan
  <2> HIDE DEF row
  <2>2. /\ plan' \in [Plans -> Plan \cup {NoRow}]
        /\ \A o \in Plans : plan[o] # NoRow => plan'[o] # NoRow
    BY <1>3, <2>1 DEF OfficeAssumption, OfficeInv, OfficeTypeOK
  <2> QED
    BY <1>1, <2>2, FeesDropped
<1> QED
  BY <1>2, <1>3 DEF FeePlanArchive, OfficeInv, OfficeTypeOK

LEMMA AssignFeeKeeps ==
  ASSUME OfficeInv, NEW s \in Students, NEW p \in Plans, AssignFee(s, p)
  PROVE  OfficeInv'
<1> DEFINE new == <<s, p>>
<1>1. new \in Students \X Plans /\ new[1] = s /\ new[2] = p
  OBVIOUS
<1>2. /\ Quiet /\ student[s] # NoRow /\ plan[p] # NoRow /\ fee' = fee \cup {new}
      /\ UNCHANGED <<register, plan, bill, sweep>>
  BY Zenon DEF AssignFee
<1> HIDE DEF new
<1>3. fee' \subseteq Students \X Plans /\ plan' \in [Plans -> Plan \cup {NoRow}]
  BY <1>1, <1>2 DEF OfficeInv, OfficeTypeOK
<1>4. FeesAreOnFile'
  BY <1>1, <1>2 DEF OfficeInv, FeesAreOnFile, register
<1> QED
  BY <1>2, <1>3, <1>4, FeeRows

LEMMA UnassignFeeKeeps ==
  ASSUME OfficeInv, NEW a \in Students \X Plans, UnassignFee(a)
  PROVE  OfficeInv'
BY FeesDropped DEF UnassignFee, OfficeInv, OfficeTypeOK

-----------------------------------------------------------------------------
(* Bills *)

LEMMA GenerateFamilyKeeps ==
  ASSUME OfficeAssumption, OfficeInv, NEW f \in Families, NEW q \in Periods, GenerateFamily(f, q)
  PROVE  OfficeInv'
<1>1. bill' \in [Families \X Periods -> Nat \cup {NoRow}]
  BY BilledIs DEF GenerateFamily
<1> QED
  BY <1>1 DEF GenerateFamily, OfficeInv, OfficeTypeOK, FeesAreOnFile, PinsIdentify, LoopIsOnFile,
              NobodyIsLeftOut, Quiet, register, fees

LEMMA GeneratePeriodKeeps ==
  ASSUME OfficeInv, NEW q \in Periods, GeneratePeriod(q)
  PROVE  OfficeInv'
<1>1. sweep' = [period |-> q, todo |-> OpenFamilies] /\ UNCHANGED <<register, fees, bill>>
  BY DEF GeneratePeriod
<1>2. sweep' \in Sweep
  BY <1>1 DEF Sweep, OpenFamilies
<1>3. OpenFamilies' = OpenFamilies /\ sweep'.todo = OpenFamilies
  BY <1>1 DEF OpenFamilies, register
<1>4. NobodyIsLeftOut'
  BY <1>3 DEF NobodyIsLeftOut
<1>5. LoopIsOnFile'
  BY <1>1 DEF LoopIsOnFile, OpenFamilies, register
<1> QED
  BY <1>1, <1>2, <1>4, <1>5 DEF OfficeInv, OfficeTypeOK, FeesAreOnFile, PinsIdentify, register, fees

\* What a loop ends with is no loop.
LEMMA LoopEnds ==
  ASSUME OfficeInv, sweep' = NoRow, UNCHANGED <<register, fees, bill>>
  PROVE  OfficeInv'
BY DEF OfficeInv, OfficeTypeOK, FeesAreOnFile, PinsIdentify, LoopIsOnFile, NobodyIsLeftOut, Quiet, register, fees

\* The family just passed has its bill, or no fees; what was passed before stays.
LEMMA BillNextKeeps ==
  ASSUME OfficeAssumption, OfficeInv, NEW f \in Families, BillNext(f)
  PROVE  OfficeInv'
<1> DEFINE q == sweep.period
<1>1. /\ sweep \in Sweep /\ q \in Periods /\ f \in sweep.todo /\ family[f] # NoRow
      /\ sweep # NoRow
  BY DEF BillNext, Quiet, OfficeInv, OfficeTypeOK, LoopIsOnFile, Sweep
<1>2. /\ sweep' \in Sweep /\ sweep'.period = q /\ sweep'.todo = sweep.todo \ {f}
      /\ UNCHANGED <<register, fees>> /\ bill' = Billed(f, q)
  <2>1. sweep' = [sweep EXCEPT !.todo = sweep.todo \ {f}]
    BY DEF BillNext
  <2> QED
    BY <1>1, <2>1 DEF BillNext, Sweep
<1> HIDE DEF q
<1>3. /\ bill' \in [Families \X Periods -> Nat \cup {NoRow}]
      /\ \A b \in Families \X Periods : bill[b] # NoRow => bill'[b] # NoRow
      /\ FeeLines(f) = {} \/ bill'[<<f, q>>] # NoRow
  BY <1>1, <1>2, BilledIs
<1>4. OfficeTypeOK' /\ FeesAreOnFile' /\ PinsIdentify'
  BY <1>2, <1>3 DEF OfficeInv, OfficeTypeOK, FeesAreOnFile, PinsIdentify, register, fees
<1>5. LoopIsOnFile'
  BY <1>1, <1>2 DEF OfficeInv, LoopIsOnFile, Quiet, register
<1>6. OpenFamilies' = OpenFamilies /\ \A g \in Families : FeeLines(g)' = FeeLines(g)
  BY <1>2 DEF OpenFamilies, FeeLines, Shown, ActiveStudents, register, fees
<1>7. ASSUME NEW g \in OpenFamilies, g \notin sweep'.todo
      PROVE  FeeLines(g) = {} \/ bill'[<<g, q>>] # NoRow
  <2>1. CASE g = f
    BY <1>3, <2>1
  <2>2. CASE g # f
    <3>1. g \in OpenFamilies \ sweep.todo /\ <<g, q>> \in Families \X Periods /\ ~Quiet
      BY <1>1, <1>2, <1>7, <2>2 DEF OpenFamilies, Quiet
    <3>2. FeeLines(g) = {} \/ bill[<<g, sweep.period>>] # NoRow
      BY <3>1 DEF OfficeInv, NobodyIsLeftOut
    <3> QED
      BY <1>3, <3>1, <3>2 DEF q
  <2> QED
    BY <2>1, <2>2
<1>8. NobodyIsLeftOut'
  BY <1>2, <1>6, <1>7 DEF NobodyIsLeftOut, OpenFamilies
<1> QED
  BY <1>4, <1>5, <1>8 DEF OfficeInv

-----------------------------------------------------------------------------
(* The theorems *)

LEMMA OfficeInvHolds == ASSUME OfficeAssumption PROVE OfficeSpec => []OfficeInv
<1>1. OfficeInit => OfficeInv
  BY DEF OfficeInit, OfficeInv, OfficeTypeOK, FeesAreOnFile, LoopIsOnFile, PinsIdentify, NobodyIsLeftOut, Quiet
<1>2. OfficeInv /\ [OfficeNext]_officeVars => OfficeInv'
  <2> SUFFICES ASSUME OfficeInv, [OfficeNext]_officeVars
               PROVE  OfficeInv'
    OBVIOUS
  <2>1. CASE UNCHANGED officeVars
    <3>1. UNCHANGED <<family, student, plan, fee, bill, sweep>>
      BY <2>1 DEF officeVars, register, fees
    <3> QED
      BY <3>1 DEF OfficeInv, OfficeTypeOK, FeesAreOnFile, LoopIsOnFile, PinsIdentify, NobodyIsLeftOut,
                  Quiet, OpenFamilies, FeeLines, Shown, ActiveStudents
  <2>2. CASE PeriodGenerated \/ Crash
    BY <2>2, LoopEnds DEF PeriodGenerated, Crash
  <2> QED
    BY <2>1, <2>2, FamilyCreateKeeps, FamilyUpdateKeeps, SetDiscountKeeps, StudentCreateKeeps,
       StudentUpdateKeeps, PinRegenerateKeeps, FeePlanCreateKeeps, FeePlanArchiveKeeps,
       AssignFeeKeeps, UnassignFeeKeeps, GenerateFamilyKeeps, GeneratePeriodKeeps, BillNextKeeps
       DEF OfficeNext
<1> QED
  BY <1>1, <1>2, PTL DEF OfficeSpec

\* Every row is of its type; a bill in particular is never below zero, whatever
\* fees and discounts make it up (discountCents, feeLines).
THEOREM OfficeTypeCorrect == ASSUME OfficeAssumption PROVE OfficeSpec => []OfficeTypeOK
BY OfficeInvHolds, PTL DEF OfficeInv

\* A PIN is one student's (generateUniquePin), for any number of students.
THEOREM PinsIdentifyHolds == ASSUME OfficeAssumption PROVE OfficeSpec => []PinsIdentify
BY OfficeInvHolds, PTL DEF OfficeInv

\* When the loop over the families is through, whoever it was to bill is billed
\* (generateForPeriod), whatever was billed before and wherever it was cut off.
THEOREM NobodyIsLeftOutHolds == ASSUME OfficeAssumption PROVE OfficeSpec => []NobodyIsLeftOut
BY OfficeInvHolds, PTL DEF OfficeInv
=============================================================================
