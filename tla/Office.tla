------------------------------- MODULE Office -------------------------------
(***************************************************************************)
(* The office: families, students and their PINs (trpc/people.ts), fee     *)
(* plans, who is charged what, discounts and the making of bills           *)
(* (trpc/billing.ts, billing/invoices.ts).                                 *)
(*                                                                         *)
(* Every handler is synchronous, so nothing happens between its            *)
(* statements except that the process may die there: the bills of a period *)
(* are made family by family, each in its own transaction, and a fee plan  *)
(* is archived in two statements.                                          *)
(*                                                                         *)
(* What becomes of a bill afterwards is the ledger's business (Ledger,     *)
(* whose constant Terms is what is made here).                             *)
(***************************************************************************)
EXTENDS Cents, Rows

CONSTANTS
  Students, Plans,  \* rows there can be (bounds)
  Periods,
  Pins,
  Prices,       \* amounts a fee plan can have, in cents
  Discounts     \* family discounts as finance enters them

VARIABLES
  family,    \* families
  student,   \* students
  plan,      \* fee_plans
  fee,       \* student_fees
  bill,      \* invoices, each with the sum of its items
  sweep      \* the period being billed and the families still to come

register   == <<family, student>>
fees       == <<plan, fee>>
officeVars == <<register, fees, bill, sweep>>

Discount == [kind : {"none", "fixed", "percent"}, value : Nat]
Family  == [status : {"active", "archived"}, discount : Discount]
Student == [family : Families, status : {"active", "withdrawn"}, pin : Pins]
Plan    == [price : Prices, status : {"active", "archived"}]
Sweep   == [period : Periods, todo : SUBSET Families]

\* What the theorems assume of the constants.
OfficeAssumption ==
  /\ IsFiniteSet(Students) /\ IsFiniteSet(Plans)
  /\ Prices \subseteq Nat \ {0}
  /\ \A d \in Discounts : d.kind \in {"none", "fixed", "percent"} /\ d.value \in Nat
  /\ NoRow \notin Family \cup Student \cup Plan \cup Int \cup Sweep

OfficeTypeOK ==
  /\ family \in [Families -> Family \cup {NoRow}]
  /\ student \in [Students -> Student \cup {NoRow}]
  /\ plan \in [Plans -> Plan \cup {NoRow}]
  /\ fee \subseteq Students \X Plans
  \* No bill is below zero, whatever the discount: what Ledger takes for granted of one.
  /\ bill \in [Families \X Periods -> Nat \cup {NoRow}]
  /\ sweep \in Sweep \cup {NoRow}

-----------------------------------------------------------------------------
(* Reading the tables *)

OpenFamilies == {f \in Families : family[f] # NoRow /\ family[f].status = "active"}
ActiveStudents(f) ==
  {s \in Students : student[s] # NoRow /\ student[s].family = f /\ student[s].status = "active"}

\* Fault: only the PINs of active students count as taken.
FreePins_ActiveOnly ==
  Pins \ {student[s].pin : s \in UNION {ActiveStudents(f) : f \in Families}}

\* generateUniquePin: a PIN that no student has, of whatever status.
FreePins == Pins \ {student[s].pin : s \in {t \in Students : student[t] # NoRow}}

\* familyFees: what the family's billing page lists, plans of any status.
Shown(f) == {a \in fee : a[1] \in ActiveStudents(f)}

\* feeLines: what a bill made now would list.
FeeLines(f) == {a \in Shown(f) : plan[a[2]].status = "active"}

Gross(lines) == SumOf([a \in lines |-> plan[a[2]].price])

\* Fault: a fixed discount is not capped.
DiscountCents_Uncapped(d, subtotal) ==
  CASE d.kind = "none"    -> 0
    [] d.kind = "percent" -> Lesser(subtotal, (subtotal * d.value + 5000) \div 10000)
    [] d.kind = "fixed"   -> d.value

\* discountCents, as a positive amount.  A percentage is in basis points, and
\* half a cent is rounded up.
DiscountCents(d, subtotal) ==
  CASE d.kind = "none"    -> 0
    [] d.kind = "percent" -> Lesser(subtotal, (subtotal * d.value + 5000) \div 10000)
    [] d.kind = "fixed"   -> Lesser(subtotal, d.value)

\* What a bill of f made now comes to.
NewBill(f) ==
  LET gross == Gross(FeeLines(f)) IN gross - DiscountCents(family[f].discount, gross)

OfficeInit ==
  /\ family = [f \in Families |-> NoRow]
  /\ student = [s \in Students |-> NoRow]
  /\ plan = [p \in Plans |-> NoRow]
  /\ fee = {}
  /\ bill = [b \in Families \X Periods |-> NoRow]
  /\ sweep = NoRow

\* Handlers are served one at a time.
Quiet == sweep = NoRow

-----------------------------------------------------------------------------
(* Families and students *)

FamilyCreate(f) ==
  /\ Quiet /\ family[f] = NoRow
  /\ family' = [family EXCEPT ![f] =
                  [status |-> "active", discount |-> [kind |-> "none", value |-> 0]]]
  /\ UNCHANGED <<student, fees, bill, sweep>>

FamilyUpdate(f, status) ==
  /\ Quiet /\ family[f] # NoRow
  /\ family' = [family EXCEPT ![f].status = status]
  /\ UNCHANGED <<student, fees, bill, sweep>>

\* A percentage is at most the whole.
SetDiscount(f, d) ==
  /\ Quiet /\ family[f] # NoRow
  /\ family' = [family EXCEPT ![f].discount =
                  [kind  |-> d.kind,
                   value |-> CASE d.kind = "none"    -> 0
                               [] d.kind = "percent" -> Lesser(d.value, 10000)
                               [] d.kind = "fixed"   -> d.value]]
  /\ UNCHANGED <<student, fees, bill, sweep>>

\* A student may join a family that is archived.
StudentCreate(s, f) ==
  /\ Quiet /\ student[s] = NoRow /\ family[f] # NoRow
  /\ \E pin \in FreePins :
       student' = [student EXCEPT ![s] = [family |-> f, status |-> "active", pin |-> pin]]
  /\ UNCHANGED <<family, fees, bill, sweep>>

StudentUpdate(s, status) ==
  /\ Quiet /\ student[s] # NoRow
  /\ student' = [student EXCEPT ![s].status = status]
  /\ UNCHANGED <<family, fees, bill, sweep>>

PinRegenerate(s) ==
  /\ Quiet /\ student[s] # NoRow
  /\ \E pin \in FreePins : student' = [student EXCEPT ![s].pin = pin]
  /\ UNCHANGED <<family, fees, bill, sweep>>

-----------------------------------------------------------------------------
(* Fees *)

FeePlanCreate(p, price) ==
  /\ Quiet /\ plan[p] = NoRow
  /\ plan' = [plan EXCEPT ![p] = [price |-> price, status |-> "active"]]
  /\ UNCHANGED <<register, fee, bill, sweep>>

AssignmentsOf(p) == {a \in fee : a[2] = p}

\* feePlanArchive drops the assignments, then archives; the second statement is
\* not reached when the process dies in between.
FeePlanArchive(p) ==
  /\ Quiet /\ plan[p] # NoRow
  /\ fee' = fee \ AssignmentsOf(p)
  /\ \/ plan' = [plan EXCEPT ![p].status = "archived"]
     \/ UNCHANGED plan
  /\ UNCHANGED <<register, bill, sweep>>

\* assignFee asks that the plan exists, not that it is active.
AssignFee(s, p) ==
  /\ Quiet /\ student[s] # NoRow /\ plan[p] # NoRow /\ <<s, p>> \notin fee
  /\ fee' = fee \cup {<<s, p>>}
  /\ UNCHANGED <<register, plan, bill, sweep>>

UnassignFee(a) ==
  /\ Quiet /\ a \in fee
  /\ fee' = fee \ {a}
  /\ UNCHANGED <<register, plan, bill, sweep>>

-----------------------------------------------------------------------------
(* Bills *)

\* generateForFamily: at most one bill per family and period, none without fees.
Billed(f, q) ==
  IF bill[<<f, q>>] # NoRow \/ FeeLines(f) = {} THEN bill
  ELSE [bill EXCEPT ![<<f, q>>] = NewBill(f)]

\* generateFamily, for a family of whatever status.
GenerateFamily(f, q) ==
  /\ Quiet /\ family[f] # NoRow
  /\ bill' = Billed(f, q)
  /\ UNCHANGED <<register, fees, sweep>>

\* generateForPeriod, over the families that are active when it starts.
GeneratePeriod(q) ==
  /\ Quiet
  /\ sweep' = [period |-> q, todo |-> OpenFamilies]
  /\ UNCHANGED <<register, fees, bill>>

\* Fault: the loop ends at the first family that is billed already.
BillNext_StopsAtBilled(f) ==
  /\ ~Quiet /\ f \in sweep.todo
  /\ bill' = Billed(f, sweep.period)
  /\ sweep' = [sweep EXCEPT !.todo = IF bill[<<f, sweep.period>>] # NoRow THEN {} ELSE @ \ {f}]
  /\ UNCHANGED <<register, fees>>

BillNext(f) ==
  /\ ~Quiet /\ f \in sweep.todo
  /\ bill' = Billed(f, sweep.period)
  /\ sweep' = [sweep EXCEPT !.todo = @ \ {f}]
  /\ UNCHANGED <<register, fees>>

\* The loop is through.
PeriodGenerated ==
  /\ ~Quiet /\ sweep.todo = {}
  /\ sweep' = NoRow
  /\ UNCHANGED <<register, fees, bill>>

\* The process dies in the middle of the loop: the bills made so far stay.
Crash ==
  /\ ~Quiet /\ sweep.todo # {}
  /\ sweep' = NoRow
  /\ UNCHANGED <<register, fees, bill>>

OfficeNext ==
  \/ \E f \in Families : FamilyCreate(f) \/ BillNext(f)
  \/ \E f \in Families, status \in {"active", "archived"} : FamilyUpdate(f, status)
  \/ \E f \in Families, d \in Discounts : SetDiscount(f, d)
  \/ \E s \in Students, f \in Families : StudentCreate(s, f)
  \/ \E s \in Students, status \in {"active", "withdrawn"} : StudentUpdate(s, status)
  \/ \E s \in Students : PinRegenerate(s)
  \/ \E p \in Plans, price \in Prices : FeePlanCreate(p, price)
  \/ \E p \in Plans : FeePlanArchive(p)
  \/ \E s \in Students, p \in Plans : AssignFee(s, p)
  \/ \E a \in Students \X Plans : UnassignFee(a)
  \/ \E f \in Families, q \in Periods : GenerateFamily(f, q)
  \/ \E q \in Periods : GeneratePeriod(q)
  \/ PeriodGenerated \/ Crash

OfficeSpec == OfficeInit /\ [][OfficeNext]_officeVars
-----------------------------------------------------------------------------
(* Properties *)

\* A PIN names one student, a withdrawn one included: he may be reinstated.
PinsIdentify ==
  \A s, t \in Students :
    student[s] # NoRow /\ student[t] # NoRow /\ student[s].pin = student[t].pin => s = t

\* A period's bills made once are made for everybody: when the loop is through,
\* no active family with fees is without its bill, cut-off runs before or not.
NobodyIsLeftOut ==
  ~Quiet => \A f \in OpenFamilies \ sweep.todo :
    FeeLines(f) = {} \/ bill[<<f, sweep.period>>] # NoRow
=============================================================================
