----------------------------- MODULE MCAutopay -----------------------------
(***************************************************************************)
(* Small instances of autopay for TLC.                                     *)
(***************************************************************************)
EXTENDS Autopay, TLC

CONSTANTS f1, f2, p1, p2

OneBill  == {<<f1, p1>>}
TwoBills == {<<f1, p1>>, <<f1, p2>>}
BillEach == {<<f1, p1>>, <<f2, p1>>}

\* Every bill is due at once, or the second a day after the first.
DueAtOnce   == [i \in Invoices |-> {[total |-> 1, due |-> 1]}]
DueInTurn   == (<<f1, p1>> :> {[total |-> 1, due |-> 1]}) @@
               (<<f1, p2>> :> {[total |-> 1, due |-> 2]})

\* Families that differ in name only.
Symmetry == Permutations(Families)

\* A bound: the days after the third are reached with one family at most that
\* has anything to do with autopay.
Idle(f) == enrollment[f].consentAt = NoDate /\ \A i \in Invoices : i[1] = f => invoice[i] = NoRow
LongWithOneFamily == today > 3 => \E f \in Families : Idle(f)
=============================================================================
