------------------------------- MODULE Cents -------------------------------
(***************************************************************************)
(* Adding up money.  Every total the program derives (an invoice's items,  *)
(* the allocations on an invoice, a family's payments) is a sum of integer *)
(* cents over a finite set of rows.  An amount of n cents is n distinct    *)
(* coins, and a sum is the number of coins in the rows it ranges over.     *)
(* Counting coins is what a fold with + computes; stated with Cardinality  *)
(* it is also something the proof system can reason about.                 *)
(***************************************************************************)
EXTENDS Integers, FiniteSets

\* The coins in the rows of f: one pair <<row, n>> per cent.
Coins(f) == UNION {{x} \X (1 .. f[x]) : x \in DOMAIN f}

\* The sum of a function with natural-number values.
SumOf(f) == Cardinality(Coins(f))

\* The smaller of two amounts, and a difference that stops at zero.
Lesser(a, b) == IF a <= b THEN a ELSE b
LessBy(a, b) == IF a <= b THEN 0 ELSE a - b
=============================================================================
