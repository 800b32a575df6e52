------------------------------ MODULE MCCards ------------------------------
(***************************************************************************)
(* A small instance of customers and cards for TLC.                        *)
(***************************************************************************)
EXTENDS Cards, TLC

\* Nothing tells families, cards, customers, accounts or handlers apart but their names.
Symmetry ==
  Permutations(Families) \cup Permutations(Cards) \cup Permutations(Customers)
    \cup Permutations(Accounts) \cup Permutations(Calls)
=============================================================================
