---------------------------- MODULE MCReconcile ----------------------------
(***************************************************************************)
(* Small instances of reconciliation for TLC.                              *)
(***************************************************************************)
EXTENDS Reconcile

\* Everything may go wrong, or only what smooth running has.
AllOrSmooth == {AllMishaps, {"record fails", "search fails", "crash"}}

\* Payers may keep an intent waiting, and nothing else goes wrong.
LatePayers == {{"unconfirmed"}}
=============================================================================
