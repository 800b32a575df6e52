-------------------------------- MODULE Rows --------------------------------
(***************************************************************************)
(* The rows that more than one part of the program knows of (db/schema.ts),*)
(* as many as there can be, and the row that is not there.                 *)
(***************************************************************************)
CONSTANTS Families, Guardians, NoRow
=============================================================================
