---------------------------- MODULE MCMigrations ----------------------------
(***************************************************************************)
(* Migrations for TLC.                                                     *)
(***************************************************************************)
EXTENDS Migrations, TLC
=============================================================================
