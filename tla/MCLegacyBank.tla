----------------------------- MODULE MCLegacyBank -----------------------------
(***************************************************************************)
(* LegacyBank on a small instance.                                         *)
(***************************************************************************)
EXTENDS LegacyBank

\* Overdrawn to the limit, by half a unit, and in credit.
MCOpening == {0 - Cents * Limit, 0 - 50, Cents}
=============================================================================
