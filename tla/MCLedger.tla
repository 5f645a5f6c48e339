------------------------------ MODULE MCLedger ------------------------------
(***************************************************************************)
(* Ledger on small instances.                                              *)
(***************************************************************************)
EXTENDS Ledger, TLC

\* The even accounts are one subject's, the odd ones another's.
TwoOwners == [a \in Accounts |-> a % 2]

\* Requests and client keys are interchangeable (account ids are ordered).
Interchangeable == Permutations(Requests) \cup Permutations(Keys)
=============================================================================
