----------------------------- MODULE MCStatement -----------------------------
(***************************************************************************)
(* Statement for TLC.  Postings are interchangeable, and so are readers.   *)
(* Listing and exporting share no state with each other or with receipts:  *)
(* a behaviour has one such request, or receipts only.                     *)
(***************************************************************************)
EXTENDS Statement, TLC

MCLoads ==
  {l \in [Readers -> {"none", "list", "export", "receipt"}] :
     \/ \A q \in Readers : l[q] = "receipt"
     \/ Cardinality({q \in Readers : l[q] # "none"}) = 1}

\* Transfers in both directions and between own accounts, a withdrawal, a grant.
MCMoves == {<<1, 3>>, <<3, 1>>, <<1, 2>>, <<1, 0>>, <<0, 2>>}

MCFilters ==
  {NoFilter, [NoFilter EXCEPT !.from = 2], [NoFilter EXCEPT !.to = 2],
   [NoFilter EXCEPT !.dir = "in"], [NoFilter EXCEPT !.dir = "out"],
   [NoFilter EXCEPT !.from = 2, !.kind = "transfer"]}

Symmetry == Permutations(Writers) \cup Permutations(Readers)
=============================================================================
