--------------------------- MODULE MCIdempotency ---------------------------
(***************************************************************************)
(* Idempotency on a small instance.                                        *)
(***************************************************************************)
EXTENDS Idempotency

\* Every record may outlive its TTL.
MCLapses == RecordStates
=============================================================================
