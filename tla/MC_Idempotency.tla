--------------------------- MODULE MC_Idempotency ---------------------------
(***************************************************************************)
(* Idempotency for TLC.  Requests and hashes are interchangeable: nothing  *)
(* in the code orders them.                                                *)
(***************************************************************************)
EXTENDS Idempotency, TLC

Symmetry == Permutations(Requests) \cup Permutations(Hashes)

=============================================================================
