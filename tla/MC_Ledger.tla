------------------------------ MODULE MC_Ledger ------------------------------
(***************************************************************************)
(* Ledger for TLC.  Nothing orders the requests or the bodies.             *)
(***************************************************************************)
EXTENDS Ledger, TLC

Symmetry == Permutations(Requests) \cup Permutations(Hashes)

=============================================================================
