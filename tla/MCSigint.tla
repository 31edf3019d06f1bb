------------------------------ MODULE MCSigint ------------------------------
(* Symmetric model values for SigintGuard; see the .cfg files.             *)
EXTENDS SigintGuard, TLC

SignalSymmetry == Permutations(Signals) \cup Permutations(Contexts)
=============================================================================
