---------------------------- MODULE MCLifecycle ----------------------------
(* Symmetric model values for ConnectionLifecycle; see the .cfg files.     *)
EXTENDS ConnectionLifecycle, TLC

ConnSymmetry == Permutations(Conns)
=============================================================================
