----------------------------- MODULE MCHandles -----------------------------
(* Symmetric model values for Handles; see the .cfg files.                *)
EXTENDS Handles, TLC

HandleSymmetry == Permutations(Results) \cup Permutations(Stmts)

=============================================================================
