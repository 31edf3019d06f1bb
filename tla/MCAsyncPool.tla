---------------------------- MODULE MCAsyncPool ----------------------------
(* Symmetric model values for AsyncPool; see the .cfg files.               *)
EXTENDS AsyncPool, TLC

CallSymmetry == Permutations(Calls)
=============================================================================
