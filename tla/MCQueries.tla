------------------------------ MODULE MCQueries ------------------------------
(* Symmetric threads for Queries.                                          *)
EXTENDS Queries, TLC

ThreadSymmetry == Permutations(Threads)
=============================================================================
