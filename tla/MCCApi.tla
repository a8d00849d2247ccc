------------------------------- MODULE MCCApi -------------------------------
EXTENDS CApi, TLC

(* Threads and addresses are interchangeable.                              *)
Symmetry == Permutations(Threads) \cup Permutations(Handles) \cup Permutations(Errors)
=============================================================================
