------------------------------ MODULE MCHtAuth ------------------------------
(* Model-checking instance of HtAuth.                                      *)
EXTENDS HtAuth, TLC

Symmetry == Permutations(Users) \cup Permutations(Conns) \cup Permutations(Clients)
=============================================================================
