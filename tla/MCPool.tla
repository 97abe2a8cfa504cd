------------------------------- MODULE MCPool -------------------------------
(* Model-checking instances of Pool: the values are in the cfg files.      *)
EXTENDS Pool, TLC

Symmetry == Permutations(Clients) \cup Permutations(Conns)
=============================================================================
