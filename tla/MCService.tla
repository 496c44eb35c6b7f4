------------------------------ MODULE MCService ------------------------------
(* Instances of Service for TLC. *)
EXTENDS Service, TLC

ServiceSymmetry == Permutations(Connections) \union Permutations(Workers)
=============================================================================
