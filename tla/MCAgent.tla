------------------------------- MODULE MCAgent -------------------------------
(* Model values for the agent: the workers are interchangeable. *)
EXTENDS Agent, TLC

Symmetry == Permutations(Workers)
=============================================================================
