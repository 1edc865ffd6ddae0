----------------------------- MODULE MCDelivery -----------------------------
(* Model values for the delivery: the workers are interchangeable. *)
EXTENDS Delivery, TLC

Symmetry == Permutations(Workers)
=============================================================================
