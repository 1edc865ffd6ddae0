------------------------------- MODULE MCAudit -------------------------------
(* Model values for the audit publisher: the handlers are interchangeable. *)
EXTENDS Audit, TLC

Symmetry == Permutations(Handlers)
=============================================================================
