---------------------------- MODULE MCAuditChain ----------------------------
(***************************************************************************)
(* Instances of AuditChain for TLC: Requests and Deliverables are sets of  *)
(* model values, EventIds of numbers.                                      *)
(***************************************************************************)
EXTENDS AuditChain, TLC

Symmetry == Permutations(Requests) \cup Permutations(Deliverables)
=============================================================================
