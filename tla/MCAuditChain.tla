---------------------------- MODULE MCAuditChain ----------------------------
(* Values for TLC: interchangeable writers and event bodies. *)
EXTENDS AuditChain, TLC

CONSTANTS w1, w2, b1, b2, none

Symmetry == Permutations(Writers) \cup Permutations(Bodies)
=============================================================================
