---------------------------- MODULE MCAutoReview ----------------------------
(* Values for TLC: scores on both sides of a gate and of every threshold. *)
EXTENDS AutoReview

CONSTANT none
=============================================================================
