----------------------------- MODULE MCLBWeights -----------------------------
(* LBWeights for TLC: three or four interfaces, every weight, every health. *)
EXTENDS LBWeights
=============================================================================
