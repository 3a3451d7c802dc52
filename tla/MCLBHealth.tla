----------------------------- MODULE MCLBHealth -----------------------------
(* LBHealth for TLC: a ring of 6 slots, runs of up to two laps. *)
EXTENDS LBHealth
=============================================================================
