----------------------------- MODULE MCLBTiming -----------------------------
(* LBTiming for TLC: short and long times, around the borders of a second, *)
(* of a minute, an hour and a day.                                         *)
EXTENDS LBTiming

T(s, u) == [sec |-> s, usec |-> u]

MCStarts   == {T(1, 0), T(86399, 999999)}
MCMoves    == {T(0, 600000), T(0, 999), T(1, 999500), T(61, 0),
               T(93784, 400000)}
MCSettings == {T(0, 0), T(3, 500000), T(180000, 1)}
=============================================================================
