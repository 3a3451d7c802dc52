------------------------------ MODULE MCLBPaths ------------------------------
(* LBPaths for TLC: two addresses, and two gateways such as 10.0.0.1 and    *)
(* 10.0.0.10, the text of the first within the second.                      *)
EXTENDS LBPaths

CONSTANTS a1, a2, gw1, gw10

MCAddrs == {a1, a2}
MCHops == {gw1, gw10}
MCContained == {<<gw1, gw10>>}
=============================================================================
