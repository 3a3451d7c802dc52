---------------------------- MODULE MCLBLifecycle ----------------------------
(* LBLifecycle for TLC: a balancer for local traffic too, and one with      *)
(* source nat, sticky connections, an exclusion and a limit.                *)
EXTENDS LBLifecycle

Plain   == [exclude |-> FALSE, limit |-> FALSE, source_based |-> FALSE]
Exclude == [exclude |-> TRUE,  limit |-> FALSE, source_based |-> FALSE]
Limited == [exclude |-> FALSE, limit |-> TRUE,  source_based |-> TRUE]

MCConfigs == {
    [nat |-> FALSE, local |-> TRUE, sticky |-> FALSE, rules |-> <<Plain>>],
    [nat |-> TRUE, local |-> FALSE, sticky |-> TRUE,
     rules |-> <<Exclude, Limited>>]}

(* A restart is a stop and a start: what a mishap during one leads to, it  *)
(* leads to between a stop and a start as well.                            *)
RestartsUndisturbed == restarting => mishaps = 0
============================================================================
