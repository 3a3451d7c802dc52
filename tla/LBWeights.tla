------------------------------ MODULE LBWeights ------------------------------
(***************************************************************************)
(* How one load-balancing rule spreads its traffic: the two loops of       *)
(* LBDecision::get_new_weights, then the chain of iptables rules that      *)
(* LBDecision::run writes from their result.  Interfaces are numbered in   *)
(* the order of the maps, by name.                                         *)
(*                                                                         *)
(* A float is the fraction it stands for; group is the int the loops       *)
(* count in, which may become zero or negative in the second loop.         *)
(***************************************************************************)
EXTENDS Integers, FiniteSets

CONSTANTS
    NumIfaces,   \* interfaces of the rule
    Weights,     \* the configured weights explored
    DropBelow    \* an interface with less than 1/DropBelow is left out (100)

Ifaces == 1..NumIfaces

(* An interface that has all the weight that is left is not left out.      *)
ASSUME WeightsAssumption ==
    /\ NumIfaces \in Nat \ {0} /\ Weights \subseteq Nat
    /\ DropBelow \in Nat /\ DropBelow > 1

VARIABLES
    failover,  \* LBRule::_failover
    dist,      \* LBRule::_iface_dist_coll: the configured weights
    active,    \* the interfaces is_active says may be used
    pc,        \* "collect", "normalise" or "done"
    k,         \* the interface the running loop looks at
    group,
    weight,    \* the weights of the first loop
    prob       \* the weights the second loop keeps, as <<num, den>>

config == <<failover, dist, active>>
vars == <<failover, dist, active, pc, k, group, weight, prob>>

TypeOK ==
    /\ failover \in BOOLEAN
    /\ dist \in [Ifaces -> Weights]
    /\ active \subseteq Ifaces
    /\ pc \in {"collect", "normalise", "done"}
    /\ k \in 1..(NumIfaces + 1)
    /\ group \in Int
    /\ weight \in [Ifaces -> Weights \cup {0}]
    /\ DOMAIN prob \subseteq Ifaces
    /\ \A i \in DOMAIN prob : prob[i] \in Nat \X Nat

NoProb == [i \in {} |-> <<0, 1>>]

Init ==
    /\ failover \in BOOLEAN
    /\ dist \in [Ifaces -> Weights]
    /\ active \in SUBSET Ifaces
    /\ pc = "collect" /\ k = 1 /\ group = 0
    /\ weight = [i \in Ifaces |-> 0]
    /\ prob = NoProb

-----------------------------------------------------------------------------
(* Does an active interface of weight w displace the ones before it, and   *)
(* what does it leave in group?  First with the comparison missing, then   *)
(* with everyone winning, and with the assignment missing.                 *)
OutweighsNone(w) == FALSE
OutweighsAll(w)  == TRUE
Outweighs(w)     == w > group
GroupUnset(w)    == group
GroupOf(w)       == w

(* The first loop, for a failover rule: a higher weight zeroes the ones    *)
(* before it, and group is the weight of the last active interface.        *)
CollectFailover ==
    /\ pc = "collect" /\ k <= NumIfaces /\ failover
    /\ IF k \in active
       THEN /\ weight' = [i \in Ifaces |->
                            IF i = k THEN dist[i]
                            ELSE IF Outweighs(dist[k]) THEN 0 ELSE weight[i]]
            /\ group' = GroupOf(dist[k])
       ELSE UNCHANGED <<weight, group>>
    /\ k' = k + 1
    /\ UNCHANGED <<config, pc, prob>>

(* The weight an interface enters a shared rule with, and the slip that    *)
(* forgets its health.                                                     *)
DistOfAny(i) == dist[i]
DistOf(i) == IF i \in active THEN dist[i] ELSE 0

(* The first loop, for a rule that shares its traffic. *)
CollectShare ==
    /\ pc = "collect" /\ k <= NumIfaces /\ ~failover
    /\ weight' = [weight EXCEPT ![k] = DistOf(k)]
    /\ group' = group + DistOf(k)
    /\ k' = k + 1
    /\ UNCHANGED <<config, pc, prob>>

(* Without any weight there is nothing to normalise. *)
Collected ==
    /\ pc = "collect" /\ k > NumIfaces
    /\ pc' = IF group = 0 THEN "done" ELSE "normalise"
    /\ k' = 1
    /\ UNCHANGED <<config, group, weight, prob>>

(* ! (w / g < .01): for g = 0 the float is infinite, for g < 0 negative,   *)
(* and 1/100 itself as a float is less than .01.  The slip keeps too much. *)
KeptAll(w, g) == w > 0
Kept(w, g) == w > 0 /\ (g = 0 \/ (g > 0 /\ w * DropBelow > g))

(* The group left for the interfaces after one of weight w, and without    *)
(* the adjustment.                                                         *)
GroupKept(w) == group
GroupAfter(w) == group - w

(* The second loop: the probability among the interfaces still to come. *)
Normalise ==
    /\ pc = "normalise" /\ k <= NumIfaces
    /\ prob' = IF Kept(weight[k], group)
               THEN [i \in DOMAIN prob \cup {k} |->
                        IF i = k THEN <<weight[k], group>> ELSE prob[i]]
               ELSE prob
    /\ group' = GroupAfter(weight[k])
    /\ k' = k + 1
    /\ UNCHANGED <<config, pc, weight>>

Normalised ==
    /\ pc = "normalise" /\ k > NumIfaces
    /\ pc' = "done"
    /\ UNCHANGED <<config, k, group, weight, prob>>

Next ==
    \/ CollectFailover \/ CollectShare \/ Collected
    \/ Normalise \/ Normalised

Spec == Init /\ [][Next]_vars

-----------------------------------------------------------------------------
(* The rules LBDecision::run writes, in the order of the interfaces kept:  *)
(* all but the last match at random, the last one matches what is left.    *)
Rules ==
    [i \in DOMAIN prob |->
        IF \E j \in DOMAIN prob : j > i THEN prob[i] ELSE <<1, 1>>]

(* The probability, as a fraction, that a packet passes the rules of the   *)
(* first n interfaces.                                                     *)
Passes[n \in 0..NumIfaces] ==
    IF n = 0 THEN <<1, 1>>
    ELSE IF n \in DOMAIN Rules
         THEN <<Passes[n - 1][1] * (Rules[n][2] - Rules[n][1]),
                Passes[n - 1][2] * Rules[n][2]>>
         ELSE Passes[n - 1]

(* ... and that the rule of interface i takes it. *)
Share(i) == <<Passes[i - 1][1] * Rules[i][1], Passes[i - 1][2] * Rules[i][2]>>

Served  == DOMAIN Rules
IsFirst(i) == i \in Served /\ \A j \in Served : i <= j
Usable  == {i \in active : dist[i] > 0}
Part(i) == IF i \in Usable THEN dist[i] ELSE 0

(* What the first n interfaces may carry together. *)
Before[n \in 0..NumIfaces] == IF n = 0 THEN 0 ELSE Before[n - 1] + Part(n)
Total == Before[NumIfaces]

-----------------------------------------------------------------------------
(* The conditional probabilities of the chain give every interface of a    *)
(* shared rule its configured part of the traffic; if small parts were     *)
(* left out, those kept only gain by it.                                   *)
SharesMatchWeights ==
    pc = "done" /\ ~failover =>
        \A i \in Served :
            LET got    == Share(i)[1] * Total
                wanted == dist[i] * Share(i)[2]
            IN  got >= wanted /\ (Served = Usable => got = wanted)

(* Only interfaces that pass their health tests ever appear in the chain.  *)
OnlyActiveServed == pc = "done" => DOMAIN prob \subseteq Usable

(* iptables takes every rule: whatever became of group, a probability that *)
(* is written is positive and at most 1.                                   *)
ProbabilitiesValid ==
    pc = "done" =>
        \A i \in Served : 0 < Rules[i][1] /\ Rules[i][1] <= Rules[i][2]

(* Traffic is not left without a rule while an interface can carry it,     *)
(* provided every interface of a failover rule has a weight.               *)
UsableIsServed ==
    pc = "done" /\ Usable # {} =>
        Served # {} \/ (failover /\ \E i \in Ifaces : dist[i] = 0)

(* All traffic of a failover rule takes one interface at a time: whatever  *)
(* else the loops kept, every rule before the last matches with            *)
(* probability 1.                                                          *)
FailoverIsExclusive ==
    pc = "done" /\ failover =>
        \A i, j \in DOMAIN prob : i < j => prob[i][1] = prob[i][2]

(* With at most two interfaces to choose from it is the one with the       *)
(* higher weight.                                                          *)
TwoWayFailover ==
    pc = "done" /\ failover /\ Cardinality(active) <= 2 =>
        \A f \in Ifaces : IsFirst(f) => \A i \in active : dist[i] <= dist[f]

(* What get_new_weights' comment says (lbdecision.cc:541 "select the       *)
(* active interface that has the highest weight").                         *)
FailoverPicksHighest ==
    pc = "done" /\ failover =>
        \A f \in Ifaces : IsFirst(f) => \A i \in active : dist[i] <= dist[f]
=============================================================================
