--------------------------- MODULE LBWeightsProofs ---------------------------
(***************************************************************************)
(* Proofs about LBWeights, for any number of interfaces and any weights.   *)
(* That a failover rule uses one interface follows from one fact about     *)
(* each loop: after the first, no positive weight is below group; in the   *)
(* second, group is positive until an interface is kept, and zero          *)
(* afterwards only if that interface has probability 1.                    *)
(*                                                                         *)
(* In a shared rule group is the sum of the weights so far in the first    *)
(* loop, and of those from k on in the second.  Multiplying out the rules  *)
(* up to k therefore leaves no more than that sum over the sum of all for  *)
(* the rest, and exactly that if no interface was left out.                *)
(***************************************************************************)
EXTENDS LBWeights, NatLemmas, TLAPS

WeightsType ==
    /\ dist \in [Ifaces -> Weights]
    /\ active \subseteq Ifaces
    /\ failover \in BOOLEAN
    /\ k \in 1..(NumIfaces + 1)
    /\ group \in Int
    /\ weight \in [Ifaces -> Nat]

(* A weight of its own has only an active interface, its configured one. *)
ActiveInv ==
    /\ \A i \in Ifaces : weight[i] > 0 => i \in active /\ weight[i] = dist[i]
    /\ \A i \in DOMAIN prob : i \in Ifaces /\ weight[i] > 0

Exclusive(p) == \A i, j \in DOMAIN p : i < j => p[i][1] = p[i][2]
Certain(p)   == \A i \in DOMAIN p : p[i][1] = p[i][2]

CollectInv ==
    pc = "collect" =>
        /\ DOMAIN prob = {}
        /\ failover => /\ group >= 0
                       /\ \A i \in Ifaces : weight[i] > 0 => weight[i] >= group

NormaliseInv ==
    pc # "collect" =>
        /\ \A i \in DOMAIN prob : i < k \/ pc = "done"
        /\ failover =>
            \/ /\ group > 0 /\ DOMAIN prob = {}
               /\ \A i \in Ifaces : weight[i] > 0 => weight[i] >= group
            \/ group = 0 /\ Certain(prob)
            \/ group < 0 /\ Exclusive(prob)

IInv == WeightsType /\ ActiveInv /\ CollectInv /\ NormaliseInv

-----------------------------------------------------------------------------
(* The invariant holds when the program starts. *)
LEMMA InitInv == Init => IInv
<1> SUFFICES ASSUME Init PROVE IInv
  OBVIOUS
<1>1. WeightsType
  BY WeightsAssumption DEF Init, WeightsType
<1>2. /\ pc = "collect" /\ DOMAIN prob = {} /\ group = 0
      /\ \A i \in Ifaces : weight[i] = 0
  BY DEF Init, NoProb
<1> QED BY <1>1, <1>2 DEF IInv, ActiveInv, CollectInv, NormaliseInv

(* An index within the loops is an interface, and has a configured weight. *)
LEMMA IndexLemma ==
  ASSUME WeightsType, k <= NumIfaces PROVE k \in Ifaces /\ dist[k] \in Nat
<1>1. k \in Ifaces
  BY WeightsAssumption DEF WeightsType, Ifaces
<1>2. dist[k] \in Weights
  BY <1>1 DEF WeightsType
<1> QED BY <1>1, <1>2, WeightsAssumption

(* One round of the first loop, for a failover rule. *)
LEMMA CollectFailoverInv == ASSUME IInv, CollectFailover PROVE IInv'
<1> USE DEF IInv
<1>1. /\ pc = "collect" /\ pc' = "collect" /\ k <= NumIfaces /\ k' = k + 1
      /\ UNCHANGED <<failover, dist, active, prob>> /\ failover
  BY DEF CollectFailover, config
<1>4. k \in Ifaces /\ dist[k] \in Nat
  BY <1>1, IndexLemma
<1>2. CASE k \notin active
  <2>1. UNCHANGED <<weight, group>>
    BY <1>2 DEF CollectFailover
  <2>2. WeightsType'
    BY <1>1, <1>4, <2>1, WeightsAssumption DEF WeightsType
  <2>3. ActiveInv' /\ CollectInv' /\ NormaliseInv'
    BY <1>1, <1>4, <2>1 DEF ActiveInv, CollectInv, NormaliseInv
  <2> QED BY <2>2, <2>3
<1>3. CASE k \in active
  <2>1. /\ weight' = [i \in Ifaces |->
                        IF i = k THEN dist[i]
                        ELSE IF dist[k] > group THEN 0 ELSE weight[i]]
        /\ group' = dist[k]
    BY <1>3 DEF CollectFailover, Outweighs, GroupOf
  <2>2. WeightsType'
    BY <1>1, <1>4, <2>1, WeightsAssumption DEF WeightsType
  <2>3. ActiveInv'
    BY <1>1, <1>4, <1>3, <2>1 DEF ActiveInv, CollectInv, WeightsType
  <2>4. \A i \in Ifaces : weight'[i] > 0 => weight'[i] >= group'
    BY <1>1, <1>4, <2>1 DEF CollectInv, WeightsType
  <2> QED BY <1>1, <1>4, <2>1, <2>2, <2>3, <2>4 DEF CollectInv, NormaliseInv
<1> QED BY <1>2, <1>3

(* One round of the first loop, for a shared rule. *)
LEMMA CollectShareInv == ASSUME IInv, CollectShare PROVE IInv'
<1> USE DEF IInv
<1>1. /\ pc = "collect" /\ pc' = "collect" /\ k <= NumIfaces /\ k' = k + 1
      /\ UNCHANGED <<failover, dist, active, prob>> /\ ~failover
      /\ weight' = [weight EXCEPT ![k] = DistOf(k)]
      /\ group' = group + DistOf(k)
  BY DEF CollectShare, config
<1>4. k \in Ifaces /\ dist[k] \in Nat
  BY <1>1, IndexLemma
<1>2. WeightsType'
  BY <1>1, <1>4, WeightsAssumption DEF WeightsType, DistOf
<1>3. ActiveInv'
  BY <1>1, <1>4 DEF ActiveInv, CollectInv, WeightsType, DistOf
<1> QED BY <1>1, <1>4, <1>2, <1>3 DEF CollectInv, NormaliseInv

(* Between the loops: a group of zero ends the computation. *)
LEMMA CollectedInv == ASSUME IInv, Collected PROVE IInv'
<1> USE DEF IInv
<1>1. /\ pc = "collect" /\ pc' # "collect" /\ k' = 1
      /\ UNCHANGED <<failover, dist, active, group, weight, prob>>
  BY DEF Collected, config
<1>2. WeightsType' /\ ActiveInv'
  BY <1>1, WeightsAssumption DEF WeightsType, ActiveInv
<1>3. NormaliseInv'
  BY <1>1 DEF CollectInv, NormaliseInv, Certain, WeightsType
<1> QED BY <1>1, <1>2, <1>3 DEF CollectInv

(* One round of the second loop. *)
LEMMA NormaliseStepInv == ASSUME IInv, Normalise PROVE IInv'
<1> USE DEF IInv
<1>1. /\ pc = "normalise" /\ pc' = "normalise" /\ k \in Ifaces /\ k' = k + 1
      /\ UNCHANGED <<failover, dist, active, weight>>
      /\ group' = group - weight[k] /\ weight[k] \in Nat
      /\ \A i \in DOMAIN prob : i < k /\ i \in Ifaces
  BY WeightsAssumption DEF Normalise, config, WeightsType, Ifaces, GroupAfter,
     NormaliseInv, ActiveInv
<1>2. WeightsType'
  BY <1>1, WeightsAssumption DEF WeightsType, Ifaces
<1>3. CASE ~Kept(weight[k], group)
  <2>1. prob' = prob
    BY <1>3 DEF Normalise
  <2>2. ActiveInv'
    BY <1>1, <2>1 DEF ActiveInv
  <2>3. \A i \in DOMAIN prob : i < k'
    BY <1>1 DEF Ifaces
  <2>4. ASSUME failover
        PROVE  \/ /\ group' > 0 /\ DOMAIN prob = {}
                  /\ \A i \in Ifaces : weight[i] > 0 => weight[i] >= group'
               \/ group' = 0 /\ Certain(prob)
               \/ group' < 0 /\ Exclusive(prob)
    <3>1. Certain(prob) => Exclusive(prob)
      BY DEF Certain, Exclusive
    <3>2. DOMAIN prob = {} => Certain(prob)
      BY DEF Certain
    <3> QED BY <1>1, <2>4, <3>1, <3>2 DEF NormaliseInv, WeightsType
  <2> QED BY <1>1, <1>2, <2>1, <2>2, <2>3, <2>4 DEF CollectInv, NormaliseInv
<1>4. CASE Kept(weight[k], group)
  <2>1. /\ prob' = [i \in DOMAIN prob \cup {k} |->
                      IF i = k THEN <<weight[k], group>> ELSE prob[i]]
        /\ weight[k] > 0 /\ group >= 0
    BY <1>1, <1>4 DEF Normalise, Kept, WeightsType
  <2>2. /\ DOMAIN prob' = DOMAIN prob \cup {k}
        /\ prob'[k] = <<weight[k], group>>
        /\ \A i \in DOMAIN prob : prob'[i] = prob[i]
    BY <1>1, <2>1 DEF Ifaces
  <2>3. ActiveInv'
    BY <1>1, <2>1, <2>2 DEF ActiveInv
  <2>4. \A i \in DOMAIN prob' : i < k'
    BY <1>1, <2>2 DEF Ifaces
  <2>5. ASSUME failover, group > 0
        PROVE  \/ group' = 0 /\ Certain(prob')
               \/ group' < 0 /\ Exclusive(prob')
    <3>4. /\ DOMAIN prob = {}
          /\ \A i \in Ifaces : weight[i] > 0 => weight[i] >= group
      <4>1. group # 0 /\ ~(group < 0)
        BY <2>5 DEF WeightsType
      <4> QED BY <1>1, <2>5, <4>1 DEF NormaliseInv
    <3>1. DOMAIN prob' = {k} /\ weight[k] >= group
      BY <1>1, <2>1, <2>2, <3>4
    <3>2. Exclusive(prob')
      BY <1>1, <3>1 DEF Exclusive, Ifaces
    <3>3. group' = 0 => Certain(prob')
      BY <1>1, <2>2, <3>1, <2>5 DEF Certain, WeightsType
    <3> QED BY <1>1, <3>1, <3>2, <3>3 DEF WeightsType
  <2>6. ASSUME failover, group = 0
        PROVE  group' < 0 /\ Exclusive(prob')
    <3>1. Certain(prob)
      BY <1>1, <2>6 DEF NormaliseInv
    <3>2. \A i, j \in DOMAIN prob' : i < j => i \in DOMAIN prob
      BY <1>1, <2>2 DEF Ifaces
    <3> QED BY <1>1, <2>1, <2>2, <2>6, <3>1, <3>2 DEF Certain, Exclusive
  <2>7. group > 0 \/ group = 0
    BY <2>1 DEF WeightsType
  <2> QED BY <1>1, <1>2, <2>3, <2>4, <2>5, <2>6, <2>7
          DEF CollectInv, NormaliseInv
<1> QED BY <1>3, <1>4

(* The end of the second loop. *)
LEMMA NormalisedInv == ASSUME IInv, Normalised PROVE IInv'
<1> USE DEF IInv
<1>1. /\ pc = "normalise" /\ pc' = "done"
      /\ UNCHANGED <<failover, dist, active, k, group, weight, prob>>
  BY DEF Normalised, config
<1> QED BY <1>1 DEF WeightsType, ActiveInv, CollectInv, NormaliseInv, Certain,
                    Exclusive

(* A step that changes nothing. *)
LEMMA StutterInv == ASSUME IInv, UNCHANGED vars PROVE IInv'
BY DEF IInv, vars, config, WeightsType, ActiveInv, CollectInv, NormaliseInv,
       Certain, Exclusive

(* Every step keeps the invariant. *)
LEMMA NextInv == IInv /\ [Next]_vars => IInv'
BY CollectFailoverInv, CollectShareInv, CollectedInv, NormaliseStepInv,
   NormalisedInv, StutterInv DEF Next

(* The inductive invariant holds in every reachable state. *)
THEOREM Invariance == Spec => []IInv
BY InitInv, NextInv, PTL DEF Spec

-----------------------------------------------------------------------------
(* No rule ever sends traffic to an interface that is not active. *)
THEOREM OnlyActiveTheorem == Spec => []OnlyActiveServed
<1>1. IInv => OnlyActiveServed
  BY DEF IInv, ActiveInv, OnlyActiveServed, Usable
<1> QED BY <1>1, Invariance, PTL

(* The traffic of a failover rule is never split. *)
THEOREM ExclusiveTheorem == Spec => []FailoverIsExclusive
<1>1. IInv => FailoverIsExclusive
  <2> SUFFICES ASSUME IInv, pc = "done", failover PROVE Exclusive(prob)
    BY DEF FailoverIsExclusive, Exclusive
  <2>1. \/ DOMAIN prob = {} \/ Certain(prob) \/ Exclusive(prob)
    BY DEF IInv, NormaliseInv
  <2> QED BY <2>1 DEF Certain, Exclusive
<1> QED BY <1>1, Invariance, PTL

-----------------------------------------------------------------------------
(* What the first n interfaces may carry: Before is defined for all n. *)
LEMMA PartType == ASSUME WeightsType PROVE \A i \in Ifaces : Part(i) \in Nat
BY WeightsAssumption DEF WeightsType, Part

LEMMA BeforeDef ==
    ASSUME WeightsType
    PROVE  /\ Before \in [0..NumIfaces -> Nat]
           /\ Before[0] = 0
           /\ \A n \in Ifaces : Before[n] = Before[n - 1] + Part(n)
<1> DEFINE P(f) == f = [n \in 0..NumIfaces |->
                          IF n = 0 THEN 0 ELSE f[n - 1] + Part(n)]
           step == [x \in Ifaces \X Nat |-> x[2] + Part(x[1])]
<1>1. NumIfaces \in Nat
  BY WeightsAssumption
<1>2. step \in [Ifaces \X Nat -> Nat]
  BY PartType
<1>3. PICK f \in [0..NumIfaces -> Nat] :
          f = [n \in 0..NumIfaces |-> IF n = 0 THEN 0 ELSE step[<<n, f[n - 1]>>]]
  <2> HIDE DEF step
  <2>1. PICK f : f \in StepwiseTo(NumIfaces, Nat, 0, step)
    BY <1>1, <1>2, RecursionTo DEF Ifaces
  <2> QED BY <2>1 DEF StepwiseTo
<1>4. P(f)
  <2>1. \A n \in 1..NumIfaces : step[<<n, f[n - 1]>>] = f[n - 1] + Part(n)
    <3>1. \A n \in 1..NumIfaces : n - 1 \in 0..NumIfaces /\ f[n - 1] \in Nat
      BY <1>1
    <3> QED BY <3>1 DEF Ifaces
  <2>2. \A n \in 0..NumIfaces : n = 0 \/ n \in 1..NumIfaces
    BY <1>1
  <2> HIDE DEF step
  <2> QED BY <1>3, <2>1, <2>2
<1>5. P(Before)
  <2>1. Before = CHOOSE g : P(g)
    BY DEF Before
  <2> HIDE DEF P
  <2> QED BY <1>4, <2>1
<1>6. ASSUME NEW g, P(g)
      PROVE  g[0] = 0 /\ \A n \in 1..NumIfaces : g[n] = g[n - 1] + Part(n)
  BY <1>1, <1>6
<1>7. Before \in [0..NumIfaces -> Nat]
  <2> DEFINE S == {n \in Nat : n <= NumIfaces => Before[n] \in Nat}
  <2>1. 0 \in S
    BY <1>5, <1>6
  <2>2. ASSUME NEW n \in Nat, n \in S PROVE n + 1 \in S
    <3> SUFFICES ASSUME n + 1 <= NumIfaces PROVE Before[n + 1] \in Nat
      OBVIOUS
    <3>1. n + 1 \in 1..NumIfaces /\ (n + 1) - 1 = n /\ Before[n] \in Nat
      BY <1>1, <2>2
    <3>2. Before[n + 1] = Before[n] + Part(n + 1)
      BY <1>5, <1>6, <3>1
    <3>3. Part(n + 1) \in Nat
      BY <3>1, PartType DEF Ifaces
    <3> QED BY <3>1, <3>2, <3>3
  <2> HIDE DEF S
  <2>3. Nat \subseteq S
    BY <2>1, <2>2, InductNat
  <2>4. \A n \in 0..NumIfaces : Before[n] \in Nat
    BY <1>1, <2>3 DEF S
  <2> QED BY <1>5, <2>4
<1> QED BY <1>5, <1>6, <1>7 DEF Ifaces

-----------------------------------------------------------------------------
(* What the loops compute.  In a shared rule group is what the interfaces  *)
(* from i on may carry when the second loop reaches i, and the interfaces  *)
(* kept are those that are no negligible part of it.                       *)
Left(i) == Total - Before[i - 1]

Normal(n) ==
    \A i \in Ifaces :
        /\ i \in DOMAIN prob <=> i < n /\ Kept(Part(i), Left(i))
        /\ i \in DOMAIN prob => prob[i] = <<Part(i), Left(i)>>

ShareInv ==
    ~failover =>
        /\ pc = "collect" =>
              /\ group = Before[k - 1]
              /\ \A i \in Ifaces : weight[i] = IF i < k THEN Part(i) ELSE 0
        /\ pc # "collect" => \A i \in Ifaces : weight[i] = Part(i)
        /\ pc = "normalise" => group = Total - Before[k - 1] /\ Normal(k)
        /\ pc = "done" => \/ Total = 0 /\ DOMAIN prob = {}
                          \/ Normal(NumIfaces + 1)

(* In a failover rule group is the weight of the last active interface     *)
(* seen, and of two active interfaces the first is left out if the second  *)
(* has more weight.                                                        *)
Seen == {i \in active : i < k}

FirstLoop ==
    failover /\ pc = "collect" =>
        /\ Seen = {} => group = 0
        /\ \A b \in Seen : (\A j \in Seen : j <= b) =>
              group = dist[b] /\ weight[b] = dist[b]
        /\ \A a, b \in Seen : a < b /\ Seen = {a, b} =>
              weight[a] = IF dist[b] > dist[a] THEN 0 ELSE dist[a]

Weighted == \A i \in Ifaces : dist[i] > 0

SecondLoop ==
    failover /\ pc # "collect" =>
        /\ Weighted /\ active # {} =>
              \/ DOMAIN prob # {}
              \/ /\ pc = "normalise" /\ group > 0
                 /\ \E i \in Ifaces : i >= k /\ weight[i] > 0
        /\ \A a, b \in active : active = {a, b} /\ a <= b =>
              IF dist[b] > dist[a] THEN weight[a] = 0
              ELSE \/ a \in DOMAIN prob
                   \/ pc = "done" /\ DOMAIN prob = {}
                   \/ /\ pc = "normalise" /\ k <= a
                      /\ group = dist[b] /\ group > 0 /\ weight[a] = dist[a]

PartsInv == ShareInv /\ FirstLoop /\ SecondLoop

(* No step changes the configuration, so what may be carried is fixed. *)
LEMMA PartsFixed ==
    ASSUME UNCHANGED config
    PROVE  Before' = Before /\ Total' = Total /\ \A i \in Ifaces : Part(i)' = Part(i)
<1>1. \A i : Part(i)' = Part(i)
  BY DEF config, Part, Usable
<1>2. Before' = Before
  BY <1>1 DEF Before
<1> QED BY <1>1, <1>2 DEF Total

(* The interfaces after n add to what those up to n may carry; they add    *)
(* nothing only if none of them is usable.                                 *)
LEMMA BeforeGrows ==
    ASSUME WeightsType, NEW m \in 0..NumIfaces, NEW n \in 0..NumIfaces, m <= n
    PROVE  /\ Before[m] <= Before[n]
           /\ (\A i \in Ifaces : i > m /\ i <= n => Part(i) = 0) =>
                 Before[m] = Before[n]
<1>0. NumIfaces \in Nat /\ m \in Nat /\ n \in Nat
  BY WeightsAssumption
<1> DEFINE none(l) == \A i \in Ifaces : i > m /\ i <= l => Part(i) = 0
           S == {l \in Nat : m <= l /\ l <= NumIfaces =>
                    Before[m] <= Before[l] /\ (none(l) => Before[m] = Before[l])}
<1>1. \A l \in 0..NumIfaces : Before[l] \in Nat
  BY BeforeDef
<1>2. 0 \in S
  <2>1. m <= 0 => m = 0
    BY <1>0
  <2> QED BY <1>0, <1>1, <2>1
<1>3. ASSUME NEW l \in Nat, l \in S PROVE l + 1 \in S
  <2> SUFFICES ASSUME m <= l + 1, l + 1 <= NumIfaces
               PROVE  /\ Before[m] <= Before[l + 1]
                      /\ none(l + 1) => Before[m] = Before[l + 1]
    OBVIOUS
  <2>1. CASE m = l + 1
    BY <1>0, <1>1, <2>1
  <2>2. CASE m # l + 1
    <3>1. m <= l /\ l \in 0..NumIfaces /\ l + 1 \in 0..NumIfaces /\ l + 1 \in Ifaces
          /\ (l + 1) - 1 = l /\ l + 1 > m
      BY <1>0, <2>2 DEF Ifaces
    <3>2. Before[m] <= Before[l] /\ (none(l) => Before[m] = Before[l])
      BY <1>0, <1>3, <3>1
    <3>3. Before[l + 1] = Before[l] + Part(l + 1) /\ Part(l + 1) \in Nat
      BY <3>1, BeforeDef, PartType
    <3>4. Before[m] \in Nat /\ Before[l] \in Nat
      BY <1>1, <3>1
    <3>5. none(l + 1) => none(l) /\ Part(l + 1) = 0
      BY <3>1 DEF Ifaces
    <3> HIDE DEF none
    <3> QED BY <3>2, <3>3, <3>4, <3>5
  <2> QED BY <2>1, <2>2
<1> HIDE DEF S
<1>4. Nat \subseteq S
  BY <1>2, <1>3, InductNat
<1> QED BY <1>0, <1>4 DEF S

(* What is left when the second loop reaches i contains the part of i. *)
LEMMA LeftBound ==
    ASSUME WeightsType, NEW i \in Ifaces
    PROVE  /\ Left(i) \in Nat /\ Part(i) \in Nat /\ Part(i) <= Left(i)
           /\ Total - Before[i] = Left(i) - Part(i)
<1>1. /\ i \in Nat /\ i - 1 \in 0..NumIfaces /\ i \in 0..NumIfaces
      /\ NumIfaces \in 0..NumIfaces /\ i <= NumIfaces
  BY WeightsAssumption DEF Ifaces
<1>2. Before[i] <= Before[NumIfaces] /\ Before[i] = Before[i - 1] + Part(i)
      /\ Before[i] \in Nat /\ Before[i - 1] \in Nat /\ Before[NumIfaces] \in Nat
  BY <1>1, BeforeGrows, BeforeDef
<1>3. Part(i) \in Nat
  BY PartType
<1> QED BY <1>2, <1>3 DEF Left, Total

-----------------------------------------------------------------------------
(* A shared rule: the loops add up, and then count down, the parts. *)
LEMMA InitShare == Init => ShareInv
<1> SUFFICES ASSUME Init PROVE ShareInv
  OBVIOUS
<1>1. WeightsType
  BY InitInv DEF IInv
<1>2. k = 1 /\ group = 0 /\ pc = "collect"
      /\ (\A i \in Ifaces : weight[i] = 0) /\ (\A i \in Ifaces : ~(i < k))
  BY DEF Init, Ifaces
<1>3. Before[0] = 0 /\ k - 1 = 0
  BY <1>1, <1>2, BeforeDef
<1> QED BY <1>2, <1>3 DEF ShareInv

LEMMA CollectShareShare ==
    ASSUME IInv, ShareInv, CollectShare PROVE ShareInv'
<1>1. /\ pc = "collect" /\ pc' = "collect" /\ k <= NumIfaces /\ k' = k + 1
      /\ UNCHANGED config /\ ~failover /\ failover' = failover
      /\ weight' = [weight EXCEPT ![k] = DistOf(k)]
      /\ group' = group + DistOf(k)
  BY DEF CollectShare, config
<1>2. WeightsType /\ k \in Ifaces /\ dist[k] \in Nat /\ weight \in [Ifaces -> Nat]
      /\ k \in Nat
  BY <1>1, IndexLemma DEF IInv, WeightsType, Ifaces
<1>3. DistOf(k) = Part(k)
  BY <1>2 DEF DistOf, Part, Usable
<1>4. Before' = Before /\ \A i \in Ifaces : Part(i)' = Part(i)
  BY <1>1, PartsFixed
<1>5. group' = Before'[k' - 1]
  <2>1. Before[k] = Before[k - 1] + Part(k) /\ k' - 1 = k
    BY <1>1, <1>2, BeforeDef
  <2> QED BY <1>1, <1>3, <1>4, <2>1 DEF ShareInv
<1>6. ASSUME NEW i \in Ifaces PROVE weight'[i] = IF i < k' THEN Part(i) ELSE 0
  <2>1. CASE i = k
    BY <1>1, <1>2, <1>3, <2>1
  <2>2. CASE i # k
    <3>1. (i < k') = (i < k)
      BY <1>1, <1>2, <2>2 DEF Ifaces
    <3> QED BY <1>1, <1>2, <2>2, <3>1 DEF ShareInv
  <2> QED BY <2>1, <2>2
<1> QED BY <1>1, <1>4, <1>5, <1>6 DEF ShareInv

LEMMA CollectedShare ==
    ASSUME IInv, ShareInv, Collected PROVE ShareInv'
<1> SUFFICES ASSUME ~failover PROVE ShareInv'
  BY DEF Collected, config, ShareInv
<1>1. /\ pc = "collect" /\ pc' = (IF group = 0 THEN "done" ELSE "normalise")
      /\ k > NumIfaces /\ k' = 1 /\ UNCHANGED config
      /\ UNCHANGED <<group, weight, prob>>
  BY DEF Collected
<1>2. WeightsType /\ NumIfaces \in Nat /\ k = NumIfaces + 1 /\ DOMAIN prob = {}
  BY <1>1, WeightsAssumption DEF IInv, WeightsType, CollectInv
<1>3. Before' = Before /\ Total' = Total /\ \A i \in Ifaces : Part(i)' = Part(i)
  BY <1>1, PartsFixed
<1>4. group = Total /\ Before[0] = 0 /\ Total \in Nat
  <2>1. k - 1 = NumIfaces
    BY <1>2
  <2>2. NumIfaces \in 0..NumIfaces
    BY <1>2
  <2> QED BY <1>1, <1>2, <2>1, <2>2, BeforeDef DEF ShareInv, Total
<1>5. \A i \in Ifaces : weight'[i] = Part(i)'
  <2>1. \A i \in Ifaces : i < k
    BY <1>2 DEF Ifaces
  <2> QED BY <1>1, <1>3, <2>1 DEF ShareInv
<1>6. Normal(k)'
  <2>1. \A i \in Ifaces : ~(i < k') /\ i \notin DOMAIN prob'
    BY <1>1, <1>2 DEF Ifaces
  <2> QED BY <2>1 DEF Normal
<1>7. group' = Total' - Before'[k' - 1]
  BY <1>1, <1>3, <1>4
<1>8. pc' = "done" => Total' = 0 /\ DOMAIN prob' = {}
  BY <1>1, <1>2, <1>3, <1>4
<1> QED BY <1>1, <1>5, <1>6, <1>7, <1>8 DEF ShareInv

LEMMA NormaliseShare ==
    ASSUME IInv, ShareInv, Normalise PROVE ShareInv'
<1> SUFFICES ASSUME ~failover PROVE ShareInv'
  BY DEF Normalise, config, ShareInv
<1>1. /\ pc = "normalise" /\ pc' = "normalise" /\ k <= NumIfaces /\ k' = k + 1
      /\ UNCHANGED config /\ weight' = weight /\ group' = group - weight[k]
  BY DEF Normalise, GroupAfter
<1>2. WeightsType /\ k \in Ifaces /\ k \in Nat
  BY <1>1, IndexLemma DEF IInv, WeightsType, Ifaces
<1>3. Before' = Before /\ Total' = Total /\ \A i \in Ifaces : Part(i)' = Part(i)
  BY <1>1, PartsFixed
<1>4. weight[k] = Part(k) /\ group = Left(k) /\ Normal(k)
  BY <1>1, <1>2 DEF ShareInv, Left
<1>5. group' = Total' - Before'[k' - 1]
  <2>1. Total - Before[k] = Left(k) - Part(k) /\ k' - 1 = k
    BY <1>1, <1>2, LeftBound
  <2> QED BY <1>1, <1>3, <1>4, <2>1
<1>6. \A i \in Ifaces : Left(i)' = Left(i)
  BY <1>3 DEF Left
<1>7. ASSUME NEW i \in Ifaces
      PROVE  /\ i \in DOMAIN prob' <=> i < k' /\ Kept(Part(i), Left(i))
             /\ i \in DOMAIN prob' => prob'[i] = <<Part(i), Left(i)>>
  <2>1. CASE i = k
    <3>1. i < k' /\ i \notin DOMAIN prob
      BY <1>1, <1>2, <1>4, <2>1 DEF Normal
    <3> QED BY <1>4, <2>1, <3>1 DEF Normalise
  <2>2. CASE i # k
    <3>1. (i < k') = (i < k)
      BY <1>1, <1>2, <2>2 DEF Ifaces
    <3>2. (i \in DOMAIN prob') = (i \in DOMAIN prob)
          /\ (i \in DOMAIN prob => prob'[i] = prob[i])
      BY <2>2 DEF Normalise
    <3> QED BY <1>4, <3>1, <3>2 DEF Normal
  <2> QED BY <2>1, <2>2
<1>8. Normal(k)'
  BY <1>3, <1>6, <1>7 DEF Normal, Kept
<1> QED BY <1>1, <1>3, <1>5, <1>8 DEF ShareInv

LEMMA NormalisedShare ==
    ASSUME IInv, ShareInv, Normalised PROVE ShareInv'
<1> SUFFICES ASSUME ~failover PROVE ShareInv'
  BY DEF Normalised, config, ShareInv
<1>1. /\ pc = "normalise" /\ pc' = "done" /\ k > NumIfaces
      /\ UNCHANGED config /\ UNCHANGED <<weight, prob>>
  BY DEF Normalised
<1>2. k = NumIfaces + 1
  BY <1>1, WeightsAssumption DEF IInv, WeightsType
<1>3. Before' = Before /\ Total' = Total /\ \A i \in Ifaces : Part(i)' = Part(i)
  BY <1>1, PartsFixed
<1>4. Normal(NumIfaces + 1)'
  BY <1>1, <1>2, <1>3 DEF ShareInv, Normal, Left, Kept
<1> QED BY <1>1, <1>3, <1>4 DEF ShareInv

LEMMA StutterShare ==
    ASSUME ShareInv, UNCHANGED vars PROVE ShareInv'
<1>1. UNCHANGED config /\ UNCHANGED <<failover, pc, k, group, weight, prob>>
  BY DEF vars, config
<1>2. Before' = Before /\ Total' = Total /\ \A i \in Ifaces : Part(i)' = Part(i)
  BY <1>1, PartsFixed
<1>3. Normal(k)' = Normal(k) /\ Normal(NumIfaces + 1)' = Normal(NumIfaces + 1)
  BY <1>1, <1>2 DEF Normal, Left, Kept
<1> QED BY <1>1, <1>2, <1>3 DEF ShareInv

LEMMA NextShare == IInv /\ ShareInv /\ [Next]_vars => ShareInv'
<1> SUFFICES ASSUME IInv, ShareInv, [Next]_vars PROVE ShareInv'
  OBVIOUS
<1>1. CASE CollectFailover
  BY <1>1 DEF CollectFailover, config, ShareInv
<1> QED BY <1>1, CollectShareShare, CollectedShare, NormaliseShare,
           NormalisedShare, StutterShare DEF Next

-----------------------------------------------------------------------------
(* A failover rule: what the first loop makes of the active interfaces. *)
LEMMA CollectFailoverFirst ==
    ASSUME IInv, FirstLoop, CollectFailover PROVE FirstLoop'
<1>1. /\ pc = "collect" /\ pc' = "collect" /\ k' = k + 1 /\ k \in Ifaces
      /\ failover /\ UNCHANGED <<dist, active>> /\ k \in Nat
      /\ active \subseteq Ifaces /\ Ifaces \subseteq Nat
      /\ weight \in [Ifaces -> Nat] /\ dist[k] \in Nat
  <2>1. k \in Ifaces /\ dist[k] \in Nat
    BY IndexLemma DEF CollectFailover, IInv
  <2> QED BY <2>1 DEF CollectFailover, config, IInv, WeightsType, Ifaces
<1>2. CASE k \notin active
  <2>1. UNCHANGED <<weight, group>>
    BY <1>2 DEF CollectFailover
  <2>2. \A i \in active : (i < k') = (i < k)
    BY <1>1, <1>2
  <2>3. Seen' = Seen
    BY <1>1, <2>2 DEF Seen
  <2> QED BY <1>1, <2>1, <2>3 DEF FirstLoop
<1>3. CASE k \in active
  <2>1. Seen' = Seen \cup {k} /\ \A j \in Seen : j < k
    <3>1. \A i \in active : (i < k') = (i < k \/ i = k)
      BY <1>1
    <3> QED BY <1>1, <1>3, <3>1 DEF Seen
  <2>2. group' = dist[k] /\ weight'[k] = dist[k]
        /\ \A i \in Ifaces \ {k} :
              weight'[i] = IF dist[k] > group THEN 0 ELSE weight[i]
    BY <1>1, <1>3 DEF CollectFailover, Outweighs, GroupOf
  <2>3. ASSUME NEW b \in Seen', \A j \in Seen' : j <= b
        PROVE  b = k
    BY <1>1, <2>1, <2>3 DEF Seen
  <2>4. ASSUME NEW a \in Seen', NEW b \in Seen', a < b, Seen' = {a, b}
        PROVE  weight'[a] = IF dist[b] > dist[a] THEN 0 ELSE dist[a]
    <3>1. b = k /\ a \in Seen /\ a # k /\ a \in Ifaces
      BY <1>1, <2>1, <2>4 DEF Seen
    <3>2. \A j \in Seen : j <= a
      BY <1>1, <2>1, <2>4, <3>1 DEF Seen
    <3>3. group = dist[a] /\ weight[a] = dist[a]
      BY <1>1, <3>1, <3>2 DEF FirstLoop
    <3> QED BY <2>2, <3>1, <3>3
  <2> QED BY <1>1, <2>1, <2>2, <2>3, <2>4 DEF FirstLoop
<1> QED BY <1>2, <1>3

LEMMA NextFirst == IInv /\ FirstLoop /\ [Next]_vars => FirstLoop'
<1> SUFFICES ASSUME IInv, FirstLoop, [Next]_vars PROVE FirstLoop'
  OBVIOUS
<1>1. CASE CollectShare
  BY <1>1 DEF CollectShare, config, FirstLoop
<1>2. CASE Collected \/ Normalise \/ Normalised
  <2>1. pc' # "collect"
    BY <1>2 DEF Collected, Normalise, Normalised
  <2> QED BY <2>1 DEF FirstLoop
<1>3. CASE UNCHANGED vars
  BY <1>3 DEF vars, config, FirstLoop, Seen
<1> QED BY <1>1, <1>2, <1>3, CollectFailoverFirst DEF Next

(* ... and how the second loop goes on from there. *)
LEMMA CollectedSecond ==
    ASSUME IInv, FirstLoop, Collected PROVE SecondLoop'
<1> SUFFICES ASSUME failover PROVE SecondLoop'
  BY DEF Collected, config, SecondLoop
<1>1. /\ pc = "collect" /\ pc' = (IF group = 0 THEN "done" ELSE "normalise")
      /\ k > NumIfaces /\ k' = 1
      /\ UNCHANGED <<failover, dist, active, group, weight, prob>>
  BY DEF Collected, config
<1>2. /\ DOMAIN prob = {} /\ group >= 0 /\ group \in Int /\ active \subseteq Ifaces
      /\ \A i \in Ifaces : i \in Nat /\ i >= k' /\ i < k /\ i <= NumIfaces
      /\ NumIfaces \in Nat
  BY <1>1, WeightsAssumption DEF IInv, WeightsType, CollectInv, Ifaces
<1>3. Seen = active
  BY <1>2 DEF Seen
<1>4. ASSUME Weighted, active # {}
      PROVE  group > 0 /\ \E i \in Ifaces : i >= k' /\ weight[i] > 0
  <2>1. PICK b \in active : \A j \in active : j <= b
    <3>1. active \subseteq 0..NumIfaces
      BY <1>2
    <3> QED BY <1>2, <1>4, <3>1, GreatestNatural
  <2>2. group = dist[b] /\ weight[b] = dist[b]
    BY <1>1, <1>3, <2>1 DEF FirstLoop
  <2>3. dist[b] > 0
    BY <1>2, <1>4 DEF Weighted
  <2> QED BY <1>2, <2>2, <2>3
<1>5. ASSUME NEW a \in active, NEW b \in active, active = {a, b}, a <= b
      PROVE  IF dist[b] > dist[a] THEN weight[a] = 0
             ELSE weight[a] = dist[a] /\ group = dist[b]
  <2>1. \A j \in active : j <= b
    BY <1>2, <1>5
  <2>2. group = dist[b] /\ weight[b] = dist[b]
    BY <1>1, <1>3, <2>1 DEF FirstLoop
  <2>3. CASE a = b
    <3>1. dist[a] \in Nat
      BY <1>2, WeightsAssumption DEF IInv, WeightsType
    <3> QED BY <2>2, <2>3, <3>1
  <2>4. CASE a # b
    <3>1. a < b
      BY <1>2, <1>5, <2>4
    <3> QED BY <1>1, <1>3, <1>5, <2>2, <3>1 DEF FirstLoop
  <2> QED BY <2>3, <2>4
<1>6. group > 0 => pc' = "normalise"
  BY <1>1, <1>2
<1>7. ASSUME Weighted', active' # {}
      PROVE  pc' = "normalise" /\ group' > 0 /\ \E i \in Ifaces : i >= k' /\ weight'[i] > 0
  BY <1>1, <1>4, <1>6, <1>7 DEF Weighted
<1>8. ASSUME NEW a \in active', NEW b \in active', active' = {a, b}, a <= b
      PROVE  IF dist'[b] > dist'[a] THEN weight'[a] = 0
             ELSE \/ pc' = "done" /\ DOMAIN prob' = {}
                  \/ /\ pc' = "normalise" /\ k' <= a
                     /\ group' = dist'[b] /\ group' > 0 /\ weight'[a] = dist'[a]
  BY <1>1, <1>2, <1>5, <1>8
<1> QED BY <1>7, <1>8 DEF SecondLoop

LEMMA NormaliseSecond ==
    ASSUME IInv, SecondLoop, Normalise PROVE SecondLoop'
<1> SUFFICES ASSUME failover PROVE SecondLoop'
  BY DEF Normalise, config, SecondLoop
<1>1. /\ pc = "normalise" /\ pc' = "normalise" /\ k' = k + 1
      /\ UNCHANGED <<failover, dist, active, weight>>
      /\ group' = group - weight[k]
      /\ Kept(weight[k], group) => DOMAIN prob' = DOMAIN prob \cup {k}
      /\ ~Kept(weight[k], group) => prob' = prob
  BY DEF Normalise, config, GroupAfter
<1>2. /\ k \in Ifaces /\ k \in Nat /\ weight \in [Ifaces -> Nat] /\ group \in Int
      /\ active \subseteq Ifaces /\ Ifaces \subseteq Nat
      /\ \A i \in Ifaces : dist[i] \in Nat
  BY WeightsAssumption DEF Normalise, IInv, WeightsType, Ifaces
<1>3. DOMAIN prob \subseteq DOMAIN prob'
  BY <1>1
<1>4. ASSUME weight[k] > 0, group > 0, weight[k] >= group PROVE k \in DOMAIN prob'
  <2>1. weight[k] * DropBelow > group
    <3>1. \A w \in Nat, d \in Nat : w > 0 /\ d > 1 => w * d > w
      OBVIOUS
    <3>2. weight[k] * DropBelow \in Int /\ weight[k] * DropBelow > weight[k]
      BY <1>2, <1>4, <3>1, WeightsAssumption
    <3> QED BY <1>2, <1>4, <3>2
  <2> QED BY <1>1, <1>4, <2>1 DEF Kept
<1>5. ASSUME Weighted, active # {}
      PROVE  \/ DOMAIN prob' # {}
             \/ group' > 0 /\ \E i \in Ifaces : i >= k' /\ weight[i] > 0
  <2>1. CASE DOMAIN prob # {}
    BY <1>3, <2>1
  <2>2. CASE DOMAIN prob = {}
    <3>1. group > 0 /\ \E i \in Ifaces : i >= k /\ weight[i] > 0
      BY <1>1, <1>5, <2>2 DEF SecondLoop
    <3>2. \A i \in Ifaces : weight[i] > 0 => weight[i] >= group
      <4>1. group # 0 /\ ~(group < 0)
        BY <1>2, <3>1
      <4> QED BY <1>1, <4>1 DEF IInv, NormaliseInv
    <3>3. CASE weight[k] > 0
      BY <1>2, <1>4, <3>1, <3>2, <3>3
    <3>4. CASE ~(weight[k] > 0)
      <4>1. weight[k] = 0
        BY <1>2, <3>4
      <4>2. group' = group /\ \E i \in Ifaces : i >= k + 1 /\ weight[i] > 0
        BY <1>1, <1>2, <3>1, <4>1
      <4> QED BY <1>1, <3>1, <4>2
    <3> QED BY <3>3, <3>4
  <2> QED BY <2>1, <2>2
<1>6. ASSUME NEW a \in active, NEW b \in active, active = {a, b}, a <= b
      PROVE  IF dist[b] > dist[a] THEN weight[a] = 0
             ELSE \/ a \in DOMAIN prob'
                  \/ /\ k' <= a /\ group' = dist[b] /\ group' > 0
                     /\ weight[a] = dist[a]
  <2> SUFFICES ASSUME ~(dist[b] > dist[a]), a \notin DOMAIN prob
               PROVE  \/ a \in DOMAIN prob'
                      \/ /\ k' <= a /\ group' = dist[b] /\ group' > 0
                         /\ weight[a] = dist[a]
    BY <1>1, <1>3, <1>6 DEF SecondLoop
  <2>1. k <= a /\ group = dist[b] /\ group > 0 /\ weight[a] = dist[a]
    BY <1>1, <1>6 DEF SecondLoop
  <2>2. CASE k = a
    <3>1. weight[k] >= group /\ weight[k] > 0
      BY <1>2, <2>1, <2>2
    <3> QED BY <1>4, <2>1, <2>2, <3>1
  <2>3. CASE k # a
    <3>1. k < a /\ k \notin active /\ k' <= a
      BY <1>1, <1>2, <1>6, <2>1, <2>3
    <3>2. weight[k] = 0
      BY <1>2, <3>1 DEF IInv, ActiveInv
    <3> QED BY <1>1, <1>2, <2>1, <3>1, <3>2
  <2> QED BY <2>2, <2>3
<1>7. Weighted' = Weighted /\ active' = active /\ dist' = dist /\ weight' = weight
  BY <1>1 DEF Weighted
<1> QED BY <1>1, <1>5, <1>6, <1>7 DEF SecondLoop

LEMMA NextSecond == IInv /\ FirstLoop /\ SecondLoop /\ [Next]_vars => SecondLoop'
<1> SUFFICES ASSUME IInv, FirstLoop, SecondLoop, [Next]_vars PROVE SecondLoop'
  OBVIOUS
<1>1. CASE CollectShare \/ CollectFailover
  BY <1>1 DEF CollectShare, CollectFailover, SecondLoop
<1>2. CASE Normalised
  <2>1. /\ pc = "normalise" /\ pc' = "done" /\ k > NumIfaces
        /\ UNCHANGED <<failover, dist, active, weight, prob>>
    BY <1>2 DEF Normalised, config
  <2>2. \A i \in Ifaces : ~(i >= k) /\ ~(k <= i)
    BY <2>1, WeightsAssumption DEF IInv, WeightsType, Ifaces
  <2>3. active \subseteq Ifaces /\ active' \subseteq Ifaces
    BY <2>1 DEF IInv, WeightsType
  <2> QED BY <2>1, <2>2, <2>3 DEF SecondLoop, Weighted
<1>3. CASE UNCHANGED vars
  BY <1>3 DEF vars, config, SecondLoop, Weighted
<1> QED BY <1>1, <1>2, <1>3, CollectedSecond, NormaliseSecond DEF Next

(* All of it holds in every reachable state. *)
LEMMA PartsHold == Spec => [](IInv /\ PartsInv)
<1>1. Init => PartsInv
  <2> SUFFICES ASSUME Init PROVE FirstLoop /\ SecondLoop
    BY InitShare DEF PartsInv
  <2>1. Seen = {} /\ group = 0 /\ pc = "collect"
    <3>1. k = 1 /\ active \subseteq Ifaces /\ \A i \in Ifaces : ~(i < 1)
      BY DEF Init, Ifaces
    <3> QED BY <3>1 DEF Init, Seen
  <2> QED BY <2>1 DEF FirstLoop, SecondLoop
<1>2. IInv /\ PartsInv /\ [Next]_vars => PartsInv'
  BY NextShare, NextFirst, NextSecond DEF PartsInv
<1> QED BY <1>1, <1>2, InitInv, NextInv, PTL DEF Spec

-----------------------------------------------------------------------------
(* What is kept has a positive weight, in a group that is not negative. *)
ProbType ==
    /\ pc \in {"collect", "normalise", "done"}
    /\ \A i \in DOMAIN prob : prob[i] \in Nat \X Nat /\ prob[i][1] > 0

LEMMA NextProbType == IInv /\ ProbType /\ [Next]_vars => ProbType'
<1> SUFFICES ASSUME IInv, ProbType, [Next]_vars PROVE ProbType'
  OBVIOUS
<1>1. CASE Normalise
  <2>1. k \in Ifaces /\ weight[k] \in Nat /\ group \in Int
    BY <1>1, IndexLemma DEF Normalise, IInv, WeightsType
  <2>2. CASE Kept(weight[k], group)
    <3>1. <<weight[k], group>> \in Nat \X Nat /\ weight[k] > 0
      BY <2>1, <2>2 DEF Kept
    <3>2. prob' = [i \in DOMAIN prob \cup {k} |->
                      IF i = k THEN <<weight[k], group>> ELSE prob[i]]
      BY <1>1, <2>2 DEF Normalise
    <3>3. ASSUME NEW i \in DOMAIN prob'
          PROVE  prob'[i] \in Nat \X Nat /\ prob'[i][1] > 0
      <4>1. CASE i = k
        BY <3>1, <3>2, <4>1
      <4>2. CASE i # k
        BY <3>2, <4>2 DEF ProbType
      <4> QED BY <4>1, <4>2
    <3> QED BY <1>1, <3>3 DEF Normalise, ProbType
  <2>3. CASE ~Kept(weight[k], group)
    BY <1>1, <2>3 DEF Normalise, ProbType
  <2> QED BY <2>2, <2>3
<1>2. CASE CollectFailover \/ CollectShare \/ Collected \/ Normalised \/ UNCHANGED vars
  BY <1>2 DEF CollectFailover, CollectShare, Collected, Normalised, vars, ProbType
<1> QED BY <1>1, <1>2 DEF Next

LEMMA AllHold == Spec => [](IInv /\ PartsInv /\ ProbType)
<1>1. Init => ProbType
  BY DEF Init, NoProb, ProbType
<1> QED BY <1>1, NextProbType, PartsHold, PTL DEF Spec

(* The types of all variables: no probability has a negative part. *)
THEOREM TypeTheorem == Spec => []TypeOK
<1>1. IInv /\ ProbType => TypeOK
  <2> SUFFICES ASSUME IInv, ProbType PROVE TypeOK
    OBVIOUS
  <2>1. weight \in [Ifaces -> Weights \cup {0}]
    <3>1. \A i \in Ifaces : weight[i] \in Nat /\ (weight[i] > 0 => weight[i] = dist[i])
      BY DEF IInv, WeightsType, ActiveInv
    <3>2. \A i \in Ifaces : weight[i] \in Weights \cup {0}
      BY <3>1 DEF IInv, WeightsType
    <3> QED BY <3>2 DEF IInv, WeightsType
  <2>2. DOMAIN prob \subseteq Ifaces
    BY DEF IInv, ActiveInv
  <2> QED BY <2>1, <2>2 DEF TypeOK, IInv, WeightsType, ProbType
<1> QED BY <1>1, AllHold, PTL

(* For any interfaces and weights every probability that is written is     *)
(* positive and at most 1.                                                 *)
THEOREM ProbabilityTheorem == Spec => []ProbabilitiesValid
<1>1. IInv /\ PartsInv /\ ProbType => ProbabilitiesValid
  <2> SUFFICES ASSUME IInv, PartsInv, ProbType, pc = "done", NEW i \in DOMAIN prob
               PROVE  0 < Rules[i][1] /\ Rules[i][1] <= Rules[i][2]
    BY DEF ProbabilitiesValid, Served, Rules
  <2>1. CASE ~\E j \in DOMAIN prob : j > i
    BY <2>1 DEF Rules
  <2>2. CASE \E j \in DOMAIN prob : j > i
    <3>1. Rules[i] = prob[i] /\ prob[i] \in Nat \X Nat /\ prob[i][1] > 0
      BY <2>2 DEF Rules, ProbType
    <3>2. i \in Ifaces /\ DOMAIN prob \subseteq Ifaces
      BY DEF IInv, ActiveInv
    <3>3. CASE failover
      <4>1. Exclusive(prob)
        BY <3>3 DEF IInv, NormaliseInv, Certain, Exclusive
      <4>2. prob[i][1] = prob[i][2]
        BY <2>2, <3>2, <4>1 DEF Exclusive, Ifaces
      <4> QED BY <3>1, <4>2
    <3>4. CASE ~failover
      <4>1. Normal(NumIfaces + 1)
        BY <3>4 DEF PartsInv, ShareInv
      <4>2. prob[i] = <<Part(i), Left(i)>>
        BY <3>2, <4>1 DEF Normal
      <4>3. Part(i) <= Left(i)
        BY <3>2, LeftBound DEF IInv
      <4> QED BY <3>1, <4>2, <4>3
    <3> QED BY <3>3, <3>4
  <2> QED BY <2>1, <2>2
<1> QED BY <1>1, AllHold, PTL

(* For any interfaces and weights somebody is served as long as somebody   *)
(* can be, whatever small parts were left out.                             *)
THEOREM ServedTheorem == Spec => []UsableIsServed
<1>1. IInv /\ PartsInv => UsableIsServed
  <2> SUFFICES ASSUME IInv, PartsInv, pc = "done", Usable # {},
                      ~(failover /\ \E i \in Ifaces : dist[i] = 0)
               PROVE  DOMAIN prob # {}
    BY DEF UsableIsServed, Served, Rules
  <2>0. /\ active \subseteq Ifaces /\ Usable \subseteq active /\ WeightsType
        /\ \A i \in Ifaces : dist[i] \in Nat
        /\ NumIfaces \in Nat /\ Ifaces = 1..NumIfaces
    BY WeightsAssumption DEF IInv, WeightsType, Usable, Ifaces
  <2>1. CASE failover
    <3>1. Weighted
      BY <2>0, <2>1 DEF Weighted
    <3>2. active # {}
      BY <2>0
    <3> QED BY <2>1, <3>1, <3>2 DEF PartsInv, SecondLoop
  <2>2. CASE ~failover
    <3>1. PICK m \in Usable : \A j \in Usable : j <= m
      <4>1. Usable \subseteq 0..NumIfaces
        BY <2>0
      <4> QED BY <2>0, <4>1, GreatestNatural
    <3>2. m \in Ifaces /\ m \in 0..NumIfaces /\ m <= NumIfaces /\ m < NumIfaces + 1
          /\ NumIfaces \in 0..NumIfaces /\ m - 1 \in 0..NumIfaces
      BY <2>0, <3>1
    <3>3. Part(m) = dist[m] /\ Part(m) \in Nat /\ Part(m) > 0
      BY <2>0, <3>1, <3>2 DEF Part, Usable
    <3>4. \A i \in Ifaces : i > m => Part(i) = 0
      BY <2>0, <3>1, <3>2 DEF Part
    <3>5. Before[m] = Total
      BY <2>0, <3>2, <3>4, BeforeGrows DEF Total
    <3>6. Left(m) = Part(m)
      <4>1. Left(m) \in Nat /\ Total - Before[m] = Left(m) - Part(m) /\ Total \in Nat
        BY <2>0, <3>2, LeftBound, BeforeDef DEF Total
      <4> QED BY <3>3, <3>5, <4>1
    <3>7. Total # 0
      <4>1. Before[m - 1] \in Nat /\ Total \in Nat
        BY <2>0, <3>2, BeforeDef DEF Total
      <4> QED BY <3>3, <3>6, <4>1 DEF Left
    <3>8. Normal(NumIfaces + 1)
      BY <2>2, <3>7 DEF PartsInv, ShareInv
    <3>9. Kept(Part(m), Left(m))
      <4>1. \A w \in Nat, d \in Nat : w > 0 /\ d > 1 => w * d > w
        OBVIOUS
      <4>2. Part(m) * DropBelow > Part(m)
        BY <3>3, <4>1, WeightsAssumption
      <4> QED BY <3>3, <3>6, <4>2 DEF Kept
    <3> QED BY <3>2, <3>8, <3>9 DEF Normal
  <2> QED BY <2>1, <2>2
<1> QED BY <1>1, PartsHold, PTL

(* Two interfaces, or one, are two elements at most. *)
LEMMA TwoAtMost ==
    ASSUME NEW S, IsFiniteSet(S), S # {}, Cardinality(S) <= 2
    PROVE  \E a, b \in S : S = {a, b}
<1>1. PICK a \in S : TRUE
  OBVIOUS
<1>2. IsFiniteSet(S \ {a}) /\ Cardinality(S \ {a}) = Cardinality(S) - 1
      /\ Cardinality(S) \in Nat
  BY FS_RemoveElement, FS_CardinalityType
<1>3. CASE S \ {a} = {}
  BY <1>3
<1>4. CASE S \ {a} # {}
  <2>1. PICK b \in S \ {a} : TRUE
    BY <1>4
  <2>2. IsFiniteSet((S \ {a}) \ {b})
        /\ Cardinality((S \ {a}) \ {b}) = Cardinality(S \ {a}) - 1
        /\ Cardinality((S \ {a}) \ {b}) \in Nat
    BY <1>2, <2>1, FS_RemoveElement, FS_CardinalityType
  <2>3. Cardinality((S \ {a}) \ {b}) = 0
    BY <1>2, <2>2
  <2>4. (S \ {a}) \ {b} = {}
    BY <2>2, <2>3, FS_EmptySet
  <2>5. S = {a, b}
    BY <2>1, <2>4
  <2> QED BY <2>1, <2>5
<1> QED BY <1>3, <1>4

(* For any weights of any number of interfaces a failover rule takes the   *)
(* one with the higher weight when at most two are active.                 *)
THEOREM TwoWayTheorem == Spec => []TwoWayFailover
<1>1. IInv /\ PartsInv => TwoWayFailover
  <2> SUFFICES ASSUME IInv, PartsInv, pc = "done", failover, Cardinality(active) <= 2,
                      NEW f \in Ifaces, IsFirst(f), NEW i \in active
               PROVE  dist[i] <= dist[f]
    BY DEF TwoWayFailover
  <2>1. /\ active \subseteq Ifaces /\ Ifaces \subseteq Nat
        /\ DOMAIN prob \subseteq active
        /\ \A j \in DOMAIN prob : weight[j] > 0
        /\ \A j \in Ifaces : dist[j] \in Nat
        /\ f \in DOMAIN prob /\ \A j \in DOMAIN prob : f <= j
    <3>1. active \subseteq Ifaces /\ Ifaces \subseteq Nat
          /\ \A j \in Ifaces : dist[j] \in Nat
      <4>1. Ifaces \subseteq Nat
        BY DEF Ifaces
      <4>2. \A j \in Ifaces : dist[j] \in Nat
        BY WeightsAssumption DEF IInv, WeightsType
      <4> QED BY <4>1, <4>2 DEF IInv, WeightsType
    <3>2. DOMAIN prob \subseteq active /\ \A j \in DOMAIN prob : weight[j] > 0
      BY DEF IInv, ActiveInv
    <3>3. f \in DOMAIN prob /\ \A j \in DOMAIN prob : f <= j
      BY DEF IsFirst, Served, Rules
    <3> QED BY <3>1, <3>2, <3>3
  <2>2. IsFiniteSet(active)
    <3>1. IsFiniteSet(Ifaces)
      BY FS_Interval, WeightsAssumption DEF Ifaces
    <3> QED BY <2>1, <3>1, FS_Subset
  <2>3. PICK a, b \in active : active = {a, b} /\ a <= b
    <3>1. PICK x, y \in active : active = {x, y}
      BY <2>2, TwoAtMost
    <3>2. x <= y \/ y <= x
      BY <2>1
    <3>3. active = {y, x}
      BY <3>1
    <3> QED BY <3>1, <3>2, <3>3
  <2>4. IF dist[b] > dist[a] THEN weight[a] = 0 ELSE a \in DOMAIN prob
    BY <2>1, <2>3 DEF PartsInv, SecondLoop
  <2>5. CASE dist[b] > dist[a]
    <3>1. f = b
      BY <2>1, <2>3, <2>4, <2>5
    <3> QED BY <2>1, <2>3, <2>5, <3>1
  <2>6. CASE ~(dist[b] > dist[a])
    <3>1. f = a
      BY <2>1, <2>3, <2>4, <2>6
    <3> QED BY <2>1, <2>3, <2>6, <3>1
  <2> QED BY <2>5, <2>6
<1> QED BY <1>1, PartsHold, PTL

-----------------------------------------------------------------------------
(* The traffic that passes the chain: from one interface to the next. *)
Beyond(n, v) ==
    IF n \in DOMAIN Rules
    THEN <<v[1] * (Rules[n][2] - Rules[n][1]), v[2] * Rules[n][2]>>
    ELSE v

LEMMA PassesDef ==
    ASSUME ProbType
    PROVE  /\ Passes \in [0..NumIfaces -> Int \X Int]
           /\ Passes[0] = <<1, 1>>
           /\ \A n \in Ifaces : Passes[n] = Beyond(n, Passes[n - 1])
<1> DEFINE V    == Int \X Int
           P(f) == f = [n \in 0..NumIfaces |->
                          IF n = 0 THEN <<1, 1>>
                          ELSE IF n \in DOMAIN Rules
                               THEN <<f[n - 1][1] * (Rules[n][2] - Rules[n][1]),
                                      f[n - 1][2] * Rules[n][2]>>
                               ELSE f[n - 1]]
           step == [x \in Ifaces \X V |-> Beyond(x[1], x[2])]
<1>1. NumIfaces \in Nat
  BY WeightsAssumption
<1>2. \A n \in DOMAIN Rules : Rules[n][1] \in Int /\ Rules[n][2] \in Int
  BY DEF Rules, ProbType
<1>3. ASSUME NEW n, NEW v \in V PROVE Beyond(n, v) \in V
  <2>1. CASE n \in DOMAIN Rules
    <3>1. v[1] \in Int /\ v[2] \in Int /\ Rules[n][1] \in Int /\ Rules[n][2] \in Int
      BY <1>2, <2>1
    <3> QED BY <2>1, <3>1 DEF Beyond
  <2>2. CASE n \notin DOMAIN Rules
    BY <2>2 DEF Beyond
  <2> QED BY <2>1, <2>2
<1>4. step \in [Ifaces \X V -> V]
  <2> HIDE DEF V
  <2> QED BY <1>3
<1>5. <<1, 1>> \in V
  OBVIOUS
<1> HIDE DEF V
<1>6. PICK f \in [0..NumIfaces -> V] :
          f = [n \in 0..NumIfaces |-> IF n = 0 THEN <<1, 1>> ELSE step[<<n, f[n - 1]>>]]
  <2> HIDE DEF step
  <2>1. PICK f : f \in StepwiseTo(NumIfaces, V, <<1, 1>>, step)
    BY <1>1, <1>4, <1>5, RecursionTo DEF Ifaces
  <2> QED BY <2>1 DEF StepwiseTo
<1>7. \A n \in 1..NumIfaces : n - 1 \in 0..NumIfaces
  BY <1>1
<1>8. P(f)
  <2>1. ASSUME NEW n \in 1..NumIfaces
        PROVE  step[<<n, f[n - 1]>>] = Beyond(n, f[n - 1])
    <3>1. f[n - 1] \in V /\ n \in Ifaces
      BY <1>7 DEF Ifaces
    <3> QED BY <3>1
  <2>2. \A n \in 0..NumIfaces : n = 0 \/ n \in 1..NumIfaces
    BY <1>1
  <2> HIDE DEF step
  <2> QED BY <1>6, <2>1, <2>2 DEF Beyond
<1>9. P(Passes)
  <2>1. Passes = CHOOSE g : P(g)
    BY DEF Passes
  <2> HIDE DEF P
  <2> QED BY <1>8, <2>1
<1>10. Passes[0] = <<1, 1>> /\ \A n \in Ifaces : Passes[n] = Beyond(n, Passes[n - 1])
  <2>1. 0 \in 0..NumIfaces /\ \A n \in Ifaces : n # 0 /\ n \in 0..NumIfaces
    BY <1>1 DEF Ifaces
  <2> QED BY <1>9, <2>1 DEF Beyond
<1>11. Passes \in [0..NumIfaces -> V]
  <2> DEFINE S == {n \in Nat : n <= NumIfaces => Passes[n] \in V}
  <2>1. 0 \in S
    BY <1>5, <1>10
  <2>2. ASSUME NEW n \in Nat, n \in S PROVE n + 1 \in S
    <3> SUFFICES ASSUME n + 1 <= NumIfaces PROVE Passes[n + 1] \in V
      OBVIOUS
    <3>1. n + 1 \in Ifaces /\ (n + 1) - 1 = n /\ Passes[n] \in V
      BY <1>1, <2>2 DEF Ifaces
    <3>2. Passes[n + 1] = Beyond(n + 1, Passes[n])
      BY <1>10, <3>1
    <3> QED BY <1>3, <3>1, <3>2
  <2> HIDE DEF S
  <2>3. Nat \subseteq S
    BY <2>1, <2>2, InductNat
  <2>4. \A n \in 0..NumIfaces : Passes[n] \in V
    BY <1>1, <2>3 DEF S
  <2>5. Passes = [n \in 0..NumIfaces |-> Passes[n]]
    BY <1>9
  <2> QED BY <2>4, <2>5
<1> QED BY <1>10, <1>11 DEF V

(* Both sides of a comparison are multiplied by the same amount. *)
LEMMA Scaled ==
    ASSUME NEW x \in Int, NEW y \in Int, NEW d \in Nat
    PROVE  (x >= y => x * d >= y * d) /\ (x = y => x * d = y * d)
OBVIOUS

LEMMA ScaledPass ==
    ASSUME NEW a \in Int, NEW b \in Int, NEW t \in Nat, NEW l \in Nat, NEW d \in Nat
    PROVE  /\ a * t >= b * l => (a * d) * t >= (b * l) * d
           /\ a * t = b * l => (a * d) * t = (b * l) * d
<1>1. a * t \in Int /\ b * l \in Int /\ (a * d) * t = (a * t) * d
  OBVIOUS
<1> QED BY <1>1, Scaled

(* After the second loop: in front of the last rule the traffic that is    *)
(* left is at least the share of the interfaces to come.                   *)
LEMMA PassBound ==
    ASSUME WeightsType, ProbType, Normal(NumIfaces + 1), DOMAIN prob \subseteq Ifaces,
           NEW last \in DOMAIN prob, NEW n \in 0..NumIfaces, n < last
    PROVE  /\ Passes[n][1] \in Int /\ Passes[n][2] \in Int /\ Passes[n][2] > 0
           /\ Passes[n][1] * Total >= Passes[n][2] * (Total - Before[n])
           /\ DOMAIN prob = Usable =>
                 Passes[n][1] * Total = Passes[n][2] * (Total - Before[n])
<1> DEFINE Bounded(l) ==
               /\ Passes[l][1] \in Int /\ Passes[l][2] \in Int /\ Passes[l][2] > 0
               /\ Passes[l][1] * Total >= Passes[l][2] * (Total - Before[l])
               /\ DOMAIN prob = Usable =>
                     Passes[l][1] * Total = Passes[l][2] * (Total - Before[l])
           S == {l \in Nat : l < last => Bounded(l)}
<1>0. NumIfaces \in Nat /\ last \in 1..NumIfaces /\ n \in Nat /\ Ifaces = 1..NumIfaces
      /\ Total \in Nat
  <2>1. NumIfaces \in Nat
    BY WeightsAssumption
  <2> QED BY <2>1, BeforeDef DEF Ifaces, Total
<1>1. 0 \in S
  <2>1. Passes[0] = <<1, 1>> /\ Before[0] = 0
    BY PassesDef, BeforeDef
  <2> QED BY <1>0, <2>1
<1>2. ASSUME NEW l \in Nat, l \in S PROVE l + 1 \in S
  <2> SUFFICES ASSUME l + 1 < last PROVE Bounded(l + 1)
    OBVIOUS
  <2> DEFINE i == l + 1
             a == Passes[l][1]
             b == Passes[l][2]
  <2>1. i \in Ifaces /\ i - 1 = l /\ i < NumIfaces + 1 /\ Bounded(l)
    BY <1>0, <1>2
  <2>2. /\ Left(i) \in Nat /\ Part(i) \in Nat /\ Left(i) - Part(i) \in Nat
        /\ Total - Before[i] = Left(i) - Part(i) /\ Left(i) = Total - Before[l]
    <3>1. Left(i) = Total - Before[l]
      BY <2>1 DEF Left
    <3>2. Left(i) \in Nat /\ Part(i) \in Nat /\ Part(i) <= Left(i)
          /\ Total - Before[i] = Left(i) - Part(i)
      BY <2>1, LeftBound
    <3> QED BY <3>1, <3>2
  <2>3. /\ a \in Int /\ b \in Int /\ b > 0 /\ a * Total >= b * Left(i)
        /\ DOMAIN prob = Usable => a * Total = b * Left(i)
    BY <2>1, <2>2
  <2>4. Passes[i] = Beyond(i, Passes[l])
    BY <2>1, PassesDef
  <2> HIDE DEF a, b, i
  <2>5. CASE i \in DOMAIN prob
    <3>1. prob[i] = <<Part(i), Left(i)>> /\ Part(i) > 0
      BY <2>1, <2>5 DEF Normal, Kept
    <3>2. Rules[i] = <<Part(i), Left(i)>> /\ i \in DOMAIN Rules
      <4>1. last > i
        BY <1>0, <2>1 DEF i
      <4> QED BY <2>5, <3>1, <4>1 DEF Rules
    <3>3. Passes[i] = <<a * (Left(i) - Part(i)), b * Left(i)>>
      BY <2>4, <3>2 DEF Beyond, a, b
    <3>4. b * Left(i) \in Int /\ b * Left(i) > 0 /\ a * (Left(i) - Part(i)) \in Int
      <4>1. \A x, y \in Int : x > 0 /\ y > 0 => x * y > 0
        OBVIOUS
      <4>2. Left(i) > 0
        BY <2>2, <3>1
      <4> QED BY <2>2, <2>3, <4>1, <4>2
    <3>5. /\ (a * (Left(i) - Part(i))) * Total >= (b * Left(i)) * (Left(i) - Part(i))
          /\ DOMAIN prob = Usable =>
                (a * (Left(i) - Part(i))) * Total = (b * Left(i)) * (Left(i) - Part(i))
      <4> DEFINE d == Left(i) - Part(i)
      <4>1. d \in Nat
        BY <2>2
      <4> HIDE DEF d
      <4>2. /\ (a * d) * Total >= (b * Left(i)) * d
            /\ DOMAIN prob = Usable => (a * d) * Total = (b * Left(i)) * d
        <5> DEFINE t == Total
                   l0 == Left(i)
        <5>0. a \in Int /\ b \in Int /\ t \in Nat /\ l0 \in Nat /\ d \in Nat
          BY <1>0, <2>2, <2>3, <4>1
        <5> HIDE DEF t, l0
        <5>2. /\ a * t >= b * l0 => (a * d) * t >= (b * l0) * d
              /\ a * t = b * l0 => (a * d) * t = (b * l0) * d
          BY <5>0, ScaledPass
        <5>1. /\ a * Total >= b * Left(i) => (a * d) * Total >= (b * Left(i)) * d
              /\ a * Total = b * Left(i) => (a * d) * Total = (b * Left(i)) * d
          BY <5>2 DEF t, l0
        <5> QED BY <2>3, <5>1, Zenon
      <4> QED BY <4>2 DEF d
    <3> QED BY <2>2, <3>3, <3>4, <3>5 DEF i
  <2>6. CASE i \notin DOMAIN prob
    <3>1. Passes[i] = Passes[l]
      BY <2>4, <2>6 DEF Beyond, Rules
    <3>2. b * Left(i) >= b * (Left(i) - Part(i))
      <4>1. \A x, y, z \in Int : x > 0 /\ y >= z => x * y >= x * z
        OBVIOUS
      <4>2. Left(i) >= Left(i) - Part(i) /\ Left(i) \in Int /\ Left(i) - Part(i) \in Int
        BY <2>2
      <4> QED BY <2>3, <4>1, <4>2
    <3>3. a * Total >= b * (Left(i) - Part(i))
      <4>1. a * Total \in Int /\ b * Left(i) \in Int /\ b * (Left(i) - Part(i)) \in Int
        <5>1. \A x, y \in Int : x * y \in Int
          OBVIOUS
        <5>2. Left(i) - Part(i) \in Int /\ Left(i) \in Int
          BY <2>2
        <5> QED BY <1>0, <2>3, <5>1, <5>2
      <4> QED BY <2>3, <3>2, <4>1
    <3>4. DOMAIN prob = Usable => a * Total = b * (Left(i) - Part(i))
      <4>1. DOMAIN prob = Usable => Part(i) = 0
        BY <2>6 DEF Part
      <4>2. Part(i) = 0 => Left(i) - Part(i) = Left(i)
        BY <2>2
      <4> QED BY <2>3, <4>1, <4>2
    <3> QED BY <2>2, <2>3, <3>1, <3>3, <3>4 DEF a, b, i
  <2> QED BY <2>5, <2>6
<1> HIDE DEF S
<1>3. Nat \subseteq S
  BY <1>1, <1>2, InductNat
<1>4. Bounded(n)
  BY <1>0, <1>3 DEF S
<1> QED BY <1>4

(* For any number of interfaces and any weights the chain gives every      *)
(* interface kept at least its configured part of the traffic, and exactly *)
(* that if none was left out.                                              *)
THEOREM SharesTheorem == Spec => []SharesMatchWeights
<1>1. IInv /\ PartsInv /\ ProbType => SharesMatchWeights
  <2> SUFFICES ASSUME IInv, PartsInv, ProbType, pc = "done", ~failover,
                      NEW i \in DOMAIN prob
               PROVE  /\ Share(i)[1] * Total >= dist[i] * Share(i)[2]
                      /\ DOMAIN prob = Usable =>
                            Share(i)[1] * Total = dist[i] * Share(i)[2]
    BY DEF SharesMatchWeights, Served, Rules
  <2>0. /\ WeightsType /\ DOMAIN prob \subseteq Ifaces /\ i \in Ifaces
        /\ NumIfaces \in Nat /\ Ifaces = 1..NumIfaces /\ Total \in Nat
        /\ Normal(NumIfaces + 1)
    <3>1. DOMAIN prob \subseteq Ifaces /\ WeightsType
      BY DEF IInv, ActiveInv
    <3>2. Normal(NumIfaces + 1)
      BY DEF PartsInv, ShareInv
    <3>3. NumIfaces \in Nat /\ NumIfaces \in 0..NumIfaces
      BY WeightsAssumption
    <3> QED BY <3>1, <3>2, <3>3, BeforeDef DEF Ifaces, Total
  <2> DEFINE a == Passes[i - 1][1]
             b == Passes[i - 1][2]
  <2>1. /\ Left(i) \in Nat /\ Part(i) \in Nat /\ Part(i) <= Left(i)
        /\ Total - Before[i] = Left(i) - Part(i) /\ Left(i) = Total - Before[i - 1]
    BY <2>0, LeftBound DEF Left
  <2>2. prob[i] = <<Part(i), Left(i)>> /\ Part(i) > 0 /\ dist[i] = Part(i)
    <3>1. prob[i] = <<Part(i), Left(i)>> /\ Part(i) > 0
      BY <2>0 DEF Normal, Kept
    <3> QED BY <3>1 DEF Part
  <2>3. /\ a \in Int /\ b \in Int /\ b > 0 /\ a * Total >= b * Left(i)
        /\ DOMAIN prob = Usable => a * Total = b * Left(i)
    <3>1. i - 1 \in 0..NumIfaces /\ i - 1 < i
      BY <2>0
    <3> QED BY <2>0, <2>1, <3>1, PassBound
  <2> HIDE DEF a, b
  <2>4. CASE \E j \in DOMAIN prob : j > i
    <3>1. Share(i) = <<a * Part(i), b * Left(i)>>
      BY <2>2, <2>4 DEF Share, Rules, a, b
    <3>2. /\ (a * Part(i)) * Total >= (b * Left(i)) * Part(i)
          /\ DOMAIN prob = Usable => (a * Part(i)) * Total = (b * Left(i)) * Part(i)
      BY <2>0, <2>1, <2>3, ScaledPass
    <3>3. (b * Left(i)) * Part(i) = dist[i] * (b * Left(i))
      BY <2>1, <2>2, <2>3
    <3> QED BY <3>1, <3>2, <3>3
  <2>5. CASE ~\E j \in DOMAIN prob : j > i
    <3>1. Share(i) = <<a * 1, b * 1>>
      BY <2>5 DEF Share, Rules, a, b
    <3>2. Share(i)[1] = a /\ Share(i)[2] = b
      BY <2>3, <3>1
    <3>3. b * Left(i) >= b * Part(i) /\ b * Part(i) = dist[i] * b
          /\ b * Left(i) \in Int /\ b * Part(i) \in Int /\ a * Total \in Int
      <4>1. \A x, y, z \in Int : x > 0 /\ y >= z => x * y >= x * z
        OBVIOUS
      <4>2. b * Left(i) >= b * Part(i)
        BY <2>1, <2>3, <4>1
      <4> QED BY <2>0, <2>1, <2>2, <2>3, <4>2
    <3>4. DOMAIN prob = Usable => Left(i) = Part(i)
      <4> SUFFICES ASSUME DOMAIN prob = Usable PROVE Left(i) = Part(i)
        OBVIOUS
      <4>1. \A j \in Ifaces : j > i => Part(j) = 0
        BY <2>5 DEF Part
      <4>2. i \in 0..NumIfaces /\ NumIfaces \in 0..NumIfaces /\ i <= NumIfaces
        BY <2>0
      <4>3. Before[i] = Total
        BY <2>0, <4>1, <4>2, BeforeGrows DEF Total
      <4> QED BY <2>0, <2>1, <4>3
    <3> QED BY <2>3, <3>2, <3>3, <3>4
  <2> QED BY <2>4, <2>5
<1> QED BY <1>1, AllHold, PTL
=============================================================================
