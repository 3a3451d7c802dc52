-------------------------- MODULE LBPathTestProofs --------------------------
(***************************************************************************)
(* Proofs about LBPathTest for any number of interfaces and tests: the     *)
(* rounds give every interface one result per cycle, and they implement    *)
(* TestCycle.  Both rest on what coll says of the results put so far; the  *)
(* shared state of the probes does not matter for either.                  *)
(*                                                                         *)
(* That no probe is credited to another rests on that state: the ids drawn *)
(* in a round follow one another, so none comes back although ping and ttl *)
(* tests count in the same variable with different limits (SendInv); every *)
(* answer on its way to one of them answers the probe of this round, and a *)
(* time is noted only for an answer (CreditInv).                           *)
(***************************************************************************)
EXTENDS LBPathTest, NatLemmas, TLAPS

(* The part of the types the loops over coll need. *)
CoreType ==
    /\ tests \in TestColls
    /\ coll \subseteq Ifaces
    /\ test_iter \in [Ifaces -> Nat]
    /\ \A i \in Ifaces : 1 <= test_iter[i] /\ test_iter[i] <= Len(tests[i]) + 1
    /\ puts \in [Ifaces -> Seq({-1, 0})]

(* During a cycle coll holds exactly the interfaces without a result, and  *)
(* the others have one.                                                    *)
Undecided ==
    pc # "idle" =>
        \A i \in Ifaces : IF i \in coll THEN puts[i] = <<>>
                          ELSE puts[i] \in {<<0>>, <<-1>>}

IInv == CoreType /\ Undecided

(* The steps that neither begin a cycle nor decide an interface. *)
core == <<tests, coll, test_iter, puts>>

-----------------------------------------------------------------------------
(* The number of tests of an interface. *)
LEMMA CountType ==
    ASSUME tests \in TestColls
    PROVE  \A i \in Ifaces : Len(tests[i]) \in Nat /\ tests[i] \in Seq(Kinds)
BY PathTestAssumption

(* The invariant holds when the program starts. *)
LEMMA InitInv == Init => IInv
<1> SUFFICES ASSUME Init PROVE IInv
  OBVIOUS
<1>1. \A i \in Ifaces : Len(tests[i]) \in Nat
  BY CountType DEF Init
<1>2. test_iter \in [Ifaces -> Nat] /\ puts \in [Ifaces -> Seq({-1, 0})]
  BY DEF Init
<1>3. \A i \in Ifaces : 1 <= test_iter[i] /\ test_iter[i] <= Len(tests[i]) + 1
  BY <1>1 DEF Init
<1> QED BY <1>2, <1>3 DEF Init, IInv, CoreType, Undecided

(* Starting a cycle forgets the results and the tests tried. *)
LEMMA StartCycleInv == IInv /\ StartCycle => IInv'
<1> SUFFICES ASSUME IInv, StartCycle PROVE IInv'
  OBVIOUS
<1>1. \A i \in Ifaces : Len(tests[i]) \in Nat
  BY CountType DEF IInv, CoreType
<1>2. tests' = tests /\ coll' = Ifaces
      /\ test_iter' = [i \in Ifaces |-> 1] /\ puts' = [i \in Ifaces |-> <<>>]
  BY DEF StartCycle
<1>3. CoreType'
  BY <1>1, <1>2 DEF IInv, CoreType
<1>4. Undecided'
  BY <1>2 DEF Undecided
<1> QED BY <1>3, <1>4 DEF IInv

(* One test of one interface, whatever it returned. *)
LEMMA DecideInv ==
    ASSUME IInv, NEW i \in Ifaces, NEW rtt, i \in coll, ~Exhausted(i),
           pc = "recv", tests' = tests, Decide(i, rtt)
    PROVE  IInv'
<1>1. puts[i] = <<>> /\ \A j \in Ifaces : Len(tests[j]) \in Nat
  BY CountType DEF IInv, CoreType, Undecided
<1>2. test_iter[i] \in Nat /\ test_iter[i] <= Len(tests[i])
  BY <1>1 DEF IInv, CoreType, Exhausted
<1>3. test_iter' = [test_iter EXCEPT ![i] = test_iter[i] + 1]
  BY DEF Decide
<1>4. CASE rtt >= 0
  <2>1. puts' = [puts EXCEPT ![i] = <<0>>] /\ coll' = coll \ {i}
    BY <1>1, <1>4 DEF Decide
  <2>2. CoreType'
    BY <1>1, <1>2, <1>3, <2>1 DEF IInv, CoreType
  <2>3. Undecided'
    BY <2>1 DEF IInv, CoreType, Undecided
  <2> QED BY <2>2, <2>3 DEF IInv
<1>5. CASE ~(rtt >= 0)
  <2>1. puts' = puts /\ coll' = coll
    BY <1>5 DEF Decide
  <2>2. CoreType'
    BY <1>1, <1>2, <1>3, <2>1 DEF IInv, CoreType
  <2>3. Undecided'
    BY <2>1 DEF IInv, Undecided
  <2> QED BY <2>2, <2>3 DEF IInv
<1> QED BY <1>4, <1>5

(* An interface that ran out of tests gets its one failure. *)
LEMMA RecvExhaustedInv ==
    ASSUME IInv, NEW i \in Ifaces, RecvExhausted(i) PROVE IInv'
<1>1. i \in coll /\ pc = "recv" /\ tests' = tests /\ test_iter' = test_iter
      /\ coll' = coll \ {i}
  BY DEF RecvExhausted, IsNext
<1>2. puts[i] = <<>>
  BY <1>1 DEF IInv, Undecided
<1>3. puts' = [puts EXCEPT ![i] = <<-1>>]
  BY <1>2 DEF RecvExhausted
<1>4. CoreType'
  BY <1>1, <1>3 DEF IInv, CoreType
<1>5. Undecided'
  BY <1>1, <1>3 DEF IInv, CoreType, Undecided
<1> QED BY <1>4, <1>5 DEF IInv

(* A user test and the look-up of a probe are decisions, which need a test *)
(* that is left.                                                           *)
LEMMA DecisionSteps ==
    ASSUME NEW i \in Ifaces, RecvUser(i) \/ LookUp(i)
    PROVE  /\ i \in coll /\ ~Exhausted(i) /\ pc = "recv" /\ pc' = pc
           /\ tests' = tests
           /\ \E rtt : Decide(i, rtt)
<1>1. CASE RecvUser(i)
  BY <1>1 DEF RecvUser, IsNext
<1>2. CASE LookUp(i)
  BY <1>2 DEF LookUp, IsNext, Probes
<1> QED BY <1>1, <1>2

(* All other steps leave the results and tests alone, and begin no cycle.  *)
LEMMA OtherSteps ==
    ASSUME \/ StartRound \/ Sent \/ Collected \/ TimeOut \/ Network
           \/ Interrupt \/ Tick \/ UNCHANGED vars
           \/ \E i \in Ifaces : Send(i) \/ BeginWait(i)
    PROVE  /\ UNCHANGED core
           /\ pc = "idle" => pc' = "idle"
           /\ (~StartRound \/ coll # {}) => (pc' = "idle" => pc = "idle")
<1>1. CASE StartRound
  BY <1>1 DEF StartRound, core
<1>2. CASE Sent \/ Collected \/ Interrupt \/ Tick \/ UNCHANGED vars
  BY <1>2 DEF Sent, Collected, Interrupt, Tick, vars, core
<1>3. ASSUME NEW id, ReceiveReturns(id)
      PROVE  UNCHANGED core /\ pc' \in {"select", "recv"}
  BY <1>3 DEF ReceiveReturns, core
<1>4. CASE TimeOut
  BY <1>3, <1>4 DEF TimeOut
<1>5. CASE Network
  BY <1>3, <1>5 DEF Network, Noise, Deliver
<1>6. CASE \E i \in Ifaces : Send(i)
  BY <1>6 DEF Send, core
<1>7. CASE \E i \in Ifaces : BeginWait(i)
  BY <1>7 DEF BeginWait, core
<1> QED BY <1>1, <1>2, <1>4, <1>5, <1>6, <1>7

(* Such a step keeps the invariant. *)
LEMMA OtherInv ==
    ASSUME IInv, UNCHANGED core, pc = "idle" => pc' = "idle"
    PROVE  IInv'
BY DEF IInv, CoreType, Undecided, core

(* Every step keeps the invariant. *)
LEMMA NextInv == IInv /\ [Next]_vars => IInv'
<1> SUFFICES ASSUME IInv, [Next]_vars PROVE IInv'
  OBVIOUS
<1>1. CASE StartCycle
  BY <1>1, StartCycleInv
<1>2. ASSUME NEW i \in Ifaces, RecvExhausted(i) PROVE IInv'
  BY <1>2, RecvExhaustedInv
<1>3. ASSUME NEW i \in Ifaces, RecvUser(i) \/ LookUp(i) PROVE IInv'
  BY <1>3, DecisionSteps, DecideInv
<1>4. CASE \/ StartRound \/ Sent \/ Collected \/ TimeOut \/ Network
           \/ Interrupt \/ Tick \/ UNCHANGED vars
           \/ \E i \in Ifaces : Send(i) \/ BeginWait(i)
  BY <1>4, OtherSteps, OtherInv
<1> QED BY <1>1, <1>2, <1>3, <1>4 DEF Next, Daemon

(* The loops put exactly one result into every health record per cycle.    *)
THEOREM OneResultTheorem == Spec => []OneResultPerCycle
<1>1. Len(<<>>) = 0 /\ \A r \in {0, -1} : Len(<<r>>) = 1
  OBVIOUS
<1>2. IInv => OneResultPerCycle
  <2> SUFFICES ASSUME IInv, pc # "idle", NEW i \in Ifaces
               PROVE  Len(puts[i]) = IF i \in coll THEN 0 ELSE 1
    BY DEF OneResultPerCycle
  <2>1. CASE i \in coll
    BY <1>1, <2>1 DEF IInv, Undecided
  <2>2. CASE i \notin coll
    BY <1>1, <2>2 DEF IInv, Undecided
  <2> QED BY <2>1, <2>2
<1> QED BY <1>2, InitInv, NextInv, PTL DEF Spec

-----------------------------------------------------------------------------
(* The initial states are initial states of TestCycle. *)
LEMMA InitRefines == Init => Cycle!Init
<1> SUFFICES ASSUME Init PROVE Cycle!Init
  OBVIOUS
<1>1. \A i \in Ifaces : Len(tests[i]) \in Nat
  BY CountType DEF Init
<1>2. \A i \in Ifaces : Verdict(i) = "none"
  BY DEF Init, Verdict
<1>3. \A i \in Ifaces : Len(tests[i]) + 1 - test_iter[i] = Len(tests[i])
  BY <1>1 DEF Init
<1> QED BY <1>1, <1>2, <1>3 DEF Init, Cycle!Init

(* The beginning of a cycle is the beginning of the abstract one. *)
LEMMA BeginRefines == IInv /\ StartCycle => Cycle!Begin
<1> SUFFICES ASSUME IInv, StartCycle PROVE Cycle!Begin
  OBVIOUS
<1>1. \A i \in Ifaces : Len(tests[i]) \in Nat
  BY CountType DEF IInv, CoreType
<1>2. pc = "idle" /\ pc' = "round" /\ tests' = tests
      /\ test_iter' = [i \in Ifaces |-> 1] /\ puts' = [i \in Ifaces |-> <<>>]
  BY DEF StartCycle
<1>3. \A i \in Ifaces : Verdict(i)' = "none"
  BY <1>2 DEF Verdict
<1>4. \A i \in Ifaces : Len(tests'[i]) + 1 - test_iter'[i] = Len(tests[i])
  BY <1>1, <1>2
<1> QED BY <1>2, <1>3, <1>4 DEF Cycle!Begin

(* Trying one more test leaves one test less. *)
LEMMA Counted ==
    ASSUME NEW S, NEW n \in [S -> Nat], NEW t \in [S -> Nat], NEW i \in S,
           NEW l, l = [j \in S |-> n[j] + 1 - t[j]]
    PROVE  [j \in S |-> n[j] + 1 - [t EXCEPT ![i] = t[i] + 1][j]] =
              [l EXCEPT ![i] = l[i] - 1]
<1>1. \A j \in S : n[j] + 1 - t[j] \in Int
  OBVIOUS
<1>2. n[i] + 1 - (t[i] + 1) = n[i] + 1 - t[i] - 1
  OBVIOUS
<1>3. l[i] = n[i] + 1 - t[i]
  OBVIOUS
<1> QED BY <1>1, <1>2, <1>3

(* A test that succeeds or fails is a test of the abstract cycle. *)
LEMMA DecideRefines ==
    ASSUME IInv, NEW i \in Ifaces, NEW rtt, i \in coll, ~Exhausted(i),
           pc = "recv", pc' = pc, tests' = tests, Decide(i, rtt)
    PROVE  Cycle!Fail(i) \/ Cycle!Succeed(i)
<1> DEFINE left == [j \in Ifaces |-> Len(tests[j]) + 1 - test_iter[j]]
<1>1. puts[i] = <<>> /\ \A j \in Ifaces : Len(tests[j]) \in Nat
  BY CountType DEF IInv, CoreType, Undecided
<1>2. test_iter \in [Ifaces -> Nat] /\ left[i] > 0
  BY <1>1 DEF IInv, CoreType, Exhausted
<1>3. left' = [left EXCEPT ![i] = left[i] - 1]
  <2> DEFINE n == [j \in Ifaces |-> Len(tests[j])]
  <2>1. n \in [Ifaces -> Nat]
    BY <1>1
  <2>2. left' = [j \in Ifaces |->
                    n[j] + 1 - [test_iter EXCEPT ![i] = test_iter[i] + 1][j]]
    BY DEF Decide
  <2>3. left = [j \in Ifaces |-> n[j] + 1 - test_iter[j]]
    OBVIOUS
  <2> HIDE DEF n, left
  <2> QED BY <1>2, <2>1, <2>2, <2>3, Counted
<1>4. Verdict(i) = "none"
  BY <1>1 DEF Verdict
<1>5. Cycle!Try(i)
  BY <1>2, <1>3, <1>4 DEF Cycle!Try
<1>6. CASE rtt >= 0
  <2>1. puts' = [puts EXCEPT ![i] = <<0>>]
    BY <1>1, <1>6 DEF Decide
  <2>2. \A j \in Ifaces : Verdict(j)' = IF j = i THEN "alive" ELSE Verdict(j)
    BY <2>1 DEF Verdict, IInv, CoreType
  <2> QED BY <1>5, <2>2 DEF Cycle!Succeed
<1>7. CASE ~(rtt >= 0)
  <2>1. puts' = puts
    BY <1>7 DEF Decide
  <2> QED BY <1>5, <2>1 DEF Cycle!Fail, Verdict
<1> QED BY <1>6, <1>7

(* Running out of tests is the failure of the abstract cycle. *)
LEMMA GiveUpRefines ==
    ASSUME IInv, NEW i \in Ifaces, RecvExhausted(i) PROVE Cycle!GiveUp(i)
<1>1. /\ i \in coll /\ pc = "recv" /\ pc' = pc /\ tests' = tests
      /\ test_iter' = test_iter /\ test_iter[i] > Len(tests[i])
  BY DEF RecvExhausted, IsNext, Exhausted
<1>2. puts[i] = <<>> /\ Len(tests[i]) \in Nat
  BY <1>1, CountType DEF IInv, CoreType, Undecided
<1>3. Len(tests[i]) + 1 - test_iter[i] = 0
  BY <1>1, <1>2 DEF IInv, CoreType
<1>4. puts' = [puts EXCEPT ![i] = <<-1>>]
  BY <1>2 DEF RecvExhausted
<1>5. \A j \in Ifaces : Verdict(j)' = IF j = i THEN "failed" ELSE Verdict(j)
  BY <1>4 DEF Verdict, IInv, CoreType
<1>6. Verdict(i) = "none"
  BY <1>2 DEF Verdict
<1> QED BY <1>1, <1>3, <1>5, <1>6 DEF Cycle!GiveUp

(* The last round ends the abstract cycle, and the others are not seen.    *)
LEMMA StartRoundRefines ==
    ASSUME IInv, StartRound PROVE Cycle!End \/ UNCHANGED Cycle!vars
<1>1. UNCHANGED core /\ pc = "round"
  BY OtherSteps DEF StartRound
<1>2. CASE coll = {}
  <2>1. pc' = "idle"
    BY <1>2 DEF StartRound
  <2>2. \A i \in Ifaces : puts[i] \in {<<0>>, <<-1>>}
    BY <1>1, <1>2 DEF IInv, Undecided
  <2>3. \A i \in Ifaces : Verdict(i) # "none"
    BY <2>2 DEF Verdict
  <2> QED BY <1>1, <2>1, <2>3 DEF Cycle!End, core, Verdict
<1>3. CASE coll # {}
  <2>1. pc' = "send"
    BY <1>3 DEF StartRound
  <2> QED BY <1>1, <2>1 DEF Cycle!vars, core, Verdict
<1> QED BY <1>2, <1>3

(* Every step is a step of TestCycle or is not seen by it. *)
LEMMA NextRefines == IInv /\ [Next]_vars => [Cycle!Next]_Cycle!vars
<1> SUFFICES ASSUME IInv, [Next]_vars PROVE Cycle!Next \/ UNCHANGED Cycle!vars
  OBVIOUS
<1>1. CASE StartCycle
  BY <1>1, BeginRefines DEF Cycle!Next
<1>2. ASSUME NEW i \in Ifaces, RecvExhausted(i) PROVE Cycle!Next
  BY <1>2, GiveUpRefines DEF Cycle!Next
<1>3. ASSUME NEW i \in Ifaces, RecvUser(i) \/ LookUp(i) PROVE Cycle!Next
  BY <1>3, DecisionSteps, DecideRefines DEF Cycle!Next
<1>4. CASE StartRound
  BY <1>4, StartRoundRefines DEF Cycle!Next
<1>5. CASE /\ ~StartRound
           /\ \/ Sent \/ Collected \/ TimeOut \/ Network
              \/ Interrupt \/ Tick \/ UNCHANGED vars
              \/ \E i \in Ifaces : Send(i) \/ BeginWait(i)
  <2>1. UNCHANGED core /\ (pc # "idle") = (pc' # "idle")
    BY <1>5, OtherSteps
  <2> QED BY <2>1 DEF Cycle!vars, core, Verdict
<1> QED BY <1>1, <1>2, <1>3, <1>4, <1>5 DEF Next, Daemon

(* For any interfaces and tests, the rounds implement the test cycle:      *)
(* every interface tries its tests in turn until one succeeds, and gets    *)
(* one verdict.                                                            *)
THEOREM CycleTheorem == Spec => ImplementsTestCycle
BY InitInv, NextInv, InitRefines, NextRefines, PTL
   DEF Spec, ImplementsTestCycle, Cycle!Spec

-----------------------------------------------------------------------------
(* The state the probes of a round share. *)

(* A probe of this round is still to be sent or to be looked up. *)
Live == \/ pc = "send" /\ \E i \in coll : Probes(i)
        \/ /\ pc \in {"recv", "select", "blocked"}
           /\ \E i \in coll : i > turn /\ Probes(i)

(* The counter may stand at p after d more ids than x were drawn: counted  *)
(* on from x, reduced by a ping test at least once, or begun again by a    *)
(* ttl test.                                                               *)
Follows(x, p, d) ==
    \/ p = x + d
    \/ p + PingIds <= x + d
    \/ x + d >= MaxPort /\ p <= MinPort + d

ProbeType ==
    /\ pc \in {"idle", "round", "send", "recv", "select", "blocked"}
    /\ turn \in 0..NumIfaces
    /\ script_ok \in [Ifaces -> BOOLEAN]
    /\ received \in BOOLEAN
    /\ packet_id \in Ids
    /\ DOMAIN results \subseteq Ids
    /\ results \in [DOMAIN results -> Entry]
    /\ pending \in 0..NumIfaces
    /\ elapsed \in 0..LongTime
    /\ waiting \in 0..SelectTimeout
    /\ net \subseteq Answer
    /\ answered \subseteq Ifaces /\ foreign \subseteq Ifaces
    /\ repeated \in BOOLEAN

(* No interface has two results. *)
OwnEntry ==
    \A x, y \in DOMAIN results : results[x].iface = results[y].iface => x = y

(* What recv waits for: it only waits for something, and as long as no id  *)
(* came twice it knows how many are missing.                               *)
Missing == {x \in DOMAIN results : results[x].rtt < 0}
WaitInv ==
    /\ pc = "select" => elapsed < Window + waiting
    /\ pc \in {"select", "blocked"} =>
          /\ ~received /\ pending > 0
          /\ ~repeated => pending = Cardinality(Missing)
    /\ pc \notin {"select", "blocked"} /\ ~received => Missing = DOMAIN results

(* The ids of the round follow one another. *)
SendInv ==
    pc = "send" /\ Live =>
        /\ ~received
        /\ \A x \in DOMAIN results :
              /\ results[x].iface <= turn
              /\ \E d \in 0..(turn - results[x].iface) : Follows(x, packet_id, d)

(* An answer to an id of the round is an answer to the probe of the round, *)
(* and a time is noted only for an answer or for a packet of others.       *)
CreditInv ==
    Live =>
        \A x \in DOMAIN results :
            /\ results[x].rtt >= 0 => results[x].iface \in answered \cup foreign
            /\ \A a \in net : a.id = x => a.fresh /\ a.iface = results[x].iface

ProbeInv == ProbeType /\ OwnEntry /\ WaitInv /\ SendInv /\ CreditInv

-----------------------------------------------------------------------------
(* The remainders the ping test's counter takes. *)
LEMMA Remainder ==
    ASSUME NEW a \in Nat, NEW P \in Nat, P > 0
    PROVE  /\ a % P \in 0..(P - 1)
           /\ a < P => a % P = a
           /\ a >= P => a % P <= a - P
<1>1. a % P \in 0..(P - 1)
  OBVIOUS
<1>2. a < P => a % P = a
  OBVIOUS
<1>3. a >= P => a % P <= a - P
  OBVIOUS
<1> QED BY <1>1, <1>2, <1>3

(* One more id is drawn. *)
LEMMA FollowsOn ==
    ASSUME NEW x \in Nat, packet_id \in Nat, NEW d \in Nat,
           Follows(x, packet_id, d), NEW id \in {NextPingId, NextPortId}
    PROVE  Follows(x, id, d + 1)
<1>1. {PingIds, MinPort, MaxPort} \subseteq Nat \ {0}
  BY PathTestAssumption
<1>2. CASE id = NextPingId
  <2>1. PingIds > 0 /\ packet_id + 1 \in Nat /\ id = (packet_id + 1) % PingIds
    BY <1>1, <1>2 DEF NextPingId
  <2>2. \/ id = packet_id + 1
        \/ id <= packet_id + 1 - PingIds /\ id \in Nat
    BY <1>1, <2>1, Remainder
  <2> QED BY <1>1, <2>2 DEF Follows
<1>3. CASE id = NextPortId
  BY <1>1, <1>3 DEF NextPortId, Follows
<1> QED BY <1>2, <1>3

(* Within a round no id comes back. *)
LEMMA FollowsApart ==
    ASSUME NEW x \in Nat, NEW p \in Nat, NEW d \in 1..(NumIfaces - 1),
           Follows(x, p, d)
    PROVE  p # x
<1>1. {PingIds, MinPort, MaxPort, NumIfaces} \subseteq Nat
  BY PathTestAssumption
<1> QED BY <1>1, IdsAssumption DEF Follows

(* Ids are naturals, and the next one is an id. *)
LEMMA NextIds ==
    ASSUME packet_id \in Ids
    PROVE  Ids \subseteq Nat /\ NextPingId \in Ids /\ NextPortId \in Ids
<1>1. {PingIds, MinPort, MaxPort, NumIfaces} \subseteq Nat \ {0}
  BY PathTestAssumption
<1>2. Ids \subseteq Nat
  BY <1>1 DEF Ids
<1>3. NextPingId \in Ids
  <2>1. PingIds > 0 /\ packet_id + 1 \in Nat
    BY <1>1, <1>2
  <2>2. NextPingId \in 0..(PingIds - 1)
    BY <1>1, <2>1, Remainder DEF NextPingId
  <2> QED BY <1>1, <2>2 DEF Ids
<1>4. NextPortId \in Ids
  BY <1>1, IdsAssumption DEF NextPortId, Ids
<1> QED BY <1>2, <1>3, <1>4

(* At most one result per interface. *)
LEMMA FewResults ==
    ASSUME ProbeType, OwnEntry
    PROVE  /\ IsFiniteSet(DOMAIN results) /\ IsFiniteSet(Missing)
           /\ Cardinality(DOMAIN results) \in 0..NumIfaces
<1> DEFINE sender == [x \in DOMAIN results |-> results[x].iface]
<1>1. NumIfaces \in Nat
  BY PathTestAssumption
<1>2. IsFiniteSet(Ifaces) /\ Cardinality(Ifaces) = NumIfaces
  <2>1. 1 \in Int /\ NumIfaces \in Int /\ NumIfaces - 1 + 1 = NumIfaces
    BY <1>1
  <2> QED BY <1>1, <2>1, FS_Interval DEF Ifaces
<1>3. sender \in Injection(DOMAIN results, Ifaces)
  <2>1. sender \in [DOMAIN results -> Ifaces]
    BY DEF ProbeType, Entry
  <2>2. \A x, y \in DOMAIN results : sender[x] = sender[y] => x = y
    BY DEF OwnEntry
  <2> HIDE DEF sender
  <2> QED BY <2>1, <2>2 DEF Injection, IsInjective
<1>4. IsFiniteSet(DOMAIN results) /\ Cardinality(DOMAIN results) <= NumIfaces
  BY <1>2, <1>3, FS_Injection
<1>5. Cardinality(DOMAIN results) \in Nat
  BY <1>4, FS_CardinalityType
<1>6. IsFiniteSet(Missing)
  <2>1. Missing \subseteq DOMAIN results
    BY DEF Missing
  <2> QED BY <1>4, <2>1, FS_Subset
<1> QED BY <1>1, <1>4, <1>5, <1>6

(* A step that leaves the tests alone and only goes on in the loops.       *)
LEMMA LiveShrinks ==
    ASSUME pc \in {"recv", "select", "blocked"} \/ pc = "send",
           pc' \in {"recv", "select", "blocked"},
           coll' \subseteq coll, coll \subseteq Ifaces, turn \in Int,
           IF pc = "send" THEN TRUE ELSE turn <= turn', turn' \in Int,
           tests' = tests,
           \A i \in coll' : i > turn' => test_iter'[i] = test_iter[i],
           Live'
    PROVE  Live
<1>1. PICK i \in coll' : i > turn' /\ Probes(i)'
  BY DEF Live
<1>2. Probes(i) /\ i \in coll /\ i \in Int
  BY <1>1 DEF Probes, Exhausted, Current, Ifaces
<1>3. pc # "send" => i > turn
  BY <1>1, <1>2
<1> QED BY <1>2, <1>3 DEF Live

-----------------------------------------------------------------------------
(* The invariant of the probes holds when the program starts. *)
LEMMA InitProbes == Init => ProbeInv
<1> SUFFICES ASSUME Init PROVE ProbeInv
  OBVIOUS
<1>1. {NumIfaces, PingIds, MinPort, MaxPort, Window, SelectTimeout}
         \subseteq Nat \ {0}
  BY PathTestAssumption
<1>2. DOMAIN results = {} /\ results \in [{} -> Entry]
  BY DEF Init, NoResults
<1>3. 0 \in Ids /\ 0 \in 0..LongTime /\ 0 \in 0..NumIfaces
      /\ 0 \in 0..SelectTimeout
  BY <1>1 DEF Ids, LongTime
<1>4. ProbeType
  BY <1>2, <1>3 DEF Init, ProbeType
<1>5. Missing = DOMAIN results
  BY <1>2 DEF Missing
<1>6. ~Live
  BY DEF Init, Live
<1> QED BY <1>2, <1>4, <1>5, <1>6
        DEF Init, ProbeInv, OwnEntry, WaitInv, SendInv, CreditInv

(* The beginning of a cycle. *)
LEMMA StartCycleProbes == IInv /\ ProbeInv /\ StartCycle => ProbeInv'
<1> SUFFICES ASSUME IInv, ProbeInv, StartCycle PROVE ProbeInv'
  OBVIOUS
<1>1. ProbeType'
  BY DEF StartCycle, ProbeInv, ProbeType, shared, clock, ghosts
<1>2. ~Live'
  BY DEF StartCycle, Live
<1>3. WaitInv' /\ OwnEntry'
  BY DEF StartCycle, ProbeInv, WaitInv, OwnEntry, Missing, shared, clock
<1> QED BY <1>1, <1>2, <1>3 DEF StartCycle, ProbeInv, SendInv, CreditInv

(* A round forgets the probes of the last, unless it has none of its own.  *)
LEMMA StartRoundProbes == IInv /\ ProbeInv /\ StartRound => ProbeInv'
<1> SUFFICES ASSUME IInv, ProbeInv, StartRound PROVE ProbeInv'
  OBVIOUS
<1>1. /\ 0 \in 0..NumIfaces /\ UNCHANGED <<script_ok, packet_id, clock>>
      /\ pc' \in {"idle", "send"} /\ turn' = 0 /\ pc = "round"
  BY PathTestAssumption DEF StartRound, shared
<1>2. answered' \subseteq Ifaces /\ foreign' \subseteq Ifaces /\ repeated' \in BOOLEAN
      /\ net' \subseteq Answer
  <2>1. CASE coll = {}
    BY <2>1 DEF StartRound, ProbeInv, ProbeType, ghosts
  <2>2. CASE coll # {}
    <3>1. net' = {[a EXCEPT !.fresh = FALSE] : a \in net}
      BY <2>2 DEF StartRound
    <3>2. \A a \in net : [a EXCEPT !.fresh = FALSE] \in Answer
      BY DEF ProbeInv, ProbeType, Answer
    <3> QED BY <2>2, <3>1, <3>2 DEF StartRound
  <2> QED BY <2>1, <2>2
<1>3. CASE coll # {} /\ \E i \in coll : Probes(i)
  <2>1. received' = FALSE /\ results' = NoResults
    BY <1>3 DEF StartRound, ForgetProbes
  <2>2. DOMAIN results' = {} /\ results' \in [{} -> Entry]
    BY <2>1 DEF NoResults
  <2>3. ProbeType'
    BY <1>1, <1>2, <2>1, <2>2 DEF ProbeInv, ProbeType, clock
  <2>4. Missing' = DOMAIN results'
    BY <2>2 DEF Missing
  <2> QED BY <1>1, <2>1, <2>2, <2>3, <2>4
          DEF ProbeInv, OwnEntry, WaitInv, SendInv, CreditInv
<1>4. CASE ~(coll # {} /\ \E i \in coll : Probes(i))
  <2>1. received' = received /\ results' = results
    BY <1>4 DEF StartRound, shared
  <2>2. ~Live'
    <3>1. coll' = coll /\ tests' = tests /\ test_iter' = test_iter
      BY DEF StartRound
    <3>2. \A i \in coll' : ~Probes(i)'
      BY <1>4, <3>1 DEF Probes, Exhausted, Current
    <3> QED BY <1>1, <3>2 DEF Live
  <2>3. ProbeType'
    BY <1>1, <1>2, <2>1 DEF ProbeInv, ProbeType, clock
  <2>4. WaitInv' /\ OwnEntry'
    BY <1>1, <2>1 DEF ProbeInv, WaitInv, OwnEntry, Missing
  <2> QED BY <2>2, <2>3, <2>4 DEF ProbeInv, SendInv, CreditInv
<1> QED BY <1>3, <1>4

(* The id of a new probe is none of the round. *)
LEMMA FreshId ==
    ASSUME IInv, ProbeInv, NEW i \in Ifaces, Send(i), Probes(i),
           NEW id \in {NextPingId, NextPortId}
    PROVE  /\ id \in Ids /\ id \notin DOMAIN results
           /\ Live /\ ~received
           /\ \A x \in DOMAIN results :
                 /\ results[x].iface < i
                 /\ \E d \in 0..(i - results[x].iface) : Follows(x, id, d)
<1>1. pc = "send" /\ i \in coll /\ turn < i /\ i \in 1..NumIfaces
      /\ turn \in Nat /\ NumIfaces \in Nat /\ packet_id \in Ids
  BY PathTestAssumption DEF Send, IsNext, Ifaces, ProbeInv, ProbeType
<1>2. Live
  BY <1>1 DEF Live
<1>3. Ids \subseteq Nat /\ id \in Ids
  BY <1>1, NextIds
<1>4. ASSUME NEW x \in DOMAIN results
      PROVE  /\ results[x].iface < i /\ x # id
             /\ \E d \in 0..(i - results[x].iface) : Follows(x, id, d)
  <2>1. results[x].iface \in 1..NumIfaces /\ x \in Nat /\ packet_id \in Nat
    BY <1>1, <1>3 DEF ProbeInv, ProbeType, Entry, Ifaces
  <2>2. results[x].iface <= turn
    BY <1>1, <1>2 DEF ProbeInv, SendInv
  <2>3. PICK d \in 0..(turn - results[x].iface) : Follows(x, packet_id, d)
    BY <1>1, <1>2 DEF ProbeInv, SendInv
  <2>4. d \in Nat /\ d + 1 \in 1..(NumIfaces - 1)
        /\ d + 1 \in 0..(i - results[x].iface)
    BY <1>1, <2>1, <2>2, <2>3
  <2>5. Follows(x, id, d + 1)
    BY <2>1, <2>3, <2>4, FollowsOn
  <2>6. id # x
    BY <1>3, <2>1, <2>4, <2>5, FollowsApart
  <2> QED BY <1>1, <2>1, <2>2, <2>4, <2>5, <2>6
<1> QED BY <1>1, <1>2, <1>3, <1>4 DEF ProbeInv, SendInv

(* A probe is sent. *)
LEMMA ProbeSent ==
    ASSUME IInv, ProbeInv, NEW i \in Ifaces, Send(i), Probes(i),
           script_ok' = script_ok,
           NEW id \in {NextPingId, NextPortId}, Probe(i, id)
    PROVE  ProbeInv'
<1> DEFINE new == [iface |-> i, rtt |-> -1]
<1>1. /\ pc = "send" /\ pc' = "send" /\ turn' = i /\ turn < i /\ i \in Int
      /\ i \in 0..NumIfaces /\ new \in Entry
      /\ UNCHANGED <<coll, tests, test_iter, received, clock, ghosts>>
  BY DEF Send, IsNext, Ifaces, Entry
<1>2. /\ id \in Ids /\ id \notin DOMAIN results /\ Live /\ ~received
      /\ \A x \in DOMAIN results :
            /\ results[x].iface < i
            /\ \E d \in 0..(i - results[x].iface) : Follows(x, id, d)
  BY FreshId
<1>3. /\ DOMAIN results' = DOMAIN results \cup {id} /\ packet_id' = id
      /\ results'[id] = new
      /\ \A x \in DOMAIN results : results'[x] = results[x]
      /\ results' \in [DOMAIN results' -> Entry]
  <2>1. /\ packet_id' = id
        /\ results' = [x \in DOMAIN results \cup {id} |->
                          IF x \in DOMAIN results THEN results[x] ELSE new]
    BY DEF Probe
  <2> HIDE DEF new
  <2> QED BY <1>1, <1>2, <2>1 DEF ProbeInv, ProbeType
<1>4. \A a \in net' : \/ a \in net /\ a.id # id
                      \/ a = [id |-> id, iface |-> i, fresh |-> TRUE]
  BY DEF Probe
<1>5. ProbeType'
  <2>1. net' \subseteq Answer
    <3>1. [id |-> id, iface |-> i, fresh |-> TRUE] \in Answer
      BY <1>2 DEF Answer
    <3> QED BY <1>4, <3>1 DEF ProbeInv, ProbeType
  <2>2. DOMAIN results' \subseteq Ids
    BY <1>2, <1>3 DEF ProbeInv, ProbeType
  <2> HIDE DEF new
  <2> QED BY <1>1, <1>2, <1>3, <2>1, <2>2 DEF ProbeInv, ProbeType, clock, ghosts
<1>6. OwnEntry'
  <2>1. \A x \in DOMAIN results : results[x].iface # i
    BY <1>1, <1>2 DEF ProbeInv, ProbeType, Entry, Ifaces
  <2> QED BY <1>3, <2>1 DEF ProbeInv, OwnEntry
<1>7. Missing' = DOMAIN results'
  <2>1. Missing = DOMAIN results
    BY <1>1, <1>2 DEF ProbeInv, WaitInv
  <2>2. \A x \in DOMAIN results : results[x].rtt < 0
    BY <2>1 DEF Missing
  <2>3. new.rtt < 0
    OBVIOUS
  <2> HIDE DEF new
  <2> QED BY <1>3, <2>2, <2>3 DEF Missing
<1>8. SendInv'
  <2>1. Follows(id, id, 0) /\ 0 \in 0..(i - i)
    <3>1. id \in Int
      BY <1>2, NextIds DEF ProbeInv, ProbeType
    <3> QED BY <1>1, <3>1 DEF Follows
  <2>2. \A x \in DOMAIN results : results[x].iface <= i
    BY <1>1, <1>2 DEF ProbeInv, ProbeType, Entry, Ifaces
  <2>3. new.iface = i /\ i <= i
    BY <1>1
  <2> HIDE DEF new
  <2> QED BY <1>1, <1>2, <1>3, <2>1, <2>2, <2>3 DEF SendInv, Follows
<1>9. CreditInv'
  <2>1. ~(new.rtt >= 0) /\ new.iface = i
    OBVIOUS
  <2> HIDE DEF new
  <2>2. ASSUME NEW x \in DOMAIN results', results'[x].rtt >= 0
        PROVE  results'[x].iface \in answered' \cup foreign'
    BY <1>1, <1>2, <1>3, <2>1, <2>2 DEF ProbeInv, CreditInv, ghosts
  <2>3. ASSUME NEW x \in DOMAIN results', NEW a \in net', a.id = x
        PROVE  a.fresh /\ a.iface = results'[x].iface
    <3>1. CASE a \in net /\ a.id # id
      BY <1>2, <1>3, <2>3, <3>1 DEF ProbeInv, CreditInv
    <3>2. CASE a = [id |-> id, iface |-> i, fresh |-> TRUE]
      BY <1>3, <2>1, <2>3, <3>2
    <3> QED BY <1>4, <3>1, <3>2
  <2> QED BY <2>2, <2>3 DEF CreditInv
<1>10. WaitInv'
  BY <1>1, <1>7 DEF WaitInv
<1> QED BY <1>5, <1>6, <1>8, <1>9, <1>10 DEF ProbeInv

(* An interface without tests, a script, or a target that is not known.    *)
LEMMA NothingSent ==
    ASSUME IInv, ProbeInv, NEW i \in Ifaces, Send(i),
           UNCHANGED <<packet_id, results, net>>,
           script_ok' \in [Ifaces -> BOOLEAN]
    PROVE  ProbeInv'
<1>1. /\ pc = "send" /\ pc' = "send" /\ turn' = i /\ turn < i /\ i \in Nat
      /\ i \in 0..NumIfaces /\ turn \in Nat
      /\ UNCHANGED <<coll, tests, test_iter, received, clock, ghosts>>
  BY PathTestAssumption
     DEF Send, IsNext, Ifaces, ProbeInv, ProbeType
<1>2. Live' = Live
  BY <1>1 DEF Live, Probes, Exhausted, Current
<1>3. ProbeType'
  BY <1>1 DEF ProbeInv, ProbeType, clock, ghosts
<1>4. OwnEntry' /\ WaitInv'
  BY <1>1 DEF ProbeInv, OwnEntry, WaitInv, Missing
<1>5. SendInv'
  <2> SUFFICES ASSUME Live, NEW x \in DOMAIN results
               PROVE  /\ ~received /\ results[x].iface <= i
                      /\ \E d \in 0..(i - results[x].iface) :
                            Follows(x, packet_id, d)
    BY <1>1, <1>2 DEF SendInv, Follows, ProbeInv
  <2>1. results[x].iface \in Int
    BY DEF ProbeInv, ProbeType, Entry, Ifaces
  <2>2. PICK d \in 0..(turn - results[x].iface) : Follows(x, packet_id, d)
    BY <1>1 DEF ProbeInv, SendInv
  <2>3. d \in 0..(i - results[x].iface)
    BY <1>1, <2>1, <2>2
  <2> QED BY <1>1, <2>1, <2>2, <2>3 DEF ProbeInv, SendInv
<1>6. CreditInv'
  BY <1>1, <1>2 DEF ProbeInv, CreditInv, ghosts
<1> QED BY <1>3, <1>4, <1>5, <1>6 DEF ProbeInv

(* Every way of sending. *)
LEMMA SendProbes ==
    ASSUME IInv, ProbeInv, NEW i \in Ifaces, Send(i) PROVE ProbeInv'
<1>1. CASE UNCHANGED <<packet_id, results, net>> /\ script_ok' = script_ok
  <2>1. script_ok' \in [Ifaces -> BOOLEAN]
    BY <1>1 DEF ProbeInv, ProbeType
  <2> QED BY <1>1, <2>1, NothingSent
<1>2. CASE SendUser(i)
  <2>1. script_ok' \in [Ifaces -> BOOLEAN]
    BY <1>2 DEF SendUser, ProbeInv, ProbeType
  <2> QED BY <1>2, <2>1, NothingSent DEF SendUser
<1>3. ASSUME NEW id \in {NextPingId, NextPortId}, Probe(i, id), Probes(i),
             script_ok' = script_ok
      PROVE  ProbeInv'
  BY <1>3, ProbeSent
<1>4. CASE Probes(i) /\ (SendPing(i) \/ SendTTL(i))
  BY <1>1, <1>3, <1>4 DEF SendPing, SendTTL, SendProbe
<1> QED BY <1>1, <1>2, <1>4 DEF Send, Probes

(* The end of a loop over coll, and the steps that only pass time. *)
LEMMA PassingProbes ==
    ASSUME IInv, ProbeInv, Sent \/ Collected \/ Interrupt \/ Tick \/ UNCHANGED vars
    PROVE  ProbeInv'
<1>0. /\ Window \in Nat /\ SelectTimeout \in Nat /\ NumIfaces \in Nat
      /\ coll \subseteq Ifaces /\ turn \in 0..NumIfaces
      /\ elapsed \in Nat /\ waiting \in Nat
  BY PathTestAssumption DEF IInv, CoreType, ProbeInv, ProbeType
<1>1. /\ UNCHANGED <<tests, coll, test_iter, script_ok, received, packet_id,
                     results, pending, net, ghosts>>
      /\ Missing' = Missing
  BY DEF Sent, Collected, Interrupt, Tick, vars, shared, clock, Missing
<1>2. CASE Sent \/ Collected \/ Interrupt
  <2>1. /\ pc' \in {"recv", "round", "blocked"} /\ turn' \in 0..NumIfaces
        /\ UNCHANGED clock
        /\ pc' = "blocked" => pc = "select"
        /\ pc \in {"select", "blocked"} => pc' = "blocked"
    BY <1>0, <1>2 DEF Sent, Collected, Interrupt
  <2>2. Live' => Live
    <3>1. CASE pc' = "round"
      BY <3>1 DEF Live
    <3>2. CASE pc' # "round"
      <4>1. pc \in {"send", "select"} /\ (pc # "send" => turn' = turn)
        BY <1>2, <3>2 DEF Sent, Collected, Interrupt
      <4>2. turn \in Int /\ turn' \in Int
        BY <1>0, <2>1
      <4> QED BY <1>0, <1>1, <2>1, <3>2, <4>1, <4>2, LiveShrinks
    <3> QED BY <3>1, <3>2
  <2>3. ProbeType'
    BY <1>1, <2>1 DEF ProbeInv, ProbeType, clock, ghosts
  <2>4. WaitInv' /\ OwnEntry'
    BY <1>1, <2>1 DEF ProbeInv, WaitInv, OwnEntry, clock, ghosts
  <2>5. CreditInv' /\ SendInv'
    BY <1>1, <2>1, <2>2 DEF ProbeInv, SendInv, CreditInv, ghosts
  <2> QED BY <2>3, <2>4, <2>5 DEF ProbeInv
<1>3. CASE Tick
  <2>1. /\ pc' = pc /\ turn' = turn /\ elapsed' = elapsed + 1
        /\ pc \in {"select", "blocked"}
    BY <1>3 DEF Tick
  <2>2. Live' = Live
    BY <1>1, <2>1 DEF Live, Probes, Exhausted, Current
  <2>3. waiting' \in 0..SelectTimeout /\ elapsed' \in 0..LongTime
        /\ (pc = "select" => elapsed' < Window + waiting')
    BY <1>0, <1>3, <2>1 DEF Tick, ProbeInv, ProbeType, WaitInv, LongTime
  <2>4. ProbeType'
    BY <1>1, <2>1, <2>3 DEF ProbeInv, ProbeType, ghosts
  <2>5. WaitInv' /\ OwnEntry'
    BY <1>1, <2>1, <2>3 DEF ProbeInv, WaitInv, OwnEntry, ghosts
  <2>6. CreditInv' /\ SendInv'
    BY <1>1, <2>1, <2>2 DEF ProbeInv, SendInv, CreditInv, ghosts
  <2> QED BY <2>4, <2>5, <2>6 DEF ProbeInv
<1>4. CASE UNCHANGED vars
  <2>1. Live' = Live
    BY <1>4 DEF Live, Probes, Exhausted, Current, vars
  <2>2. ProbeType'
    BY <1>4 DEF vars, ProbeInv, ProbeType, shared, clock, ghosts
  <2>3. WaitInv' /\ OwnEntry'
    BY <1>1, <1>4 DEF vars, ProbeInv, WaitInv, OwnEntry, shared, clock, ghosts
  <2>4. CreditInv' /\ SendInv'
    BY <1>4, <2>1 DEF vars, ProbeInv, SendInv, CreditInv, shared, ghosts
  <2> QED BY <2>2, <2>3, <2>4 DEF ProbeInv
<1> QED BY <1>2, <1>3, <1>4

(* The decision about an interface takes no result from another. *)
LEMMA DecidedProbes ==
    ASSUME IInv, ProbeInv, NEW i \in Ifaces,
           RecvExhausted(i) \/ RecvUser(i) \/ LookUp(i)
    PROVE  ProbeInv'
<1>1. /\ UNCHANGED <<tests, pc, script_ok, received, packet_id, clock, net, ghosts>>
      /\ pc = "recv" /\ turn' = i /\ turn < i /\ coll' \subseteq coll
      /\ i \in 0..NumIfaces /\ i \in Int /\ turn \in Int
      /\ coll \subseteq Ifaces
      /\ \A j \in Ifaces : j > i => test_iter'[j] = test_iter[j]
  <2>1. /\ UNCHANGED <<tests, pc, script_ok, received, packet_id, clock, net, ghosts>>
        /\ pc = "recv" /\ turn' = i /\ turn < i
    BY DEF RecvExhausted, RecvUser, LookUp, Decide, IsNext, shared
  <2>2. /\ i \in 0..NumIfaces /\ i \in Int /\ turn \in Int
        /\ coll \subseteq Ifaces /\ test_iter \in [Ifaces -> Nat]
    BY PathTestAssumption DEF Ifaces, ProbeInv, ProbeType, IInv, CoreType
  <2>3. \/ test_iter' = test_iter
        \/ test_iter' = [test_iter EXCEPT ![i] = test_iter[i] + 1]
    BY DEF RecvExhausted, RecvUser, LookUp, Decide
  <2>4. coll' \subseteq coll
    BY DEF RecvExhausted, RecvUser, LookUp, Decide
  <2>5. \A j \in Ifaces : j > i => test_iter'[j] = test_iter[j]
    BY <2>2, <2>3
  <2> QED BY <2>1, <2>2, <2>4, <2>5
<1>2. Live' => Live
  <2>1. /\ pc' \in {"recv", "select", "blocked"} /\ turn <= turn' /\ turn' \in Int
        /\ \A j \in coll' : j > turn' => test_iter'[j] = test_iter[j]
    <3>1. pc' = "recv" /\ turn <= turn' /\ turn' \in Int
      BY <1>1
    <3>2. \A j \in coll' : j > turn' => test_iter'[j] = test_iter[j]
      BY <1>1
    <3> QED BY <3>1, <3>2
  <2> QED BY <1>1, <2>1, LiveShrinks
<1>3. /\ DOMAIN results' \subseteq DOMAIN results
      /\ \A x \in DOMAIN results' : results'[x] = results[x]
      /\ results' \in [DOMAIN results' -> Entry]
      /\ results' # results => received
  <2>1. CASE results' = results
    BY <2>1 DEF ProbeInv, ProbeType
  <2>2. CASE results' # results
    <3>1. PICK id \in DOMAIN results :
              results' = [x \in DOMAIN results \ {id} |-> results[x]]
      <4>1. LookUp(i) /\ Mine(i) # {}
        BY <2>2 DEF RecvExhausted, RecvUser, LookUp, shared
      <4>2. Min(Mine(i)) \in DOMAIN results
        <5>1. Mine(i) \subseteq DOMAIN results /\ Mine(i) \subseteq Nat
          BY NextIds DEF Mine, ProbeInv, ProbeType
        <5>2. \E x \in Mine(i) : \A y \in Mine(i) : x <= y
          BY <4>1, <5>1, LeastNatural
        <5>3. Min(Mine(i)) \in Mine(i)
          BY <5>2 DEF Min
        <5> QED BY <5>1, <5>3
      <4> QED BY <4>1, <4>2 DEF LookUp
    <3>2. received
      BY <2>2 DEF RecvExhausted, RecvUser, LookUp, shared
    <3> QED BY <3>1, <3>2 DEF ProbeInv, ProbeType
  <2> QED BY <2>1, <2>2
<1>4. ProbeType'
  BY <1>1, <1>3 DEF ProbeInv, ProbeType, clock, ghosts
<1>5. OwnEntry'
  BY <1>3 DEF ProbeInv, OwnEntry
<1>6. WaitInv'
  BY <1>1, <1>3 DEF ProbeInv, WaitInv, Missing, clock
<1>7. SendInv' /\ CreditInv'
  BY <1>1, <1>2, <1>3 DEF ProbeInv, SendInv, CreditInv, ghosts
<1> QED BY <1>4, <1>5, <1>6, <1>7 DEF ProbeInv

(* The first probe of a round begins the wait for all of them. *)
LEMMA BeginWaitProbes ==
    ASSUME IInv, ProbeInv, NEW i \in Ifaces, BeginWait(i)
    PROVE  ProbeInv' /\ (received' => DOMAIN results' = {})
<1>1. /\ UNCHANGED <<tests, coll, turn, test_iter, script_ok, packet_id,
                     results, net, ghosts>>
      /\ pc = "recv" /\ ~received /\ pending' = Cardinality(DOMAIN results)
      /\ elapsed' = 0 /\ waiting' = 0
  BY DEF BeginWait
<1>2. \/ pending' = 0 /\ received' = TRUE /\ pc' = pc
      \/ pending' # 0 /\ received' = received /\ pc' = "select"
  BY DEF BeginWait
<1>3. pending' \in 0..NumIfaces /\ IsFiniteSet(DOMAIN results)
  BY <1>1, FewResults DEF ProbeInv
<1>4. Missing = DOMAIN results /\ Missing' = Missing
  BY <1>1 DEF ProbeInv, WaitInv, Missing
<1>5. Window \in Nat \ {0} /\ SelectTimeout \in Nat /\ NumIfaces \in Nat
  BY PathTestAssumption
<1>6. ProbeType'
  <2>1. 0 \in 0..LongTime /\ 0 \in 0..SelectTimeout
    BY <1>5 DEF LongTime
  <2> QED BY <1>1, <1>2, <1>3, <2>1 DEF ProbeInv, ProbeType, ghosts
<1>7. WaitInv'
  BY <1>1, <1>2, <1>3, <1>4, <1>5 DEF WaitInv, ProbeInv
<1>8. Live' => Live
  BY <1>1, <1>2 DEF Live, Probes, Exhausted, Current
<1>9. OwnEntry' /\ SendInv' /\ CreditInv'
  BY <1>1, <1>2, <1>8 DEF ProbeInv, OwnEntry, SendInv, CreditInv, ghosts
<1>10. received' => DOMAIN results' = {}
  BY <1>1, <1>2, <1>3, FS_EmptySet
<1> QED BY <1>6, <1>7, <1>9, <1>10 DEF ProbeInv

(* What a return of LBTest::receive leaves of the round, whatever came:    *)
(* the count is right as long as no id came twice.                         *)
LEMMA ReceiveProbes ==
    ASSUME IInv, ProbeInv, NEW id, id \in DOMAIN results \/ id \notin Ids,
           pc \in {"select", "blocked"}, ReceiveReturns(id), net' \subseteq net,
           repeated' \in BOOLEAN, repeated \/ Again(id) => repeated',
           answered' \subseteq Ifaces, foreign' \subseteq Ifaces,
           answered \subseteq answered', foreign \subseteq foreign',
           Live /\ id \in DOMAIN results =>
              results[id].iface \in answered' \cup foreign'
    PROVE  /\ ProbeInv'
           /\ ~repeated' => pending' = Cardinality(Missing')
           /\ received' => (elapsed < Window => pending' = 0)
<1>1. /\ UNCHANGED <<tests, coll, turn, test_iter, script_ok, packet_id, elapsed>>
      /\ waiting' = 0 /\ ~received
      /\ pending \in 1..NumIfaces /\ elapsed \in 0..LongTime
      /\ Window \in Nat /\ SelectTimeout \in Nat /\ NumIfaces \in Nat
      /\ DOMAIN results \subseteq Ids
  BY PathTestAssumption DEF ReceiveReturns, ProbeInv, ProbeType, WaitInv
<1>2. /\ DOMAIN results' = DOMAIN results
      /\ results' \in [DOMAIN results -> Entry]
      /\ \A x \in DOMAIN results :
            /\ results'[x].iface = results[x].iface
            /\ x # id => results'[x] = results[x]
            /\ x = id => results'[x].rtt = elapsed
      /\ pending' = IF id \in DOMAIN results THEN pending - 1 ELSE pending
  <2>1. CASE id \in DOMAIN results
    <3>1. results' = [results EXCEPT ![id].rtt = elapsed] /\ pending' = pending - 1
      BY <2>1 DEF ReceiveReturns
    <3>2. results \in [DOMAIN results -> Entry] /\ elapsed \in Int
      BY <1>1 DEF ProbeInv, ProbeType
    <3>3. [results[id] EXCEPT !.rtt = elapsed] \in Entry
      BY <2>1, <3>2 DEF Entry
    <3> QED BY <2>1, <3>1, <3>2, <3>3 DEF Entry
  <2>2. CASE id \notin DOMAIN results
    BY <2>2 DEF ReceiveReturns, ProbeInv, ProbeType
  <2> QED BY <2>1, <2>2
<1>3. ~repeated' => pending' = Cardinality(Missing')
  <2> SUFFICES ASSUME ~repeated' PROVE pending' = Cardinality(Missing')
    OBVIOUS
  <2>1. ~repeated /\ ~Again(id) /\ pending = Cardinality(Missing)
    BY DEF ProbeInv, WaitInv
  <2>2. IsFiniteSet(Missing)
    BY FewResults DEF ProbeInv
  <2>3. CASE id \in DOMAIN results
    <3>1. id \in Missing
      BY <2>1, <2>3 DEF Again, Missing, ProbeInv, ProbeType, Entry
    <3>2. Missing' = Missing \ {id}
      BY <1>1, <1>2, <2>3 DEF Missing
    <3>3. Cardinality(Missing \ {id}) = Cardinality(Missing) - 1
      BY <2>2, <3>1, FS_RemoveElement
    <3> QED BY <1>2, <2>1, <2>3, <3>2, <3>3
  <2>4. CASE id \notin DOMAIN results
    <3>1. Missing' = Missing
      BY <1>2, <2>4 DEF Missing
    <3> QED BY <1>2, <2>1, <2>4, <3>1
  <2> QED BY <2>3, <2>4
<1>4. pending' \in 0..NumIfaces
  BY <1>1, <1>2
<1>5. \/ pc' = "select" /\ received' = received /\ elapsed < Window /\ pending' > 0
      \/ pc' = "recv" /\ received' = TRUE /\ (elapsed < Window => pending' = 0)
  BY <1>1, <1>4 DEF ReceiveReturns, KeepsWaiting
<1>6. Live' => Live
  BY <1>1, <1>5 DEF Live, Probes, Exhausted, Current
<1>7. ProbeType'
  <2>1. 0 \in 0..SelectTimeout
    BY <1>1
  <2> QED BY <1>1, <1>2, <1>4, <1>5, <2>1 DEF ProbeInv, ProbeType
<1>8. OwnEntry'
  BY <1>2 DEF ProbeInv, OwnEntry
<1>9. WaitInv'
  BY <1>1, <1>3, <1>5 DEF WaitInv
<1>10. SendInv'
  BY <1>5 DEF SendInv
<1>11. CreditInv'
  <2> SUFFICES ASSUME Live, NEW x \in DOMAIN results
               PROVE  /\ results'[x].rtt >= 0 =>
                            results'[x].iface \in answered' \cup foreign'
                      /\ \A a \in net' : a.id = x =>
                            a.fresh /\ a.iface = results'[x].iface
    BY <1>2, <1>6 DEF CreditInv
  <2>1. CASE x = id
    BY <1>2, <2>1 DEF ProbeInv, CreditInv
  <2>2. CASE x # id
    BY <1>2, <2>2 DEF ProbeInv, CreditInv
  <2> QED BY <2>1, <2>2
<1>12. received' => (elapsed < Window => pending' = 0)
  BY <1>1, <1>5
<1> QED BY <1>3, <1>7, <1>8, <1>9, <1>10, <1>11, <1>12 DEF ProbeInv

(* An answer, a packet of others, and the time-out of select. *)
LEMMA NetworkProbes ==
    ASSUME IInv, ProbeInv, TimeOut \/ Network
    PROVE  /\ ProbeInv'
           /\ ~repeated' => pending' = Cardinality(Missing')
           /\ received' => (elapsed < Window => pending' = 0)
<1>1. Ids \subseteq Nat /\ -1 \notin Ids /\ DOMAIN results \subseteq Ids
      /\ answered \subseteq Ifaces /\ foreign \subseteq Ifaces /\ repeated \in BOOLEAN
      /\ net \subseteq Answer /\ results \in [DOMAIN results -> Entry]
  BY NextIds DEF ProbeInv, ProbeType
<1>2. CASE TimeOut
  <2>1. ~Again(-1) /\ -1 \notin DOMAIN results
    BY <1>1 DEF Again
  <2> QED BY <1>1, <1>2, <2>1, ReceiveProbes DEF TimeOut, ghosts
<1>3. CASE Noise
  <2>1. PICK id \in DOMAIN results \cup {-1} :
            /\ foreign' = IF id = -1 THEN foreign
                          ELSE foreign \cup {results[id].iface}
            /\ repeated' = (repeated \/ Again(id))
            /\ ReceiveReturns(id)
    BY <1>3 DEF Noise
  <2>2. pc \in {"select", "blocked"} /\ net' = net /\ answered' = answered
    BY <1>3 DEF Noise
  <2>3. /\ foreign' \subseteq Ifaces /\ foreign \subseteq foreign'
        /\ id \in DOMAIN results => results[id].iface \in foreign'
    BY <1>1, <2>1 DEF Entry
  <2>4. id \in DOMAIN results \/ id \notin Ids
    BY <1>1
  <2>5. repeated' \in BOOLEAN
    BY <1>1, <2>1 DEF Again
  <2> QED BY <1>1, <2>1, <2>2, <2>3, <2>4, <2>5, ReceiveProbes
<1>4. ASSUME NEW a \in net, Deliver(a)
      PROVE  /\ ProbeInv'
             /\ ~repeated' => pending' = Cardinality(Missing')
             /\ received' => (elapsed < Window => pending' = 0)
  <2>1. /\ pc \in {"select", "blocked"} /\ net' \subseteq net /\ foreign' = foreign
        /\ answered' = (IF a.fresh THEN answered \cup {a.iface} ELSE answered)
        /\ repeated' = (repeated \/ Again(a.id))
        /\ ReceiveReturns(a.id)
    BY <1>4 DEF Deliver
  <2>2. answered' \subseteq Ifaces /\ answered \subseteq answered'
    BY <1>1, <2>1 DEF Answer
  <2>3. Live /\ a.id \in DOMAIN results => results[a.id].iface \in answered'
    BY <2>1 DEF ProbeInv, CreditInv
  <2>4. repeated' \in BOOLEAN
    BY <1>1, <2>1 DEF Again
  <2>5. CASE a.id \in DOMAIN results
    BY <1>1, <2>1, <2>2, <2>3, <2>4, <2>5, ReceiveProbes
  <2>6. CASE a.id \notin DOMAIN results
    \* as if nothing had come
    <3>1. ReceiveReturns(-1)
      BY <1>1, <2>1, <2>6 DEF ReceiveReturns
    <3>2. ~Again(-1)
      BY <1>1 DEF Again
    <3> QED BY <1>1, <2>1, <2>2, <2>4, <3>1, <3>2, ReceiveProbes
  <2> QED BY <2>5, <2>6
<1> QED BY <1>2, <1>3, <1>4 DEF Network

(* Every step keeps the invariant of the probes. *)
LEMMA NextProbes == IInv /\ ProbeInv /\ [Next]_vars => ProbeInv'
<1> SUFFICES ASSUME IInv, ProbeInv, [Next]_vars PROVE ProbeInv'
  OBVIOUS
<1>1. CASE StartCycle
  BY <1>1, StartCycleProbes
<1>2. CASE StartRound
  BY <1>2, StartRoundProbes
<1>3. ASSUME NEW i \in Ifaces, Send(i) PROVE ProbeInv'
  BY <1>3, SendProbes
<1>4. ASSUME NEW i \in Ifaces, RecvExhausted(i) \/ RecvUser(i) \/ LookUp(i)
      PROVE  ProbeInv'
  BY <1>4, DecidedProbes
<1>5. ASSUME NEW i \in Ifaces, BeginWait(i) PROVE ProbeInv'
  BY <1>5, BeginWaitProbes
<1>6. CASE TimeOut \/ Network
  BY <1>6, NetworkProbes
<1>7. CASE Sent \/ Collected \/ Interrupt \/ Tick \/ UNCHANGED vars
  BY <1>7, PassingProbes
<1> QED BY <1>1, <1>2, <1>3, <1>4, <1>5, <1>6, <1>7 DEF Next, Daemon

LEMMA ProbesHold == Spec => [](IInv /\ ProbeInv)
BY InitInv, NextInv, InitProbes, NextProbes, PTL DEF Spec

(* The types of all variables: the packet ids stay below their limits, no  *)
(* more results are awaited than there are interfaces, and the clock of a  *)
(* wait passes its window by one select at most.                           *)
THEOREM TypeTheorem == Spec => []TypeOK
<1>1. IInv /\ ProbeInv => TypeOK
  <2> SUFFICES ASSUME IInv, ProbeInv PROVE TypeOK
    OBVIOUS
  <2>1. \A i \in Ifaces : test_iter[i] \in 1..(Len(tests[i]) + 1)
    BY CountType DEF IInv, CoreType
  <2>2. \A id \in DOMAIN results : results[id] \in Entry
    BY DEF ProbeInv, ProbeType
  <2> QED BY <2>1, <2>2 DEF TypeOK, IInv, CoreType, ProbeInv, ProbeType
<1> QED BY <1>1, ProbesHold, PTL

(* However many interfaces draw ping and ttl ids in a round, in whichever  *)
(* order, every probe has an entry of its own in _results.                 *)
THEOREM ApartTheorem == Spec => ProbesKeptApart
<1>1. IInv /\ ProbeInv /\ [Next]_vars =>
        [pc = "send" => \A i \in Ifaces :
           turn' = i /\ Probes(i) /\ (i \notin Dhcp \/ packet_id' # packet_id) =>
             \E id \in DOMAIN results' \ DOMAIN results :
                 results'[id].iface = i]_vars
  <2> SUFFICES ASSUME IInv, ProbeInv, Next, pc = "send", NEW i \in Ifaces,
                      turn' = i, Probes(i), i \notin Dhcp \/ packet_id' # packet_id
               PROVE  \E id \in DOMAIN results' \ DOMAIN results :
                          results'[id].iface = i
    OBVIOUS
  <2>1. Send(i)
    <3>1. i # 0
      BY DEF Ifaces
    <3>2. ~Sent
      BY <3>1 DEF Sent
    <3>3. \E j \in Ifaces : Send(j)
      BY <3>2 DEF Next, Daemon, Network, StartCycle, StartRound, Collected, TimeOut,
                 RecvExhausted, RecvUser, BeginWait, LookUp, Noise, Deliver,
                 Interrupt, Tick
    <3> QED BY <3>3 DEF Send
  <2>2. PICK id \in {NextPingId, NextPortId} : Probe(i, id)
    <3>1. SendPing(i) \/ SendTTL(i)
      BY <2>1 DEF Send, Probes
    <3> QED BY <3>1 DEF SendPing, SendTTL, SendProbe
  <2>3. id \notin DOMAIN results
    BY <2>1, FreshId
  <2> QED BY <2>2, <2>3 DEF Probe
<1> QED BY <1>1, ProbesHold, PTL DEF Spec, ProbesKeptApart

(* An interface is called alive only for an answer to its own probe of     *)
(* this round, or for a packet of others with that probe's id.             *)
THEOREM CreditTheorem == Spec => NoStaleCredit
<1>1. IInv /\ ProbeInv /\ [Next]_vars =>
        [\A i \in Ifaces :
           LookUp(i) /\ puts'[i] # puts[i] => i \in answered \cup foreign]_vars
  <2> SUFFICES ASSUME IInv, ProbeInv, NEW i \in Ifaces, LookUp(i), puts'[i] # puts[i]
               PROVE  i \in answered \cup foreign
    OBVIOUS
  <2>1. Live
    BY DEF LookUp, IsNext, Live
  <2>2. PICK id \in DOMAIN results : results[id].iface = i /\ results[id].rtt >= 0
    <3>1. Mine(i) # {} /\ InTime(results[Min(Mine(i))].rtt)
      BY DEF LookUp, Decide
    <3>2. Mine(i) \subseteq Nat
      BY NextIds DEF Mine, ProbeInv, ProbeType
    <3>3. \E x \in Mine(i) : \A y \in Mine(i) : x <= y
      BY <3>1, <3>2, LeastNatural
    <3>4. Min(Mine(i)) \in Mine(i)
      BY <3>3 DEF Min
    <3>5. results[Min(Mine(i))].rtt \in Int
      BY <3>4 DEF Mine, ProbeInv, ProbeType, Entry
    <3> QED BY <3>1, <3>4, <3>5 DEF Mine, InTime
  <2> QED BY <2>1, <2>2 DEF ProbeInv, CreditInv
<1> QED BY <1>1, ProbesHold, PTL DEF Spec, NoStaleCredit

(* A round is given up within its window only when all its probes are      *)
(* answered or an id came twice.                                           *)
THEOREM WaitTheorem == Spec => WaitsForAll
<1>1. IInv /\ ProbeInv /\ [Next]_vars =>
        [~received /\ received' /\ elapsed < Window /\ ~repeated' =>
           \A id \in DOMAIN results' : results'[id].rtt >= 0]_vars
  <2> SUFFICES ASSUME IInv, ProbeInv, Next, ~received, received', elapsed < Window,
                      ~repeated', NEW id \in DOMAIN results'
               PROVE  results'[id].rtt >= 0
    OBVIOUS
  <2>1. ProbeInv'
    BY NextProbes
  <2>2. CASE TimeOut \/ Network
    <3>1. Cardinality(Missing') = 0
      BY <2>2, NetworkProbes
    <3>2. IsFiniteSet(Missing')
      <4>1. (ProbeType /\ OwnEntry => IsFiniteSet(Missing))'
        BY FewResults, PTL
      <4> QED BY <2>1, <4>1 DEF ProbeInv
    <3>3. Missing' = {}
      BY <3>1, <3>2, FS_EmptySet
    <3>4. ~(results'[id].rtt < 0) /\ results'[id].rtt \in Int
      BY <2>1, <3>3 DEF Missing, ProbeInv, ProbeType, Entry
    <3> QED BY <3>4
  <2>3. CASE \E i \in Ifaces : BeginWait(i)
    BY <2>3, BeginWaitProbes
  <2>4. CASE StartCycle \/ StartRound \/ Sent \/ Collected \/ Interrupt \/ Tick
    BY <2>4 DEF StartCycle, StartRound, Sent, Collected, Interrupt, Tick, shared,
                ForgetProbes
  <2>5. CASE \E i \in Ifaces :
               Send(i) \/ RecvExhausted(i) \/ RecvUser(i) \/ LookUp(i)
    BY <2>5 DEF Send, RecvExhausted, RecvUser, LookUp, shared
  <2> QED BY <2>2, <2>3, <2>4, <2>5 DEF Next, Daemon
<1> QED BY <1>1, ProbesHold, PTL DEF Spec, WaitsForAll
=============================================================================
