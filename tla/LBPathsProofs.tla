---------------------------- MODULE LBPathsProofs ----------------------------
(***************************************************************************)
(* Proofs about LBPaths, for any addresses, gateways and number of changes *)
(* and faults.  The types are inductive as they stand.  OneRuleForAddress  *)
(* is inductive beside them, once it is known that nothing is recorded     *)
(* before init has written its rule.                                       *)
(***************************************************************************)
EXTENDS LBPaths, NatLemmas, TLAPS

NatType ==
    /\ iface_addr \in Addrs \cup {None}
    /\ address \in Addrs \cup {None}
    /\ new_addr \in Addrs \cup {None}
    /\ botched \in BOOLEAN

FreshInv == pc \in {"chain", "init", "initnat"} => address = None

IInv == NatType /\ FreshInv /\ OneRuleForAddress

-----------------------------------------------------------------------------
(* The CHOOSE of the library's Min, for a single number. *)
LEMMA MinOfOne == Min({1}) = 1
<1>1. \E x \in {1} : \A y \in {1} : x <= y
  OBVIOUS
<1> QED BY <1>1 DEF Min

(* Deleting the only rule leaves none. *)
LEMMA DeleteOnly == ASSUME NEW a PROVE Deleted(<<a>>, a) = <<>>
<1>1. \E i \in 1..Len(<<a>>) : <<a>>[i] = a
  OBVIOUS
<1>2. {i \in 1..Len(<<a>>) : <<a>>[i] = a} = {1}
  OBVIOUS
<1>3. SelectInSeq(<<a>>, LAMBDA v : v = a) = 1
  BY <1>2, MinOfOne DEF SelectInSeq
<1>4. RemoveAt(<<a>>, 1) = <<>>
  BY DEF RemoveAt
<1> QED BY <1>1, <1>3, <1>4 DEF Deleted, RemoveFirst

(* The first rule always fits. *)
LEMMA AddFirst == ASSUME NEW a PROVE Added(<<>>, a) = <<a>>
BY PathsAssumption DEF Added

(* The invariant holds when the program starts. *)
LEMMA InitInv == Init => IInv
<1> SUFFICES ASSUME Init PROVE IInv
  OBVIOUS
<1>1. pc = "chain" /\ address = None /\ new_addr = None
  BY DEF Init
<1>2. NatType
  BY <1>1 DEF Init, NatType
<1>3. FreshInv /\ OneRuleForAddress
  BY <1>1 DEF FreshInv, OneRuleForAddress
<1> QED BY <1>2, <1>3 DEF IInv

(* The commands of update_paths keep one rule for the recorded address,    *)
(* unless one is lost, or fails while an address is replaced.              *)
LEMMA UpdateNatInv == IInv /\ UpdateNat => IInv'
<1> SUFFICES ASSUME IInv, UpdateNat PROVE IInv'
  OBVIOUS
<1>0. /\ pc = "snat" /\ pc' = Return
      /\ UNCHANGED <<iface_addr, new_addr, source_nat>>
  BY DEF UpdateNat, external, config
<1>1. pc' \notin {"chain", "init", "initnat"}
  BY <1>0 DEF Return
<1>2. CASE UNCHANGED <<snat, address, faults, botched>>
  BY <1>0, <1>1, <1>2 DEF IInv, NatType, FreshInv, OneRuleForAddress
<1>3. ASSUME source_nat, new_addr # address,
             NEW del \in Outcomes, NEW add \in Outcomes,
             address = None => del = "done", new_addr = None => add = "done",
             ReplaceRule(del, add),
             botched' = (botched \/ Botches(del, add))
      PROVE  IInv'
  <2>0. {del, add} \subseteq {"done", "failed", "lost"}
    BY PathsAssumption
  <2>1. NatType'
    BY <1>0, <1>3 DEF IInv, NatType, ReplaceRule, Botches
  <2>2. OneRuleForAddress'
    <3> SUFFICES ASSUME ~botched'
                 PROVE  snat' = IF address' = None THEN <<>> ELSE <<address'>>
      BY DEF OneRuleForAddress
    <3>1. ~botched /\ del # "lost" /\ add # "lost"
      BY <1>3 DEF Botches
    <3>2. address # None /\ new_addr # None => del # "failed" /\ add # "failed"
      BY <1>3 DEF Botches
    <3>3. snat = IF address = None THEN <<>> ELSE <<address>>
      BY <1>0, <1>3, <3>1 DEF IInv, OneRuleForAddress
    <3>4. CASE address = None
      BY <1>3, <2>0, <3>1, <3>3, <3>4, AddFirst DEF ReplaceRule
    <3>5. CASE address # None /\ del = "done"
      <4>1. snat = <<address>> /\ Deleted(snat, address) = <<>>
        BY <3>3, <3>5, DeleteOnly
      <4>2. Contains(snat, address)
        BY <4>1 DEF Contains
      <4>3. add = "done"
        BY <2>0, <3>1, <3>2, <3>5, <1>3
      <4> QED BY <1>3, <3>5, <4>1, <4>2, <4>3, AddFirst DEF ReplaceRule
    <3>6. CASE address # None /\ del = "failed"
      <4>1. new_addr = None /\ add = "done"
        BY <1>3, <3>2, <3>6
      <4> QED BY <1>3, <3>3, <3>6, <4>1 DEF ReplaceRule
    <3> QED BY <2>0, <3>1, <3>4, <3>5, <3>6
  <2> QED BY <2>1, <2>2, <1>1 DEF IInv, FreshInv
<1> QED BY <1>2, <1>3 DEF UpdateNat

(* The flush of init leaves no rule, or the invariant nothing to say.      *)
LEMMA InitChainInv == IInv /\ InitChain => IInv'
<1> SUFFICES ASSUME IInv, InitChain PROVE IInv'
  OBVIOUS
<1>1. /\ address = None /\ pc' = "init"
      /\ UNCHANGED <<iface_addr, address, new_addr, source_nat>>
  BY DEF InitChain, IInv, FreshInv, external, health, config
<1>2. source_nat => botched' = (snat' # <<>>)
  BY DEF InitChain
<1>3. botched' \in BOOLEAN
  BY DEF InitChain, IInv, NatType
<1> QED BY <1>1, <1>2, <1>3
        DEF IInv, NatType, FreshInv, OneRuleForAddress

(* The nat command of init writes the first rule and records its address.  *)
LEMMA InitNatInv == IInv /\ InitNat => IInv'
<1> SUFFICES ASSUME IInv, InitNat PROVE IInv'
  OBVIOUS
<1>1. /\ address = None /\ pc = "initnat" /\ pc' = "top"
      /\ UNCHANGED <<iface_addr, new_addr, source_nat>>
  BY DEF InitNat, IInv, FreshInv, external, config
<1>2. CASE ~source_nat
  <2>1. UNCHANGED <<snat, address, botched>>
    BY <1>2 DEF InitNat
  <2> QED BY <1>1, <1>2, <2>1 DEF IInv, NatType, FreshInv, OneRuleForAddress
<1>3. CASE source_nat
  <2>1. PICK add \in Outcomes, a \in Fetched : WriteRule(add, a)
    BY <1>3 DEF InitNat
  <2>2. add \in {"done", "failed", "lost"} /\ a \in Addrs \cup {None}
    BY <2>1, PathsAssumption DEF Fetched, IInv, NatType
  <2>3. NatType'
    BY <1>1, <2>1, <2>2 DEF IInv, NatType, WriteRule
  <2>4. OneRuleForAddress'
    <3> SUFFICES ASSUME ~botched'
                 PROVE  snat' = IF address' = None THEN <<>> ELSE <<address'>>
      BY DEF OneRuleForAddress
    <3>1. ~botched /\ (add = "lost" => a = None)
      BY <2>1 DEF WriteRule
    <3>2. snat = <<>>
      BY <1>1, <1>3, <3>1 DEF IInv, OneRuleForAddress
    <3> QED BY <1>1, <2>1, <2>2, <3>1, <3>2, AddFirst DEF WriteRule
  <2> QED BY <1>1, <2>3, <2>4 DEF IInv, FreshInv
<1> QED BY <1>2, <1>3

(* All other steps leave the rules and the recorded address alone. *)
LEMMA OtherInv ==
    ASSUME IInv,
           \/ InitRoute \/ Top \/ Fetch \/ InsertDefault \/ ClearCheck
           \/ HealthTest \/ Run \/ StartCycle
           \/ AddressChanges \/ LeaseChanges \/ RouteLost \/ CheckPath
           \/ PacketArrives \/ UNCHANGED vars
    PROVE  IInv'
<1>1. UNCHANGED <<snat, address, botched, source_nat>>
  BY DEF InitRoute, Top, Fetch, InsertDefault, ClearCheck, HealthTest, Run,
         StartCycle, AddressChanges, LeaseChanges, RouteLost, CheckPath,
         PacketArrives, vars, kernel, health, config
<1>2. /\ iface_addr' \in Addrs \cup {None}
      /\ new_addr' \in Addrs \cup {None}
  BY DEF InitRoute, Top, Fetch, Fetched, InsertDefault, ClearCheck, HealthTest,
         Run, StartCycle, AddressChanges, LeaseChanges, RouteLost, CheckPath,
         PacketArrives, vars, external, IInv, NatType
<1>3. pc' \in {"chain", "init", "initnat"} =>
          pc \in {"chain", "init", "initnat"} /\ (pc = "chain" => pc' = "chain")
  BY DEF InitRoute, Top, Fetch, InsertDefault, ClearCheck, HealthTest, Run,
         StartCycle, AddressChanges, LeaseChanges, RouteLost, CheckPath,
         PacketArrives, vars, Return
<1>4. pc' # "chain" => pc # "chain"
  BY DEF InitRoute, Top, Fetch, InsertDefault, ClearCheck, HealthTest, Run,
         StartCycle, AddressChanges, LeaseChanges, RouteLost, CheckPath,
         PacketArrives, vars
<1> QED BY <1>1, <1>2, <1>3, <1>4
        DEF IInv, NatType, FreshInv, OneRuleForAddress

(* Every step keeps the invariant. *)
LEMMA NextInv == IInv /\ [Next]_vars => IInv'
BY UpdateNatInv, InitChainInv, InitNatInv, OtherInv DEF Next, Daemon

(* Whatever changes around the daemon, its interface has exactly the nat   *)
(* rule it has recorded, until the flush of init leaves one, a nat command *)
(* is lost, or one fails while an address is replaced.                     *)
THEOREM OneRuleTheorem == Spec => []OneRuleForAddress
<1>1. IInv => OneRuleForAddress
  BY DEF IInv
<1> QED BY <1>1, InitInv, NextInv, PTL DEF Spec

-----------------------------------------------------------------------------
(* Deleting a rule, the first of those alike, leaves rules, one fewer or   *)
(* as many.                                                                *)
LEMMA DeletedType ==
    ASSUME NEW S, NEW s \in Seq(S), NEW a
    PROVE  Deleted(s, a) \in Seq(S) /\ Len(Deleted(s, a)) <= Len(s)
<1> DEFINE T == {i \in 1..Len(s) : s[i] = a}
           n == SelectInSeq(s, LAMBDA v : v = a)
<1>1. CASE T = {}
  BY <1>1 DEF Deleted, RemoveFirst
<1>2. CASE T # {}
  <2>1. n = Min(T)
    BY <1>2 DEF SelectInSeq
  <2>2. Min(T) \in T
    <3>1. T \subseteq Nat
      OBVIOUS
    <3>2. \E x \in T : \A y \in T : x <= y
      BY <1>2, <3>1, LeastNatural
    <3> QED BY <3>2 DEF Min
  <2>3. n \in 1..Len(s)
    BY <2>1, <2>2
  <2>4. Deleted(s, a) = RemoveAt(s, n)
    BY <1>2 DEF Deleted, RemoveFirst
  <2> HIDE DEF T, n
  <2>5. /\ SubSeq(s, 1, n - 1) \in Seq(S) /\ Len(SubSeq(s, 1, n - 1)) = n - 1
        /\ SubSeq(s, n + 1, Len(s)) \in Seq(S)
        /\ Len(SubSeq(s, n + 1, Len(s))) = Len(s) - n
    BY <2>3
  <2>6. /\ RemoveAt(s, n) \in Seq(S)
        /\ Len(RemoveAt(s, n)) = (n - 1) + (Len(s) - n)
    BY <2>5 DEF RemoveAt
  <2> QED BY <2>3, <2>4, <2>6
<1> QED BY <1>1, <1>2

(* An added rule fits, or is not added.                                    *)
LEMMA AddedType ==
    ASSUME NEW S, NEW s \in Seq(S), Len(s) <= MaxRules, NEW a \in S
    PROVE  Added(s, a) \in Seq(S) /\ Len(Added(s, a)) <= MaxRules
BY PathsAssumption DEF Added

(* What may fail keeps within the bound on faults.                         *)
LEMMA ChargeType ==
    ASSUME faults \in 0..MaxFaults, NEW n \in Nat, Charge(n)
    PROVE  faults' \in 0..MaxFaults
BY PathsAssumption DEF Charge

LEMMA CostType == ASSUME NEW o PROVE Cost(o) \in Nat
BY DEF Cost

LEMMA FetchType ==
    ASSUME TypeOK, NEW a \in Fetched
    PROVE  a \in Addrs \cup {None} /\ FetchCost(a) \in Nat
BY DEF TypeOK, Fetched, FetchCost

(* The gateway is one, or there is none.                                   *)
LEMMA GatewayType == TypeOK => Gateway \in Hops \cup {None}
BY DEF TypeOK, Gateway

(* The commands of update_paths keep the types.                            *)
LEMMA UpdateNatType == TypeOK /\ UpdateNat => TypeOK'
<1> SUFFICES ASSUME TypeOK, UpdateNat PROVE TypeOK'
  OBVIOUS
<1>0. pc' = Return /\ UNCHANGED <<config, external, table, dhcp_nexthop,
                        is_active, g_check_path, caller, new_addr, asked>>
  BY DEF UpdateNat
<1>1. pc' \in {"clear", "next"}
  BY <1>0 DEF Return
<1>2. CASE UNCHANGED <<snat, address, faults, botched>>
  BY <1>0, <1>1, <1>2 DEF TypeOK, config, external
<1>3. ASSUME NEW del \in Outcomes, NEW add \in Outcomes,
             Charge(Cost(del) + Cost(add)),
             ReplaceRule(del, add),
             botched' = (botched \/ Botches(del, add))
      PROVE  TypeOK'
  <2> DEFINE gone == IF address # None /\ del = "done"
                     THEN Deleted(snat, address) ELSE snat
  <2>1. gone \in Seq(Addrs) /\ Len(gone) <= MaxRules
    <3>1. /\ Deleted(snat, address) \in Seq(Addrs)
          /\ Len(Deleted(snat, address)) <= Len(snat)
      BY DeletedType DEF TypeOK
    <3>2. snat \in Seq(Addrs) /\ Len(snat) <= MaxRules
      BY DEF TypeOK
    <3> QED BY <3>1, <3>2, PathsAssumption
  <2>2. /\ snat' = IF new_addr # None /\ add = "done"
                   THEN Added(gone, new_addr) ELSE gone
        /\ address' \in {address, new_addr}
    BY <1>3 DEF ReplaceRule
  <2> HIDE DEF gone
  <2>3. snat' \in Seq(Addrs) /\ Len(snat') <= MaxRules
    <3>1. CASE new_addr # None /\ add = "done"
      <4>1. new_addr \in Addrs
        BY <3>1 DEF TypeOK
      <4> QED BY <4>1, <2>1, <2>2, <3>1, AddedType
    <3> QED BY <3>1, <2>1, <2>2
  <2>4. faults' \in 0..MaxFaults
    <3>1. Cost(del) + Cost(add) \in Nat
      BY CostType
    <3> QED BY <3>1, <1>3, ChargeType DEF TypeOK
  <2>5. address' \in Addrs \cup {None} /\ botched' \in BOOLEAN
    BY <1>3, <2>2 DEF TypeOK, Botches
  <2> QED BY <1>0, <1>1, <2>3, <2>4, <2>5 DEF TypeOK, config, external
<1> QED BY <1>2, <1>3 DEF UpdateNat

(* So do the nat commands of init.                                         *)
LEMMA InitChainType == TypeOK /\ InitChain => TypeOK'
<1> SUFFICES ASSUME TypeOK, InitChain PROVE TypeOK'
  OBVIOUS
<1>1. pc' = "init" /\ UNCHANGED <<config, external, table, health,
            g_check_path, caller, new_addr, asked>>
  BY DEF InitChain
<1>2. /\ snat' \in Seq(Addrs) /\ Len(snat') <= MaxRules
      /\ faults' \in 0..MaxFaults /\ botched' \in BOOLEAN
  <2>1. CASE UNCHANGED <<snat, faults, botched>>
    BY <2>1 DEF TypeOK
  <2>2. ASSUME NEW flush \in Outcomes, Charge(Cost(flush)),
               snat' = IF flush = "done" THEN <<>> ELSE snat,
               botched' = (snat' # <<>>)
        PROVE  /\ snat' \in Seq(Addrs) /\ Len(snat') <= MaxRules
               /\ faults' \in 0..MaxFaults /\ botched' \in BOOLEAN
    <3>1. faults' \in 0..MaxFaults
      BY <2>2, CostType, ChargeType DEF TypeOK
    <3>2. <<>> \in Seq(Addrs) /\ Len(<<>>) <= MaxRules
      BY PathsAssumption
    <3> QED BY <2>2, <3>1, <3>2 DEF TypeOK
  <2> QED BY <2>1, <2>2 DEF InitChain
<1> QED BY <1>1, <1>2 DEF TypeOK, config, external, health

LEMMA InitNatType == TypeOK /\ InitNat => TypeOK'
<1> SUFFICES ASSUME TypeOK, InitNat PROVE TypeOK'
  OBVIOUS
<1>1. pc' = "top" /\ UNCHANGED <<config, external, table,
            dhcp_nexthop, is_active, g_check_path, caller, new_addr, asked>>
  BY DEF InitNat
<1>2. /\ snat' \in Seq(Addrs) /\ Len(snat') <= MaxRules
      /\ address' \in Addrs \cup {None}
      /\ faults' \in 0..MaxFaults /\ botched' \in BOOLEAN
  <2>1. CASE UNCHANGED <<snat, address, faults, botched>>
    BY <2>1 DEF TypeOK
  <2>2. ASSUME NEW add \in Outcomes, NEW a \in Fetched,
               Charge(Cost(add) + FetchCost(a)), WriteRule(add, a)
        PROVE  /\ snat' \in Seq(Addrs) /\ Len(snat') <= MaxRules
               /\ address' \in Addrs \cup {None}
               /\ faults' \in 0..MaxFaults /\ botched' \in BOOLEAN
    <3>1. faults' \in 0..MaxFaults
      <4>1. Cost(add) + FetchCost(a) \in Nat
        BY CostType, FetchType
      <4> QED BY <2>2, <4>1, ChargeType DEF TypeOK
    <3>2. a \in Addrs \cup {None}
      BY FetchType
    <3>3. a # None => Added(snat, a) \in Seq(Addrs)
                      /\ Len(Added(snat, a)) <= MaxRules
      BY <3>2, AddedType DEF TypeOK
    <3> QED BY <2>2, <3>1, <3>2, <3>3 DEF TypeOK, WriteRule
  <2> QED BY <2>1, <2>2 DEF InitNat
<1> QED BY <1>1, <1>2 DEF TypeOK, config, external

(* And the commands that force a route.                                    *)
LEMMA RouteType == TypeOK /\ (InitRoute \/ InsertDefault) => TypeOK'
<1> SUFFICES ASSUME TypeOK, InitRoute \/ InsertDefault PROVE TypeOK'
  OBVIOUS
<1>1. faults' \in 0..MaxFaults /\ table' \in Hops \cup {None}
  <2>1. CASE UNCHANGED <<table, faults>>
    BY <2>1 DEF TypeOK
  <2>2. ASSUME NEW replace \in Outcomes, Charge(Cost(replace)),
               table' \in {table, Gateway}
        PROVE  faults' \in 0..MaxFaults /\ table' \in Hops \cup {None}
    <3>1. faults' \in 0..MaxFaults
      BY <2>2, CostType, ChargeType DEF TypeOK
    <3> QED BY <2>2, <3>1, GatewayType DEF TypeOK
  <2>3. ASSUME NEW show \in Outcomes, NEW replace \in Outcomes,
               Charge(Cost(show) + Cost(replace)), table' \in {table, Gateway}
        PROVE  faults' \in 0..MaxFaults /\ table' \in Hops \cup {None}
    <3>1. Cost(show) + Cost(replace) \in Nat
      BY CostType
    <3>2. faults' \in 0..MaxFaults
      BY <2>3, <3>1, ChargeType DEF TypeOK
    <3> QED BY <2>3, <3>2, GatewayType DEF TypeOK
  <2> QED BY <2>1, <2>2, <2>3 DEF InitRoute, InsertDefault
<1>2. /\ pc' \in {"initnat", "snat"}
      /\ UNCHANGED <<config, external, snat, botched, health, g_check_path,
                     caller, new_addr, asked>>
  BY DEF InitRoute, InsertDefault
<1> QED BY <1>1, <1>2 DEF TypeOK, config, external, health

(* And the fetching of the address.                                        *)
LEMMA FetchStepType == TypeOK /\ Fetch => TypeOK'
<1> SUFFICES ASSUME TypeOK, Fetch PROVE TypeOK'
  OBVIOUS
<1>1. /\ pc' \in {"route", "clear", "next"} /\ asked' = FALSE
      /\ UNCHANGED <<config, external, table, snat, botched, health,
                     g_check_path, caller>>
  BY DEF Fetch, Return
<1>2. new_addr' \in Addrs \cup {None} /\ faults' \in 0..MaxFaults
  <2>1. CASE UNCHANGED <<new_addr, faults>>
    BY <2>1 DEF TypeOK
  <2>2. CASE new_addr' \in Fetched /\ Charge(FetchCost(new_addr'))
    <3>1. new_addr' \in Addrs \cup {None} /\ FetchCost(new_addr') \in Nat
      BY <2>2, FetchType
    <3> QED BY <2>2, <3>1, ChargeType DEF TypeOK
  <2> QED BY <2>1, <2>2 DEF Fetch
<1> QED BY <1>1, <1>2 DEF TypeOK, config, external, health

(* And all steps that execute nothing.                                     *)
LEMMA StillType ==
    ASSUME TypeOK,
           \/ Top \/ ClearCheck \/ HealthTest \/ Run \/ StartCycle
           \/ AddressChanges \/ LeaseChanges \/ RouteLost \/ CheckPath
           \/ PacketArrives \/ UNCHANGED vars
    PROVE  TypeOK'
<1> USE PathsAssumption DEF TypeOK
<1>1. CASE Top
  BY <1>1 DEF Top, config, external, kernel, health
<1>2. CASE PacketArrives
  BY <1>2 DEF PacketArrives, config, external, kernel, health
<1>3. CASE ClearCheck \/ HealthTest \/ Run \/ StartCycle
  BY <1>3 DEF ClearCheck, HealthTest, Run, StartCycle,
              config, external, kernel, health
<1>4. CASE AddressChanges
  BY <1>4 DEF AddressChanges, Change, config, kernel, health
<1>5. CASE LeaseChanges
  BY <1>5 DEF LeaseChanges, Change, config, kernel, health
<1>6. CASE RouteLost
  BY <1>6 DEF RouteLost, Change, config, health
<1>7. CASE CheckPath
  BY <1>7 DEF CheckPath, Change, config, kernel, health
<1>8. CASE UNCHANGED vars
  BY <1>8 DEF vars, config, external, kernel, health
<1> QED BY <1>1, <1>2, <1>3, <1>4, <1>5, <1>6, <1>7, <1>8

(* The rules stay addresses and within their number, the gateway recorded  *)
(* one of a lease or none, and the daemon where the code can be.           *)
THEOREM TypeTheorem == Spec => []TypeOK
<1>1. Init => TypeOK
  <2> SUFFICES ASSUME Init PROVE TypeOK
    OBVIOUS
  <2>1. snat \in Seq(Addrs) /\ Len(snat) <= MaxRules
    <3>1. <<>> \in Seq(Addrs) /\ Len(<<>>) <= MaxRules
      BY PathsAssumption
    <3>2. \A a \in Addrs : <<a>> \in Seq(Addrs) /\ Len(<<a>>) <= MaxRules
      BY PathsAssumption
    <3>3. snat = <<>> \/ \E a \in Addrs : snat = <<a>>
      BY DEF Init
    <3> QED BY <3>1, <3>2, <3>3
  <2>2. 0 \in 0..MaxChanges /\ 0 \in 0..MaxFaults
    BY PathsAssumption
  <2> QED BY <2>1, <2>2 DEF Init, TypeOK
<1>2. TypeOK /\ [Next]_vars => TypeOK'
  BY UpdateNatType, InitChainType, InitNatType, RouteType, FetchStepType,
     StillType DEF Next, Daemon
<1> QED BY <1>1, <1>2, PTL DEF Spec
=============================================================================
