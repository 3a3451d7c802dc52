------------------------ MODULE LBDataFactoryProofs ------------------------
(***************************************************************************)
(* Proofs about LBDataFactory, for any files and words.                    *)
(*                                                                         *)
(* The types say that each iterator is unset or refers to an entry.        *)
(*                                                                         *)
(* That the index of an interface is its own needs that no index exceeds   *)
(* the counter.  That the indices follow the file in its proper form needs *)
(* Nested, which relates depth and path to the braces of the lines read:   *)
(* the parser names an interface exactly at the lines that do.             *)
(*                                                                         *)
(* Guided says, for a proper file, to which entry each iterator is by the  *)
(* block the next line is in, so that none is used unset.  Recorded says   *)
(* what the data of an interface is by its lines, and needs that the       *)
(* iterator to a test has the number of its block, Numbered.  Made says    *)
(* which type heading made each test, and ReadUnder under which number a   *)
(* test is looked for, so that a setting is cast wrongly only if it does   *)
(* not fit the type its own test was made of.  RulesRecorded says what a   *)
(* rule is by its lines, where the iterator is to the last one with a      *)
(* legal number, AtLastRule, and a line in a rule is in the last one there *)
(* is, InBlock.                                                            *)
(***************************************************************************)
EXTENDS LBDataFactory, NatLemmas, TLAPS

(* Functions on some of the members of K, what a map holds. *)
Maps(K, V) == UNION {[D -> V] : D \in SUBSET K}

(* The keys of settings: the words of the files, and those of the rules    *)
(* with their section.                                                     *)
Keys     == {"", "on"} \cup UNION {{f[k].key : k \in DOMAIN f} : f \in Files}
Contents == Maps(Keys \cup (Keys \X Keys), Values \cup {"true"})
Test     == [type : Known.type, settings : Contents]
Tests    == Maps(Nat, Test)
Interface  == [index : Nat, settings : Contents, tests : Tests]
Interfaces == Maps(Values, Interface)
Dists    == Maps(Values, Nat)
Rule     == [settings : Contents, dist : Dists]
Rules    == Maps(Nat, Rule)

(* The position in the file. *)
PlaceOK ==
    /\ file \in Files /\ at \in 0..Len(file)
    /\ depth \in Int
    /\ outcome = "reading" => depth \in 0..MaxDepth
    /\ outcome \in {"reading", "loaded", "failed", "undefined"}
    /\ path \in [0..MaxDepth -> Keys]

(* The data and the iterators, each to something there is. *)
DataOK ==
    /\ index \in Nat /\ number \in Nat
    /\ globals \in Contents
    /\ health \in Interfaces
    /\ rules \in Rules
    /\ health_iter \in DOMAIN health \cup {NoIface}
    /\ rule_iter \in DOMAIN rules \cup {NoRule}
    /\ test_iter # Unset =>
          test_iter \in Values \X Nat /\ test_iter[1] \in DOMAIN health
    /\ rule_iface_iter # Unset =>
          /\ rule_iface_iter \in Nat \X Values
          /\ rule_iface_iter[1] \in DOMAIN rules
          /\ rule_iface_iter[2] \in DOMAIN rules[rule_iface_iter[1]].dist

Types == PlaceOK /\ DataOK

-----------------------------------------------------------------------------
LEMMA MapsType ==
    ASSUME NEW K, NEW V, NEW f \in Maps(K, V)
    PROVE  /\ f \in [DOMAIN f -> V] /\ DOMAIN f \subseteq K
           /\ \A k \in DOMAIN f : f[k] \in V
  BY DEF Maps

LEMMA MapsIn ==
    ASSUME NEW K, NEW V, NEW D \in SUBSET K, NEW f \in [D -> V]
    PROVE  f \in Maps(K, V) /\ DOMAIN f = D
  BY DEF Maps

LEMMA AssignedType ==
    ASSUME NEW K, NEW V, NEW f \in Maps(K, V), NEW k \in K, NEW v \in V
    PROVE  /\ Assigned(f, k, v) \in Maps(K, V)
           /\ DOMAIN Assigned(f, k, v) = DOMAIN f \cup {k}
           /\ Assigned(f, k, v)[k] = v
           /\ \A x \in DOMAIN f \ {k} : Assigned(f, k, v)[x] = f[x]
<1> DEFINE g == Assigned(f, k, v)
<1>1. g = [x \in DOMAIN f \cup {k} |-> IF x = k THEN v ELSE f[x]]
  BY DEF Assigned
<1>2. DOMAIN f \cup {k} \in SUBSET K /\ \A x \in DOMAIN f : f[x] \in V
  BY MapsType
<1> HIDE DEF g
<1>3. g \in [DOMAIN f \cup {k} -> V]
  BY <1>1, <1>2
<1>4. g \in Maps(K, V) /\ DOMAIN g = DOMAIN f \cup {k}
  BY <1>2, <1>3, MapsIn
<1> QED BY <1>1, <1>4 DEF g

LEMMA InsertedType ==
    ASSUME NEW K, NEW V, NEW f \in Maps(K, V), NEW k \in K, NEW v \in V
    PROVE  /\ Inserted(f, k, v) \in Maps(K, V)
           /\ DOMAIN Inserted(f, k, v) = DOMAIN f \cup {k}
           /\ \A x \in DOMAIN f : Inserted(f, k, v)[x] = f[x]
           /\ k \notin DOMAIN f => Inserted(f, k, v)[k] = v
<1>1. CASE k \in DOMAIN f
  BY <1>1 DEF Inserted
<1>2. CASE k \notin DOMAIN f
  <2> DEFINE g == Inserted(f, k, v)
  <2>1. g = [x \in DOMAIN f \cup {k} |-> IF x = k THEN v ELSE f[x]]
    BY <1>2 DEF Inserted, Assigned
  <2>2. DOMAIN f \cup {k} \in SUBSET K /\ \A x \in DOMAIN f : f[x] \in V
    BY MapsType
  <2> HIDE DEF g
  <2>3. g \in [DOMAIN f \cup {k} -> V]
    BY <2>1, <2>2
  <2>4. g \in Maps(K, V) /\ DOMAIN g = DOMAIN f \cup {k}
    BY <2>2, <2>3, MapsIn
  <2> QED BY <1>2, <2>1, <2>4 DEF g
<1> QED BY <1>1, <1>2

LEMMA UpdatedType ==
    ASSUME NEW K, NEW V, NEW f \in Maps(K, V), NEW k \in DOMAIN f, NEW v \in V
    PROVE  /\ [f EXCEPT ![k] = v] \in Maps(K, V)
           /\ DOMAIN [f EXCEPT ![k] = v] = DOMAIN f
           /\ [f EXCEPT ![k] = v][k] = v
           /\ \A x \in DOMAIN f \ {k} : [f EXCEPT ![k] = v][x] = f[x]
<1>1. f \in [DOMAIN f -> V] /\ DOMAIN f \subseteq K
  BY MapsType
<1>2. [f EXCEPT ![k] = v] \in [DOMAIN f -> V]
  BY <1>1
<1>3. [f EXCEPT ![k] = v] \in Maps(K, V)
  BY <1>1, <1>2, MapsIn
<1> QED BY <1>1, <1>3

LEMMA EmptyType ==
    ASSUME NEW K, NEW V
    PROVE  Empty \in Maps(K, V) /\ DOMAIN Empty = {}
<1>1. Empty \in [{} -> V] /\ {} \in SUBSET K
  BY DEF Empty
<1> QED BY <1>1, MapsIn

-----------------------------------------------------------------------------
(* The words of a line.                                                    *)
LEMMA LineType ==
    ASSUME Types, at < Len(file)
    PROVE  /\ at + 1 \in DOMAIN file /\ at + 1 \in 1..Len(file)
           /\ file[at + 1].key \in Keys
           /\ file[at + 1].value \in Values
           /\ Lower[file[at + 1].value] \in Values
           /\ file[at + 1].brace \in {"", "{", "}"}
<1>1. file \in Seq(Range(file)) /\ file \in Files
  BY FactoryAssumption DEF Types, PlaceOK
<1>2. at + 1 \in DOMAIN file /\ at + 1 \in 1..Len(file)
  BY <1>1 DEF Types, PlaceOK
<1>3. file[at + 1].value \in Values /\ file[at + 1].brace \in Brace
  BY <1>1, <1>2, FactoryAssumption
<1>4. Lower[file[at + 1].value] \in Values
  BY <1>3, FactoryAssumption
<1>5. file[at + 1].key \in Keys
  <2>1. file[at + 1].key \in {file[k].key : k \in DOMAIN file}
    BY <1>2
  <2> QED BY <1>1, <2>1 DEF Keys
<1> QED BY <1>2, <1>3, <1>4, <1>5 DEF Brace

LEMMA PlaceType ==
    ASSUME Types
    PROVE  /\ Len(file) \in Nat /\ at \in Nat /\ at <= Len(file)
           /\ MaxDepth \in Nat /\ MaxDepth >= 1
           /\ outcome = "reading" => depth \in Nat /\ depth <= MaxDepth
           /\ path \in [0..MaxDepth -> Keys]
<1>1. file \in Seq(Range(file)) /\ MaxDepth \in Nat /\ MaxDepth # 0
  BY FactoryAssumption DEF Types, PlaceOK
<1>2. /\ at \in 0..Len(file) /\ outcome = "reading" => depth \in 0..MaxDepth
      /\ path \in [0..MaxDepth -> Keys]
  BY DEF Types, PlaceOK
<1>3. Len(file) \in Nat
  BY <1>1
<1> QED BY <1>1, <1>2, <1>3

LEMMA NumberType ==
    ASSUME NEW v \in Values
    PROVE  Number[v] \in Nat
  BY FactoryAssumption

LEMMA InitTypes == Init => Types
<1> SUFFICES ASSUME Init PROVE Types
  OBVIOUS
<1>1. /\ file \in Files /\ at = 0 /\ depth = 0 /\ outcome = "reading"
      /\ path = [d \in 0..MaxDepth |-> ""] /\ index = 0 /\ number = 0
      /\ health_iter = NoIface /\ test_iter = Unset /\ rule_iter = NoRule
      /\ rule_iface_iter = Unset /\ globals = Empty /\ health = Empty
      /\ rules = Empty
  BY DEF Init
<1>2. file \in Seq(Range(file)) /\ MaxDepth \in Nat
  BY <1>1, FactoryAssumption
<1>3. PlaceOK
  <2>1. path \in [0..MaxDepth -> Keys]
    BY <1>1 DEF Keys
  <2>2. 0 \in 0..Len(file) /\ 0 \in 0..MaxDepth
    BY <1>2
  <2>3. at \in 0..Len(file) /\ depth \in 0..MaxDepth /\ depth \in Int
    <3>1. 0 \in Int
      OBVIOUS
    <3> QED BY <1>1, <2>2, <3>1, Zenon
  <2> QED BY <1>1, <2>1, <2>3, Zenon DEF PlaceOK
<1>4. globals \in Contents /\ health \in Interfaces /\ rules \in Rules
  BY <1>1, EmptyType DEF Contents, Interfaces, Rules
<1>5. DataOK
  BY <1>1, <1>4 DEF DataOK
<1> QED BY <1>3, <1>5 DEF Types

-----------------------------------------------------------------------------
(* Each function of the parser, on words of the file.                      *)
LEMMA IgnoredType ==
    ASSUME Types, UNCHANGED <<index, number, iters, data>>
    PROVE  DataOK'
  BY DEF Types, DataOK, iters, data

LEMMA GlobalType ==
    ASSUME Types, NEW key \in Keys, NEW value \in Values \cup {"true"},
           ProcessGlobal(key, value)
    PROVE  DataOK'
<1>1. globals' \in Contents
  BY AssignedType DEF Types, DataOK, ProcessGlobal, Contents
<1> QED BY <1>1 DEF Types, DataOK, ProcessGlobal, iters

LEMMA HealthType ==
    ASSUME Types, NEW value \in Values, ProcessHealth(value)
    PROVE  DataOK'
<1>1. CASE value = ""
  BY <1>1, IgnoredType DEF ProcessHealth
<1>2. CASE value # ""
  <2> DEFINE entry == [index |-> index + 1, settings |-> Empty, tests |-> Empty]
  <2>1. entry \in Interface
    <3>1. Empty \in Contents /\ Empty \in Tests
      BY EmptyType DEF Contents, Tests
    <3> QED BY <3>1 DEF Types, DataOK, Interface
  <2>2. /\ health' = Inserted(health, value, entry)
        /\ index' = index + 1 /\ health_iter' = value
        /\ UNCHANGED <<number, test_iter, rule_iter, rule_iface_iter, globals,
                       rules>>
    BY <1>2 DEF ProcessHealth, NewInterface
  <2> HIDE DEF entry
  <2>3. health' \in Interfaces /\ DOMAIN health' = DOMAIN health \cup {value}
    <3>1. health \in Interfaces
      BY DEF Types, DataOK
    <3> QED BY <2>1, <2>2, <3>1, InsertedType DEF Interfaces
  <2> QED BY <2>2, <2>3 DEF Types, DataOK
<1> QED BY <1>1, <1>2

(* The entry of an interface with other settings, or other tests.          *)
LEMMA InterfaceType ==
    ASSUME Types, NEW i \in DOMAIN health
    PROVE  /\ health[i] \in Interface
           /\ i \in Values
           /\ \A s \in Contents :
                 /\ [health EXCEPT ![i].settings = s] \in Interfaces
                 /\ DOMAIN [health EXCEPT ![i].settings = s] = DOMAIN health
           /\ \A t \in Tests :
                 /\ [health EXCEPT ![i].tests = t] \in Interfaces
                 /\ DOMAIN [health EXCEPT ![i].tests = t] = DOMAIN health
<1>1. /\ health[i] \in Interface
      /\ i \in Values
  <2>1. health \in Interfaces
    BY DEF Types, DataOK
  <2> HIDE DEF Types
  <2> QED BY <2>1, MapsType DEF Interfaces
<1>2. ASSUME NEW s \in Contents
      PROVE  [health[i] EXCEPT !.settings = s] \in Interface
  BY <1>1 DEF Interface
<1>3. ASSUME NEW t \in Tests
      PROVE  [health[i] EXCEPT !.tests = t] \in Interface
  BY <1>1 DEF Interface
<1>4. health \in Interfaces
  BY DEF Types, DataOK
<1>5. ASSUME NEW e \in Interface
      PROVE  /\ [health EXCEPT ![i] = e] \in Interfaces
             /\ DOMAIN [health EXCEPT ![i] = e] = DOMAIN health
  BY <1>4, UpdatedType DEF Interfaces
<1> QED BY <1>1, <1>2, <1>3, <1>5

LEMMA HealthInterfaceType ==
    ASSUME Types, NEW key \in Keys, NEW value \in Values,
           ProcessHealthInterface(key, value)
    PROVE  DataOK'
<1>1. CASE ~HealthSetting(key, value) \/ health_iter = NoIface
  BY <1>1, IgnoredType DEF ProcessHealthInterface, Ignored, Undefined
<1>2. CASE HealthSetting(key, value) /\ health_iter # NoIface
  <2> DEFINE s == Assigned(health[health_iter].settings, key, value)
  <2>1. health_iter \in DOMAIN health
    BY <1>2 DEF Types, DataOK
  <2>2. s \in Contents
    BY <2>1, InterfaceType, AssignedType DEF Contents, Interface
  <2>3. /\ health' = [health EXCEPT ![health_iter].settings = s]
        /\ UNCHANGED <<index, number, iters, globals, rules>>
    BY <1>2 DEF ProcessHealthInterface
  <2> HIDE DEF s
  <2>4. health' \in Interfaces /\ DOMAIN health' = DOMAIN health
    BY <2>1, <2>2, <2>3, InterfaceType
  <2> QED BY <2>3, <2>4 DEF Types, DataOK, iters
<1> QED BY <1>1, <1>2

LEMMA HealthRuleType ==
    ASSUME Types, NEW value \in Values, ProcessHealthRule(value)
    PROVE  DataOK'
  BY NumberType DEF Types, DataOK, ProcessHealthRule, iters, data

LEMMA TypeType ==
    ASSUME Types, NEW value \in Values, ProcessType(value)
    PROVE  DataOK'
<1>1. CASE health_iter = NoIface
  BY <1>1, IgnoredType DEF ProcessType, Undefined
<1>2. CASE health_iter # NoIface
  <2> DEFINE test == [type |-> value, settings |-> Empty]
             t    == Inserted(health[health_iter].tests, number, test)
  <2>1. health_iter \in DOMAIN health /\ health_iter \in Values
    BY <1>2, InterfaceType DEF Types, DataOK
  <2>2. /\ test_iter' = <<health_iter, number>>
        /\ UNCHANGED <<index, number, health_iter, rule_iter, rule_iface_iter,
                       globals, rules>>
    BY <1>2 DEF ProcessType
  <2>3. health' \in Interfaces /\ DOMAIN health' = DOMAIN health
    <3>1. CASE value \notin Known.type
      BY <1>2, <3>1 DEF ProcessType, Types, DataOK
    <3>2. CASE value \in Known.type
      <4>1. test \in Test
        BY <3>2, EmptyType DEF Contents, Test
      <4>2. health' = [health EXCEPT ![health_iter].tests = t]
        BY <1>2, <3>2 DEF ProcessType
      <4> HIDE DEF test
      <4>3. health[health_iter].tests \in Tests /\ number \in Nat
        BY <2>1, InterfaceType DEF Types, DataOK, Interface
      <4>4. t \in Tests
        BY <4>1, <4>3, InsertedType DEF Tests
      <4> HIDE DEF t
      <4> QED BY <2>1, <4>2, <4>4, InterfaceType
    <3> QED BY <3>1, <3>2
  <2> QED BY <2>1, <2>2, <2>3 DEF Types, DataOK
<1> QED BY <1>1, <1>2

LEMMA TestSettingType ==
    ASSUME Types, NEW key \in Keys, NEW value \in Values,
           ProcessTestSetting(key, value)
    PROVE  DataOK'
<1> DEFINE i == test_iter[1]
           n == test_iter[2]
           exists == n \in DOMAIN health[i].tests
           fits   == Fits(key, health[i].tests[n].type)
<1>1. CASE health_iter = NoIface \/ test_iter = Unset \/ ~exists \/ ~fits
  <2>1. Undefined \/ Ignored
    BY <1>1 DEF ProcessTestSetting
  <2> QED BY <2>1, IgnoredType DEF Ignored, Undefined
<1>2. CASE ~(health_iter = NoIface \/ test_iter = Unset \/ ~exists \/ ~fits)
  <2> DEFINE s == Assigned(health[i].tests[n].settings, key, value)
             t == [health[i].tests EXCEPT ![n].settings = s]
  <2>1. /\ health' = [health EXCEPT ![i].tests[n].settings = s]
        /\ UNCHANGED <<index, number, iters, globals, rules>>
    BY <1>2 DEF ProcessTestSetting
  <2>2. i \in DOMAIN health /\ n \in DOMAIN health[i].tests
    BY <1>2 DEF Types, DataOK
  <2>3. health[i].tests \in Tests
    BY <2>2, InterfaceType DEF Interface
  <2> HIDE DEF i, n
  <2>4. health[i].tests[n] \in Test
    <3> DEFINE u == health[i].tests
    <3>1. u \in Tests /\ n \in DOMAIN u
      BY <2>2, <2>3
    <3> HIDE DEF u
    <3>2. u[n] \in Test
      BY <3>1, MapsType DEF Tests
    <3> QED BY <3>2 DEF u
  <2>5. s \in Contents
    BY <2>4, AssignedType DEF Contents, Test
  <2>6. health' = [health EXCEPT ![i].tests = t]
    BY <2>1
  <2> HIDE DEF s
  <2>7. [health[i].tests[n] EXCEPT !.settings = s] \in Test
    BY <2>4, <2>5 DEF Test
  <2>8. t \in Tests
    <3> DEFINE u == health[i].tests
               e == [u[n] EXCEPT !.settings = s]
    <3>1. u \in Tests /\ n \in DOMAIN u
      BY <2>2, <2>3
    <3>2. e \in Test /\ t = [u EXCEPT ![n] = e]
      BY <2>7
    <3> HIDE DEF u, e
    <3>3. [u EXCEPT ![n] = e] \in Tests
      BY <3>1, <3>2, UpdatedType DEF Tests
    <3> QED BY <3>2, <3>3
  <2> HIDE DEF t
  <2>9. health' \in Interfaces /\ DOMAIN health' = DOMAIN health
    BY <2>2, <2>6, <2>8, InterfaceType
  <2> QED BY <2>1, <2>9 DEF Types, DataOK, iters
<1> QED BY <1>1, <1>2

-----------------------------------------------------------------------------
(* The entry of a rule with other settings, or other interfaces.           *)
LEMMA RuleEntry ==
    ASSUME Types, NEW n \in DOMAIN rules
    PROVE  /\ rules[n] \in Rule /\ n \in Nat
           /\ \A s \in Contents :
                 /\ [rules EXCEPT ![n].settings = s] \in Rules
                 /\ DOMAIN [rules EXCEPT ![n].settings = s] = DOMAIN rules
                 /\ \A m \in DOMAIN rules :
                       [rules EXCEPT ![n].settings = s][m].dist = rules[m].dist
           /\ \A t \in Dists :
                 /\ [rules EXCEPT ![n].dist = t] \in Rules
                 /\ DOMAIN [rules EXCEPT ![n].dist = t] = DOMAIN rules
                 /\ [rules EXCEPT ![n].dist = t][n].dist = t
                 /\ \A m \in DOMAIN rules \ {n} :
                       [rules EXCEPT ![n].dist = t][m].dist = rules[m].dist
<1>1. rules[n] \in Rule /\ n \in Nat
  <2>1. rules \in Rules
    BY DEF Types, DataOK
  <2> QED BY <2>1, MapsType DEF Rules
<1>2. ASSUME NEW s \in Contents
      PROVE  /\ [rules[n] EXCEPT !.settings = s] \in Rule
             /\ [rules[n] EXCEPT !.settings = s].dist = rules[n].dist
  BY <1>1 DEF Rule
<1>3. ASSUME NEW t \in Dists
      PROVE  /\ [rules[n] EXCEPT !.dist = t] \in Rule
             /\ [rules[n] EXCEPT !.dist = t].dist = t
  BY <1>1 DEF Rule
<1>4. rules \in Rules
  BY DEF Types, DataOK
<1>5. ASSUME NEW e \in Rule
      PROVE  /\ [rules EXCEPT ![n] = e] \in Rules
             /\ DOMAIN [rules EXCEPT ![n] = e] = DOMAIN rules
             /\ [rules EXCEPT ![n] = e][n] = e
             /\ \A m \in DOMAIN rules \ {n} : [rules EXCEPT ![n] = e][m] = rules[m]
  BY <1>4, UpdatedType DEF Rules
<1>6. ASSUME NEW s \in Contents
      PROVE  /\ [rules EXCEPT ![n].settings = s] \in Rules
             /\ DOMAIN [rules EXCEPT ![n].settings = s] = DOMAIN rules
             /\ \A m \in DOMAIN rules :
                   [rules EXCEPT ![n].settings = s][m].dist = rules[m].dist
  <2> DEFINE e == [rules[n] EXCEPT !.settings = s]
  <2>1. e \in Rule /\ e.dist = rules[n].dist
    BY <1>2
  <2>2. [rules EXCEPT ![n].settings = s] = [rules EXCEPT ![n] = e]
    OBVIOUS
  <2> HIDE DEF e
  <2> QED BY <2>1, <2>2, <1>5
<1>7. ASSUME NEW t \in Dists
      PROVE  /\ [rules EXCEPT ![n].dist = t] \in Rules
             /\ DOMAIN [rules EXCEPT ![n].dist = t] = DOMAIN rules
             /\ [rules EXCEPT ![n].dist = t][n].dist = t
             /\ \A m \in DOMAIN rules \ {n} :
                   [rules EXCEPT ![n].dist = t][m].dist = rules[m].dist
  <2> DEFINE e == [rules[n] EXCEPT !.dist = t]
  <2>1. e \in Rule /\ e.dist = t
    BY <1>3
  <2>2. [rules EXCEPT ![n].dist = t] = [rules EXCEPT ![n] = e]
    OBVIOUS
  <2> HIDE DEF e
  <2> QED BY <2>1, <2>2, <1>5
<1> QED BY <1>1, <1>6, <1>7

LEMMA RuleType ==
    ASSUME Types, NEW key \in Keys, NEW value \in Values, ProcessRule(key, value)
    PROVE  DataOK'
<1>1. CASE key = "" \/ Number[value] = 0
  BY <1>1 DEF ProcessRule, Types, DataOK
<1>2. CASE ~(key = "" \/ Number[value] = 0)
  <2> DEFINE n     == Number[value]
             entry == [settings |-> Empty, dist |-> Empty]
  <2>1. entry \in Rule
    <3>1. Empty \in Contents /\ Empty \in Dists
      BY EmptyType DEF Contents, Dists
    <3> QED BY <3>1 DEF Rule
  <2>2. /\ rules' = Inserted(rules, n, entry) /\ rule_iter' = n
        /\ UNCHANGED <<index, number, health_iter, test_iter, rule_iface_iter,
                       globals, health>>
    BY <1>2 DEF ProcessRule
  <2>3. n \in Nat
    BY NumberType
  <2> HIDE DEF entry, n
  <2>4. /\ rules' \in Rules /\ DOMAIN rules' = DOMAIN rules \cup {n}
        /\ \A m \in DOMAIN rules : rules'[m] = rules[m]
    <3>1. rules \in Rules
      BY DEF Types, DataOK
    <3>2. /\ Inserted(rules, n, entry) \in Maps(Nat, Rule)
          /\ DOMAIN Inserted(rules, n, entry) = DOMAIN rules \cup {n}
          /\ \A m \in DOMAIN rules : Inserted(rules, n, entry)[m] = rules[m]
      <4>1. rules \in Maps(Nat, Rule)
        BY <3>1 DEF Rules
      <4>2. Inserted(rules, n, entry) \in Maps(Nat, Rule)
        BY <2>1, <2>3, <4>1, InsertedType
      <4>3. DOMAIN Inserted(rules, n, entry) = DOMAIN rules \cup {n}
        BY DEF Inserted, Assigned
      <4>4. \A m \in DOMAIN rules : Inserted(rules, n, entry)[m] = rules[m]
        BY DEF Inserted, Assigned
      <4> QED BY <4>2, <4>3, <4>4
    <3> QED BY <2>2, <3>2 DEF Rules
  <2> QED BY <2>2, <2>4 DEF Types, DataOK
<1> QED BY <1>1, <1>2

LEMMA SettingsType ==
    ASSUME NEW old \in Contents, NEW section \in Keys, NEW key \in Keys,
           NEW value \in Values
    PROVE  RuleSettings(old, section, key, value) \in Contents
<1> DEFINE on == IF section \in Flags \cup {"limit"}
                 THEN Assigned(old, <<section, "on">>, "true") ELSE old
<1>1. <<section, "on">> \in Keys \X Keys /\ <<section, key>> \in Keys \X Keys
  BY DEF Keys
<1>2. on \in Contents
  BY <1>1, AssignedType DEF Contents
<1>3. \/ RuleSettings(old, section, key, value) = on
      \/ RuleSettings(old, section, key, value) = Assigned(on, <<section, key>>, value)
  BY DEF RuleSettings
<1> HIDE DEF on
<1>4. Assigned(on, <<section, key>>, value) \in Contents
  BY <1>1, <1>2, AssignedType DEF Contents
<1> QED BY <1>2, <1>3, <1>4

LEMMA RuleSectionType ==
    ASSUME Types, NEW section \in Keys, NEW key \in Keys, NEW value \in Values,
           ProcessRuleSection(section, key, value)
    PROVE  DataOK'
<1>1. CASE rule_iter = NoRule
  BY <1>1, IgnoredType DEF ProcessRuleSection, Ignored, Undefined
<1>2. CASE rule_iter # NoRule
  <2> DEFINE s == RuleSettings(rules[rule_iter].settings, section, key, value)
  <2>1. rule_iter \in DOMAIN rules
    BY <1>2 DEF Types, DataOK
  <2>2. s \in Contents
    BY <2>1, RuleEntry, SettingsType DEF Rule
  <2>3. /\ rules' = [rules EXCEPT ![rule_iter].settings = s]
        /\ UNCHANGED <<index, number, iters, globals, health>>
    BY <1>2 DEF ProcessRuleSection
  <2> HIDE DEF s
  <2>4. /\ rules' \in Rules /\ DOMAIN rules' = DOMAIN rules
        /\ \A m \in DOMAIN rules : rules'[m].dist = rules[m].dist
    <3> DEFINE r == [rules EXCEPT ![rule_iter].settings = s]
    <3>1. /\ r \in Rules /\ DOMAIN r = DOMAIN rules
          /\ \A m \in DOMAIN rules : r[m].dist = rules[m].dist
      BY <2>1, <2>2, RuleEntry
    <3> QED BY <2>3, <3>1
  <2> QED BY <2>3, <2>4 DEF Types, DataOK, iters
<1> QED BY <1>1, <1>2

LEMMA RuleInterfaceType ==
    ASSUME Types, NEW key \in Keys, NEW value \in Values,
           ProcessRuleInterface(key, value)
    PROVE  DataOK'
<1>1. CASE Undefined \/ Ignored
  BY <1>1, IgnoredType DEF Ignored, Undefined
<1>2. CASE key = "interface" /\ rule_iter # NoRule
  <2> DEFINE t == Inserted(rules[rule_iter].dist, value, 0)
  <2>1. rule_iter \in DOMAIN rules /\ rule_iter \in Nat
    BY <1>2, RuleEntry DEF Types, DataOK
  <2>2. t \in Dists /\ value \in DOMAIN t
    <3>1. rules[rule_iter].dist \in Maps(Values, Nat) /\ 0 \in Nat
      BY <2>1, RuleEntry DEF Rule, Dists
    <3>2. t \in Maps(Values, Nat)
      BY <3>1, InsertedType
    <3>3. DOMAIN t = DOMAIN rules[rule_iter].dist \cup {value}
      BY DEF Inserted, Assigned
    <3> QED BY <3>2, <3>3 DEF Dists
  <2>3. /\ rules' = [rules EXCEPT ![rule_iter].dist = t]
        /\ rule_iface_iter' = <<rule_iter, value>>
        /\ UNCHANGED <<index, number, health_iter, test_iter, rule_iter,
                       globals, health>>
    BY <1>2 DEF ProcessRuleInterface
  <2> HIDE DEF t
  <2>4. /\ rules' \in Rules /\ DOMAIN rules' = DOMAIN rules
        /\ rules'[rule_iter].dist = t
    BY <2>1, <2>2, <2>3, RuleEntry
  <2> QED BY <2>1, <2>2, <2>3, <2>4 DEF Types, DataOK
<1>3. CASE key = "weight" /\ Number[value] > 0 /\ rule_iface_iter # Unset
  <2> DEFINE n == rule_iface_iter[1]
             i == rule_iface_iter[2]
             t == [rules[n].dist EXCEPT ![i] = Number[value]]
  <2>1. n \in DOMAIN rules /\ i \in DOMAIN rules[n].dist
    BY <1>3 DEF Types, DataOK
  <2>2. /\ rules' = [rules EXCEPT ![n].dist[i] = Number[value]]
        /\ UNCHANGED <<index, number, iters, globals, health>>
    BY <1>3 DEF ProcessRuleInterface
  <2> HIDE DEF n, i
  <2>3. rules' = [rules EXCEPT ![n].dist = t]
    BY <2>2
  <2>4. t \in Dists /\ DOMAIN t = DOMAIN rules[n].dist
    BY <2>1, RuleEntry, UpdatedType, NumberType DEF Rule, Dists
  <2> HIDE DEF t
  <2>5. /\ rules' \in Rules /\ DOMAIN rules' = DOMAIN rules
        /\ \A m \in DOMAIN rules : DOMAIN rules'[m].dist = DOMAIN rules[m].dist
    BY <2>1, <2>3, <2>4, RuleEntry
  <2> QED BY <2>2, <2>5 DEF Types, DataOK, iters
<1> QED BY <1>1, <1>2, <1>3 DEF ProcessRuleInterface

-----------------------------------------------------------------------------
(* What a line does to the data is one of these. *)
LEMMA ProcessCases ==
    ASSUME NEW p \in [0..MaxDepth -> Keys], NEW d, NEW key, NEW value,
           Process(p, d, key, value)
    PROVE  \/ ProcessGlobal(p[0], "true") \/ ProcessGlobal(p[0], value)
           \/ p[0] = "health" /\ d = 2 /\ key = "interface" /\ ProcessHealth(value)
           \/ ProcessHealthInterface(key, value)
           \/ ProcessHealthRule(value) \/ ProcessType(value)
           \/ ProcessTestSetting(key, value)
           \/ ProcessRule(key, value) \/ ProcessRuleSection(p[1], key, value)
           \/ ProcessRuleInterface(key, value) \/ Ignored
<1>1. CASE p[0] = "health"
  <2>1. ProcessHealthLine(d, key, value)
    BY <1>1 DEF Process
  <2> QED BY <1>1, <2>1 DEF ProcessHealthLine
<1>2. CASE p[0] = "rule"
  <2>1. ProcessRuleLine(d, p[1], key, value)
    BY <1>2 DEF Process
  <2> QED BY <2>1 DEF ProcessRuleLine
<1>3. CASE p[0] \in {"disable-source-nat", "enable-local-traffic", "flush-conntrack"}
  BY <1>3 DEF Process
<1>4. CASE p[0] = "sticky-connections" \/ p[0] = "hook"
  BY <1>4 DEF Process
<1>5. CASE p[0] \notin {"health", "rule", "disable-source-nat", "hook",
           "enable-local-traffic", "flush-conntrack", "sticky-connections"}
  BY <1>5 DEF Process
<1> QED BY <1>1, <1>2, <1>3, <1>4, <1>5

LEMMA ProcessKeepsTypes ==
    ASSUME Types, NEW p \in [0..MaxDepth -> Keys], NEW d, NEW key \in Keys,
           NEW value \in Values, Process(p, d, key, value)
    PROVE  DataOK'
<1>1. p[0] \in Keys /\ p[1] \in Keys
  <2>1. MaxDepth \in Nat /\ MaxDepth # 0
    BY FactoryAssumption
  <2>2. 0 \in 0..MaxDepth /\ 1 \in 0..MaxDepth
    BY <2>1
  <2> QED BY <2>2
<1>2. CASE ProcessGlobal(p[0], "true") \/ ProcessGlobal(p[0], value)
  BY <1>1, <1>2, GlobalType
<1>3. CASE ProcessHealth(value) \/ ProcessHealthInterface(key, value)
  BY <1>3, HealthType, HealthInterfaceType
<1>4. CASE ProcessHealthRule(value) \/ ProcessType(value) \/ ProcessTestSetting(key, value)
  BY <1>4, HealthRuleType, TypeType, TestSettingType
<1>5. CASE \/ ProcessRule(key, value) \/ ProcessRuleSection(p[1], key, value)
           \/ ProcessRuleInterface(key, value)
  BY <1>1, <1>5, RuleType, RuleSectionType, RuleInterfaceType
<1>6. CASE Ignored
  BY <1>6, IgnoredType DEF Ignored
<1> QED BY <1>2, <1>3, <1>4, <1>5, <1>6, ProcessCases

(* Every line ends with the check of the depth, or undefined.              *)
LEMMA ProcessOutcome ==
    ASSUME NEW p \in [0..MaxDepth -> Keys], NEW d, NEW key, NEW value,
           Process(p, d, key, value)
    PROVE  Goes \/ outcome' = "undefined"
<1>1. CASE ProcessGlobal(p[0], "true") \/ ProcessGlobal(p[0], value)
  BY <1>1 DEF ProcessGlobal
<1>2. CASE ProcessHealth(value) \/ ProcessHealthInterface(key, value)
  BY <1>2 DEF ProcessHealth, ProcessHealthInterface, Ignored, Undefined
<1>3. CASE ProcessHealthRule(value) \/ ProcessType(value) \/ ProcessTestSetting(key, value)
  BY <1>3 DEF ProcessHealthRule, ProcessType, ProcessTestSetting, Ignored, Undefined
<1>4. CASE \/ ProcessRule(key, value) \/ ProcessRuleSection(p[1], key, value)
           \/ ProcessRuleInterface(key, value)
  BY <1>4 DEF ProcessRule, ProcessRuleSection, ProcessRuleInterface, Ignored, Undefined
<1>5. CASE Ignored
  BY <1>5 DEF Ignored
<1> QED BY <1>1, <1>2, <1>3, <1>4, <1>5, ProcessCases

LEMMA ReadLineTypes ==
    ASSUME Types, ReadLine
    PROVE  Types'
<1> DEFINE line == file[at + 1]
<1>1. /\ outcome = "reading" /\ at < Len(file)
      /\ at' = at + 1 /\ path' = PathAfter(line) /\ depth' = DepthAfter(line)
      /\ Process(path', depth', line.key, Lower[line.value]) /\ file' = file
  BY DEF ReadLine
<1>2. /\ at + 1 \in 1..Len(file) /\ line.key \in Keys
      /\ Lower[line.value] \in Values
  BY <1>1, LineType
<1>3. depth \in 0..MaxDepth /\ path \in [0..MaxDepth -> Keys] /\ MaxDepth \in Nat
  BY <1>1, FactoryAssumption DEF Types, PlaceOK
<1>4. path' \in [0..MaxDepth -> Keys]
  <2>1. "" \in Keys
    BY DEF Keys
  <2>2. path' = [path EXCEPT ![depth] = IF line.brace = "}" THEN "" ELSE line.key]
    BY <1>1 DEF PathAfter
  <2> QED BY <1>2, <1>3, <2>1, <2>2
<1>5. depth' \in Int
  <2>1. depth' \in {depth, depth + 1, depth - 1}
    BY <1>1, Zenon DEF DepthAfter
  <2> QED BY <1>3, <2>1
<1> HIDE DEF line
<1>6. DataOK'
  BY <1>1, <1>2, <1>4, ProcessKeepsTypes
<1>7. Goes \/ outcome' = "undefined"
  BY <1>1, <1>4, ProcessOutcome
<1>8. /\ outcome' \in {"reading", "failed", "undefined"}
      /\ outcome' = "reading" => depth' \in 0..MaxDepth
  BY <1>3, <1>5, <1>7 DEF Goes, BadDepth
<1>9. file' \in Files /\ at' \in 0..Len(file')
  BY <1>1, <1>2 DEF Types, PlaceOK
<1>10. PlaceOK'
  BY <1>4, <1>5, <1>8, <1>9 DEF PlaceOK
<1> QED BY <1>6, <1>10 DEF Types

LEMMA EndOfFileTypes ==
    ASSUME Types, EndOfFile
    PROVE  Types'
<1>1. /\ outcome = "reading" /\ at = Len(file)
      /\ UNCHANGED <<file, at, depth, path, index, number, iters, globals, rules>>
  BY DEF EndOfFile
<1>2. PlaceOK'
  BY <1>1 DEF EndOfFile, Types, PlaceOK
<1>3. CASE depth # 0
  BY <1>1, <1>2, <1>3, IgnoredType DEF EndOfFile, data, Types
<1>4. CASE depth = 0
  <2> DEFINE ping == [type |-> "ping", settings |-> Empty]
             given(i) == Assigned(health[i].tests, 1, ping)
             entry(i) == IF DOMAIN health[i].tests # {} THEN health[i]
                         ELSE [health[i] EXCEPT !.tests = given(i)]
  <2>1. health' = [i \in DOMAIN health |-> entry(i)]
    BY <1>4 DEF EndOfFile
  <2>2. ping \in Test
    BY EmptyType DEF Test, Contents, Known
  <2> HIDE DEF ping
  <2>3. ASSUME NEW i \in DOMAIN health PROVE entry(i) \in Interface
    <3>1. health[i] \in Interface
      BY InterfaceType
    <3>2. health[i].tests \in Tests
      BY <3>1 DEF Interface
    <3>3. given(i) \in Tests
      BY <2>2, <3>2, AssignedType DEF Tests
    <3> HIDE DEF given
    <3> QED BY <3>1, <3>3 DEF Interface
  <2>4. DOMAIN health \subseteq Values
    BY InterfaceType
  <2> HIDE DEF entry
  <2>5. health' \in [DOMAIN health -> Interface]
    BY <2>1, <2>3
  <2>6. health' \in Interfaces /\ DOMAIN health' = DOMAIN health
    BY <2>4, <2>5, MapsIn DEF Interfaces
  <2>7. DataOK'
    BY <1>1, <2>6 DEF Types, DataOK, iters
  <2> QED BY <1>2, <2>7 DEF Types
<1> QED BY <1>3, <1>4

LEMMA StutterTypes ==
    ASSUME Types, UNCHANGED vars
    PROVE  Types'
  BY DEF Types, PlaceOK, DataOK, vars, iters, data

LEMMA TypesTypeOK == Types => TypeOK
<1> SUFFICES ASSUME Types PROVE TypeOK
  OBVIOUS
<1>1. ASSUME NEW i \in DOMAIN health, NEW n \in DOMAIN health[i].tests
      PROVE  health[i].tests[n].type \in Known.type
  <2> DEFINE t == health[i].tests
  <2>1. t \in Maps(Nat, Test) /\ n \in DOMAIN t
    BY InterfaceType DEF Interface, Tests
  <2> HIDE DEF t
  <2>2. t[n] \in Test
    BY <2>1, MapsType
  <2> QED BY <2>2 DEF Test, t
<1> QED BY <1>1 DEF Types, PlaceOK, DataOK, TypeOK

LEMMA TypesInvariant == Spec => []Types
<1>1. Types /\ [Next]_vars => Types'
  BY ReadLineTypes, EndOfFileTypes, StutterTypes DEF Next
<1> QED BY InitTypes, <1>1, PTL DEF Spec

(* Whatever the file, no iterator the parser keeps is left dangling: each  *)
(* is unset or refers to an interface, rule or entry there is.             *)
THEOREM TypeTheorem == Spec => []TypeOK
  BY TypesInvariant, TypesTypeOK, PTL

-----------------------------------------------------------------------------
(* The blocks open after line k, those open before it being outer.         *)
Outer(outer, k) ==
    CASE file[k].brace = "{" -> Append(outer, k)
      [] file[k].brace = "}" /\ outer # <<>> -> Front(outer)
      [] OTHER -> outer

LEMMA OuterType ==
    ASSUME NEW outer \in Seq(Nat), NEW k \in Nat
    PROVE  Outer(outer, k) \in Seq(Nat)
<1>1. Append(outer, k) \in Seq(Nat)
  OBVIOUS
<1>2. CASE outer # <<>>
  <2>1. Front(outer) \in Seq(Nat)
    <3>1. Len(outer) \in Nat /\ Len(outer) # 0
      BY <1>2
    <3>2. Front(outer) = SubSeq(outer, 1, Len(outer) - 1)
      BY DEF Front
    <3> QED BY <3>1, <3>2
  <2> QED BY <1>1, <2>1 DEF Outer
<1>3. CASE outer = <<>>
  BY <1>1, <1>3 DEF Outer
<1> QED BY <1>2, <1>3

(* The file does not change, so neither does what its braces enclose.      *)
LEMMA OpenSame == ASSUME file' = file PROVE Open' = Open
  BY DEF Open

(* What the recursive definition of Open computes.                        *)
LEMMA OpenSteps ==
    /\ Open[0] = <<>>
    /\ \A k \in Nat : Open[k] \in Seq(Nat) /\ Open[k + 1] = Outer(Open[k], k + 1)
<1> DEFINE V == Seq(Nat)
           step == [x \in Nat \X V |-> Outer(x[2], x[1] + 1)]
           P(g) == g = [k \in Nat |-> IF k = 0 THEN <<>> ELSE Outer(g[k - 1], k)]
<1>1. <<>> \in V
  OBVIOUS
<1>2. step \in [Nat \X V -> V]
  BY OuterType
<1>3. PICK f \in [Nat -> V] :
         f[0] = <<>> /\ \A n \in Nat : f[n + 1] = step[<<n, f[n]>>]
  <2> HIDE DEF step
  <2>1. PICK f : f \in Stepwise(V, <<>>, step)
    BY <1>1, <1>2, Recursion
  <2> QED BY <2>1 DEF Stepwise
<1>4. P(f)
  <2>1. \A n \in Nat : n # 0 => n - 1 \in Nat /\ f[n] = Outer(f[n - 1], n)
    <3>1. ASSUME NEW n \in Nat, n # 0
          PROVE  n - 1 \in Nat /\ f[n] = Outer(f[n - 1], n)
      <4>1. n - 1 \in Nat /\ (n - 1) + 1 = n
        BY <3>1
      <4>2. f[(n - 1) + 1] = step[<<n - 1, f[n - 1]>>] /\ f[n - 1] \in V
        BY <1>3, <4>1
      <4> QED BY <4>1, <4>2
    <3> QED BY <3>1
  <2> QED BY <1>3, <2>1
<1>5. P(Open)
  <2>1. Open = CHOOSE g : P(g)
    BY DEF Open, Outer
  <2> HIDE DEF P
  <2> QED BY <1>4, <2>1
<1>6. Open[0] = <<>> /\ \A k \in Nat : Open[k + 1] = Outer(Open[k], k + 1)
  <2>1. \A k \in Nat : k + 1 \in Nat /\ k + 1 # 0 /\ (k + 1) - 1 = k
    OBVIOUS
  <2>2. 0 \in Nat
    OBVIOUS
  <2> QED BY <1>5, <2>1, <2>2
<1>7. \A k \in Nat : Open[k] \in V
  <2> DEFINE S == {k \in Nat : Open[k] \in V}
  <2> HIDE DEF V
  <2>1. 0 \in Nat /\ Open[0] \in V
    BY <1>1, <1>6
  <2>2. ASSUME NEW k \in Nat, Open[k] \in V
        PROVE  k + 1 \in Nat /\ Open[k + 1] \in V
    <3>1. Outer(Open[k], k + 1) \in V
      <4>1. k + 1 \in Nat
        OBVIOUS
      <4> QED BY <2>2, <4>1, OuterType DEF V
    <3>2. Open[k + 1] = Outer(Open[k], k + 1)
      BY <1>6
    <3> QED BY <3>1, <3>2
  <2>3. 0 \in S /\ \A k \in Nat : k \in S => k + 1 \in S
    BY <2>1, <2>2
  <2> HIDE DEF S
  <2>4. Nat \subseteq S
    BY <2>3, InductNat
  <2> QED BY <2>4 DEF S
<1> QED BY <1>6, <1>7

LEMMA FrontOf ==
    ASSUME NEW s \in Seq(Nat), s # <<>>
    PROVE  /\ Front(s) \in Seq(Nat) /\ Len(Front(s)) = Len(s) - 1
           /\ \A j \in 1..(Len(s) - 1) : Front(s)[j] = s[j]
<1>1. Len(s) \in Nat /\ Len(s) # 0 /\ Front(s) = SubSeq(s, 1, Len(s) - 1)
  BY DEF Front
<1>2. PICK m \in Nat : m = Len(s) - 1 /\ m <= Len(s)
  BY <1>1
<1>3. /\ SubSeq(s, 1, m) \in Seq(Nat) /\ Len(SubSeq(s, 1, m)) = m
      /\ \A j \in 1..m : SubSeq(s, 1, m)[j] = s[j]
  BY <1>1, <1>2
<1> QED BY <1>1, <1>2, <1>3

-----------------------------------------------------------------------------
(* While it reads, the depth and the path of the parser say which blocks   *)
(* enclose the next line.                                                  *)
Nested ==
    outcome = "reading" =>
        /\ Len(Open[at]) = depth
        /\ \A j \in 1..depth : /\ Open[at][j] \in 1..at
                                /\ path[j - 1] = file[Open[at][j]].key

LEMMA InitNested == Init => Nested
<1> SUFFICES ASSUME Init PROVE Nested
  OBVIOUS
<1>1. at = 0 /\ depth = 0
  BY DEF Init
<1> QED BY <1>1, OpenSteps DEF Nested

LEMMA WhereIs ==
    ASSUME Types, Nested, outcome = "reading", at < Len(file)
    PROVE  /\ Heads(at + 1) = Open[at]
           /\ Where(at + 1) = [j \in 1..depth |-> path[j - 1]]
<1>1. at \in Nat /\ (at + 1) - 1 = at
  BY PlaceType
<1>2. Heads(at + 1) = Open[at]
  BY <1>1 DEF Heads
<1>3. DOMAIN Open[at] = 1..depth
  <2>1. Open[at] \in Seq(Nat) /\ Len(Open[at]) = depth
    BY <1>1, OpenSteps DEF Nested
  <2> DEFINE s == Open[at]
  <2> HIDE DEF s
  <2>2. s \in Seq(Nat) => DOMAIN s = 1..Len(s)
    OBVIOUS
  <2> QED BY <2>1, <2>2 DEF s
<1> QED BY <1>2, <1>3 DEF Where, Nested

LEMMA ReadLineNested ==
    ASSUME Types, Types', Nested, ReadLine
    PROVE  Nested'
<1> SUFFICES ASSUME outcome' = "reading" PROVE Nested'
  BY DEF Nested
<1> DEFINE u == at + 1
           s == Open[at]
           t == Open[u]
<1>1. /\ outcome = "reading" /\ at < Len(file) /\ file' = file
      /\ at' = u /\ path' = PathAfter(file[u]) /\ depth' = DepthAfter(file[u])
  BY DEF ReadLine
<1>2. /\ at \in Nat /\ depth \in Nat /\ depth' \in Nat /\ depth <= MaxDepth
      /\ MaxDepth \in Nat
  <2>1. depth' \in 0..MaxDepth
    BY DEF Types, PlaceOK
  <2>2. at \in Nat /\ depth \in Nat /\ depth <= MaxDepth /\ MaxDepth \in Nat
    BY <1>1, PlaceType
  <2> QED BY <2>1, <2>2
<1>8. u \in Nat /\ u \in 1..u /\ 1..at \subseteq 1..u
  BY <1>2
<1>9. path \in [0..MaxDepth -> Keys] /\ file[u].brace \in {"", "{", "}"}
  BY <1>1, PlaceType, LineType
<1>3. /\ Len(s) = depth /\ s \in Seq(Nat)
      /\ \A j \in 1..depth : s[j] \in 1..at /\ path[j - 1] = file[s[j]].key
  <2>1. s \in Seq(Nat)
    BY <1>2, OpenSteps
  <2> QED BY <1>1, <2>1 DEF Nested
<1>4. t = Outer(s, u) /\ Open' = Open
  BY <1>1, <1>2, <1>8, OpenSteps, OpenSame
<1> HIDE DEF u, s, t
<1>5. path' = [path EXCEPT ![depth] = IF file[u].brace = "}" THEN "" ELSE file[u].key]
  BY <1>1 DEF PathAfter
<1>6. \A j \in 1..depth : path'[j - 1] = path[j - 1]
  <2>1. ASSUME NEW j \in 1..depth
        PROVE  j - 1 \in 0..MaxDepth /\ j - 1 # depth
    BY <1>2
  <2> DEFINE v == IF file[u].brace = "}" THEN "" ELSE file[u].key
  <2>2. path' = [path EXCEPT ![depth] = v] /\ path \in [0..MaxDepth -> Keys]
    BY <1>5, <1>9
  <2> HIDE DEF v
  <2> QED BY <2>1, <2>2
<1>7. /\ Len(t) = depth'
      /\ \A j \in 1..depth' : t[j] \in 1..u /\ path'[j - 1] = file[t[j]].key
  <2>1. CASE file[u].brace = "{"
    <3>1. t = Append(s, u) /\ depth' = depth + 1
      BY <1>1, <1>4, <2>1 DEF DepthAfter, Outer
    <3>2. /\ Len(t) = depth + 1 /\ t[depth + 1] = u
          /\ \A j \in 1..depth : t[j] = s[j]
      BY <1>2, <1>3, <3>1
    <3>3. path'[depth] = file[u].key /\ (depth + 1) - 1 = depth
      <4>1. depth \in 0..MaxDepth /\ (depth + 1) - 1 = depth
        BY <1>2
      <4>2. path' = [path EXCEPT ![depth] = file[u].key]
        BY <1>5, <2>1
      <4> QED BY <1>9, <4>1, <4>2
    <3>4. \A j \in 1..depth' : j \in 1..depth \/ j = depth + 1
      BY <1>2, <3>1
    <3>5. ASSUME NEW j \in 1..depth'
          PROVE  t[j] \in 1..u /\ path'[j - 1] = file[t[j]].key
      <4>1. CASE j \in 1..depth
        BY <1>3, <1>6, <1>8, <3>2, <4>1
      <4>2. CASE j = depth + 1
        BY <1>8, <3>2, <3>3, <4>2
      <4> QED BY <3>4, <4>1, <4>2
    <3> QED BY <3>1, <3>2, <3>5
  <2>2. CASE file[u].brace = "}"
    <3>1. depth' = depth - 1 /\ depth \in Nat /\ depth # 0
      <4>1. depth' = depth - 1
        BY <1>1, <2>2 DEF DepthAfter
      <4> QED BY <1>2, <4>1
    <3>2. s # <<>>
      BY <1>3, <3>1
    <3>3. t = Front(s)
      BY <1>4, <2>2, <3>2 DEF Outer
    <3>4. Len(t) = depth - 1 /\ \A j \in 1..(depth - 1) : t[j] = s[j]
      BY <1>3, <3>2, <3>3, FrontOf
    <3>5. \A j \in 1..(depth - 1) : j \in 1..depth
      BY <3>1
    <3> QED BY <1>3, <1>6, <1>8, <3>1, <3>4, <3>5
  <2>3. CASE file[u].brace = ""
    <3>1. t = s /\ depth' = depth
      BY <1>1, <1>4, <2>3 DEF DepthAfter, Outer
    <3> QED BY <1>3, <1>6, <1>8, <3>1
  <2> QED BY <1>9, <2>1, <2>2, <2>3
<1> QED BY <1>1, <1>4, <1>7 DEF Nested, t

LEMMA OtherNested ==
    ASSUME Nested, EndOfFile \/ UNCHANGED vars
    PROVE  Nested'
<1>1. CASE EndOfFile
  BY <1>1 DEF EndOfFile, Nested
<1>2. CASE UNCHANGED vars
  <2>1. UNCHANGED <<file, at, outcome, depth, path>>
    BY <1>2 DEF vars
  <2> QED BY <2>1, OpenSame DEF Nested
<1> QED BY <1>1, <1>2

-----------------------------------------------------------------------------
(* The indices of the interfaces: only a line that names an interface      *)
(* touches them.                                                           *)
SameIndices ==
    /\ index' = index /\ DOMAIN health' = DOMAIN health
    /\ \A i \in DOMAIN health : health'[i].index = health[i].index

NamesInterface(value) ==
    /\ value # "" /\ index' = index + 1
    /\ DOMAIN health' = DOMAIN health \cup {value}
    /\ \A i \in DOMAIN health : health'[i].index = health[i].index
    /\ value \notin DOMAIN health => health'[value].index = index + 1

LEMMA EntryKeepsIndex ==
    ASSUME Types, NEW i \in DOMAIN health, NEW s
    PROVE  /\ DOMAIN [health EXCEPT ![i].settings = s] = DOMAIN health
           /\ DOMAIN [health EXCEPT ![i].tests = s] = DOMAIN health
           /\ \A j \in DOMAIN health :
                 /\ [health EXCEPT ![i].settings = s][j].index = health[j].index
                 /\ [health EXCEPT ![i].tests = s][j].index = health[j].index
<1>1. health \in [DOMAIN health -> Interface]
  <2>1. health \in Maps(Values, Interface)
    BY DEF Types, DataOK, Interfaces
  <2> QED BY <2>1, MapsType
<1>2. \A e \in Interface : /\ [e EXCEPT !.settings = s].index = e.index
                          /\ [e EXCEPT !.tests = s].index = e.index
  BY DEF Interface
<1>3. health[i] \in Interface
  BY <1>1
<1>4. ASSUME NEW e, e.index = health[i].index
      PROVE  /\ DOMAIN [health EXCEPT ![i] = e] = DOMAIN health
             /\ \A j \in DOMAIN health : [health EXCEPT ![i] = e][j].index = health[j].index
  <2>1. ASSUME NEW j \in DOMAIN health
        PROVE  [health EXCEPT ![i] = e][j].index = health[j].index
    BY <1>1, <1>4
  <2> QED BY <1>1, <2>1
<1> QED BY <1>2, <1>3, <1>4

LEMMA ProcessHealthIndex ==
    ASSUME Types, NEW value \in Values, ProcessHealth(value)
    PROVE  IF value = "" THEN SameIndices ELSE NamesInterface(value)
<1>1. CASE value = ""
  <2>1. UNCHANGED <<index, health>>
    BY <1>1 DEF ProcessHealth, data
  <2> QED BY <1>1, <2>1 DEF SameIndices
<1>2. CASE value # ""
  <2> DEFINE e == [index |-> index + 1, settings |-> Empty, tests |-> Empty]
  <2>1. health' = Inserted(health, value, e) /\ index' = index + 1
    BY <1>2 DEF ProcessHealth, NewInterface
  <2>2. e.index = index + 1
    OBVIOUS
  <2> HIDE DEF e
  <2>3. /\ DOMAIN health' = DOMAIN health \cup {value}
        /\ \A i \in DOMAIN health : health'[i] = health[i]
        /\ value \notin DOMAIN health => health'[value] = e
    BY <2>1 DEF Inserted, Assigned
  <2> QED BY <1>2, <2>1, <2>2, <2>3 DEF NamesInterface
<1> QED BY <1>1, <1>2

LEMMA SettingsIndex ==
    ASSUME Types, NEW key, NEW value, ProcessHealthInterface(key, value)
    PROVE  SameIndices
<1>1. CASE Ignored \/ Undefined
  BY <1>1 DEF Ignored, Undefined, data, SameIndices
<1>2. CASE HealthSetting(key, value) /\ health_iter # NoIface
  <2> DEFINE s == Assigned(health[health_iter].settings, key, value)
  <2>1. health' = [health EXCEPT ![health_iter].settings = s] /\ index' = index
    BY <1>2 DEF ProcessHealthInterface
  <2>2. health_iter \in DOMAIN health
    BY <1>2 DEF Types, DataOK
  <2> HIDE DEF s
  <2> QED BY <2>1, <2>2, EntryKeepsIndex DEF SameIndices
<1> QED BY <1>1, <1>2 DEF ProcessHealthInterface

LEMMA TypeIndex ==
    ASSUME Types, NEW value, ProcessType(value)
    PROVE  SameIndices
<1>1. CASE health_iter = NoIface
  BY <1>1 DEF ProcessType, Undefined, data, SameIndices
<1>2. CASE health_iter # NoIface
  <2> DEFINE s == Inserted(health[health_iter].tests, number,
                           [type |-> value, settings |-> Empty])
  <2>1. /\ index' = index
        /\ health' = health \/ health' = [health EXCEPT ![health_iter].tests = s]
    BY <1>2 DEF ProcessType
  <2>2. health_iter \in DOMAIN health
    BY <1>2 DEF Types, DataOK
  <2> HIDE DEF s
  <2>3. CASE health' = health
    BY <2>1, <2>3 DEF SameIndices
  <2>4. CASE health' = [health EXCEPT ![health_iter].tests = s]
    <3>1. \E u : health' = [health EXCEPT ![health_iter].tests = u]
      BY <2>4
    <3>2. PICK u : health' = [health EXCEPT ![health_iter].tests = u]
      BY <3>1
    <3> QED BY <2>1, <2>2, <3>2, EntryKeepsIndex DEF SameIndices
  <2> QED BY <2>1, <2>3, <2>4
<1> QED BY <1>1, <1>2

LEMMA TestSettingIndex ==
    ASSUME Types, NEW key, NEW value, ProcessTestSetting(key, value)
    PROVE  SameIndices
<1> DEFINE i == test_iter[1]
           n == test_iter[2]
           s == Assigned(health[i].tests[n].settings, key, value)
           t == [health[i].tests EXCEPT ![n].settings = s]
<1>1. CASE Ignored \/ Undefined
  BY <1>1 DEF Ignored, Undefined, data, SameIndices
<1>2. CASE /\ test_iter # Unset /\ index' = index
           /\ health' = [health EXCEPT ![i].tests[n].settings = s]
  <2>1. i \in DOMAIN health
    BY <1>2 DEF Types, DataOK
  <2> HIDE DEF i, n
  <2>2. health' = [health EXCEPT ![i].tests = t]
    BY <1>2
  <2> HIDE DEF t
  <2> QED BY <1>2, <2>1, <2>2, EntryKeepsIndex DEF SameIndices
<1> QED BY <1>1, <1>2 DEF ProcessTestSetting

LEMMA ProcessIndex ==
    ASSUME Types, NEW p \in [0..MaxDepth -> Keys], NEW d, NEW key,
           NEW value, Process(p, d, key, value)
    PROVE  \/ p[0] = "health" /\ d = 2 /\ key = "interface" /\ ProcessHealth(value)
           \/ SameIndices
<1>1. CASE ProcessGlobal(p[0], "true") \/ ProcessGlobal(p[0], value)
  BY <1>1 DEF ProcessGlobal, SameIndices
<1>2. CASE ProcessHealthInterface(key, value) \/ ProcessHealthRule(value)
  BY <1>2, SettingsIndex DEF ProcessHealthRule, data, SameIndices
<1>3. CASE ProcessType(value) \/ ProcessTestSetting(key, value)
  BY <1>3, TypeIndex, TestSettingIndex
<1>4. CASE ProcessRule(key, value) \/ ProcessRuleSection(p[1], key, value)
  BY <1>4 DEF ProcessRule, ProcessRuleSection, Ignored, Undefined, data, SameIndices
<1>5. CASE ProcessRuleInterface(key, value) \/ Ignored
  BY <1>5 DEF ProcessRuleInterface, Ignored, Undefined, data, SameIndices
<1> QED BY <1>1, <1>2, <1>3, <1>4, <1>5, ProcessCases

LEMMA EndOfFileIndex ==
    ASSUME Types, EndOfFile
    PROVE  SameIndices
<1>1. index' = index
  BY DEF EndOfFile
<1>2. CASE depth # 0
  BY <1>1, <1>2 DEF EndOfFile, SameIndices
<1>3. CASE depth = 0
  <2> DEFINE given(i) == Assigned(health[i].tests, 1,
                                  [type |-> "ping", settings |-> Empty])
             entry(i) == IF DOMAIN health[i].tests # {} THEN health[i]
                         ELSE [health[i] EXCEPT !.tests = given(i)]
  <2>1. health' = [i \in DOMAIN health |-> entry(i)]
    BY <1>3 DEF EndOfFile
  <2>2. ASSUME NEW i \in DOMAIN health
        PROVE  entry(i).index = health[i].index
    <3>1. health[i] \in Interface
      BY InterfaceType
    <3> HIDE DEF given
    <3> QED BY <3>1 DEF Interface
  <2> HIDE DEF entry
  <2> QED BY <1>1, <2>1, <2>2 DEF SameIndices
<1> QED BY <1>2, <1>3

-----------------------------------------------------------------------------
(* No index is given twice.                                                *)
Distinct ==
    /\ \A i \in DOMAIN health : health[i].index \in Nat /\ health[i].index <= index
    /\ \A i, j \in DOMAIN health : i # j => health[i].index # health[j].index

LEMMA InitDistinct == Init => Distinct
<1>1. Init => DOMAIN health = {}
  BY DEF Init, Empty
<1> QED BY <1>1 DEF Distinct

LEMMA SameDistinct ==
    ASSUME Distinct, SameIndices
    PROVE  Distinct'
  BY DEF Distinct, SameIndices

LEMMA NamedDistinct ==
    ASSUME Types, Distinct, NEW value, NamesInterface(value)
    PROVE  Distinct'
<1>1. index \in Nat /\ index' = index + 1
  BY DEF Types, DataOK, NamesInterface
<1>2. ASSUME NEW i \in DOMAIN health
      PROVE  /\ health'[i].index = health[i].index /\ health[i].index \in Nat
             /\ health[i].index <= index
  BY DEF Distinct, NamesInterface
<1>3. value \notin DOMAIN health => health'[value].index = index + 1
  BY DEF NamesInterface
<1>4. \A i \in DOMAIN health' : i \in DOMAIN health \/ i = value
  BY DEF NamesInterface
<1>5. ASSUME NEW i \in DOMAIN health'
      PROVE  health'[i].index \in Nat /\ health'[i].index <= index'
  BY <1>1, <1>2, <1>3, <1>4
<1>6. ASSUME NEW i \in DOMAIN health', NEW j \in DOMAIN health', i # j
      PROVE  health'[i].index # health'[j].index
  <2>1. CASE i \in DOMAIN health /\ j \in DOMAIN health
    BY <1>2, <1>6, <2>1 DEF Distinct
  <2>2. CASE i \notin DOMAIN health
    <3>1. i = value /\ j \in DOMAIN health
      BY <1>4, <1>6, <2>2
    <3> QED BY <1>1, <1>2, <1>3, <2>2, <3>1
  <2>3. CASE j \notin DOMAIN health
    <3>1. j = value /\ i \in DOMAIN health
      BY <1>4, <1>6, <2>3
    <3> QED BY <1>1, <1>2, <1>3, <2>3, <3>1
  <2> QED BY <2>1, <2>2, <2>3
<1> QED BY <1>5, <1>6 DEF Distinct

-----------------------------------------------------------------------------
(* In a proper file the parser creates an interface exactly at the lines   *)
(* that name one.                                                          *)
NamesIface(k) ==
    file[k].brace # "}" /\ file[k].key = "interface" /\ Where(k) = <<"health">>

LEMMA HeadingsOfInterfaces ==
    ASSUME NEW w, NEW c, c = "interface"
    PROVE  /\ [where |-> w, key |-> c] \in Headings =>
                 w = <<"health">> \/ w = <<"rule">>
           /\ [where |-> w, key |-> c] \notin Settings
<1>1. ASSUME [where |-> w, key |-> c] \in Headings
      PROVE  w = <<"health">> \/ w = <<"rule">>
  BY <1>1 DEF Headings
<1>2. c \notin TestSettings /\ c \notin Flags /\ c \notin EndPoint
  BY DEF TestSettings, Flags, EndPoint
<1>3. [where |-> w, key |-> c] \notin Settings
  BY <1>2 DEF Settings
<1> QED BY <1>1, <1>3

LEMMA WhenNamed ==
    ASSUME Types, Nested, outcome = "reading", at < Len(file), ProperLine(at + 1)
    PROVE  LET line == file[at + 1]
               p == PathAfter(line)
               d == DepthAfter(line)
           IN  /\ NamesIface(at + 1) <=>
                      p[0] = "health" /\ d = 2 /\ line.key = "interface"
               /\ NamesIface(at + 1) => Name(at + 1) # ""
<1> DEFINE u == at + 1
           p == PathAfter(file[u])
           d == DepthAfter(file[u])
<1>1. depth \in Nat /\ depth <= MaxDepth /\ path \in [0..MaxDepth -> Keys]
  BY PlaceType
<1>2. file[u].brace \in {"", "{", "}"}
  BY LineType
<1>3. Where(u) = [j \in 1..depth |-> path[j - 1]]
  BY WhereIs
<1>4. MaxDepth \in Nat /\ 1 <= MaxDepth
  BY PlaceType
<1>5. /\ file[u].brace = "{" =>
             /\ [where |-> Where(u), key |-> file[u].key] \in Headings
             /\ Where(u) = <<"health">> => Name(u) # ""
      /\ file[u].brace = "" => [where |-> Where(u), key |-> file[u].key] \in Settings
      /\ file[u].brace = "}" => file[u].key = ""
  BY <1>2 DEF ProperLine
<1> HIDE DEF u
<1>6. ASSUME file[u].key = "interface"
      PROVE  /\ file[u].brace = "{"
             /\ Where(u) = <<"health">> \/ Where(u) = <<"rule">>
  BY <1>2, <1>5, <1>6, HeadingsOfInterfaces
<1>7. ASSUME file[u].brace = "{"
      PROVE  d = depth + 1 /\ p = [path EXCEPT ![depth] = file[u].key]
  BY <1>7 DEF DepthAfter, PathAfter
<1>8. ASSUME NEW w, Where(u) = <<w>>
      PROVE  depth = 1 /\ depth # 0 /\ path[0] = w
  <2>1. DOMAIN Where(u) = 1..1 /\ Where(u)[1] = w
    BY <1>8
  <2>2. 1..depth = 1..1
    BY <1>3, <2>1
  <2>3. depth = 1
    <3>1. 1 \in 1..depth /\ depth <= 1
      <4>1. depth # 0
        BY <2>2
      <4>3. depth \in 1..depth
        BY <1>1, <4>1
      <4>2. depth \in 1..1
        BY <2>2, <4>3
      <4> QED BY <2>2, <4>2
    <3> QED BY <1>1, <3>1
  <2>4. depth # 0
    BY <2>3
  <2> QED BY <1>3, <2>1, <2>3, <2>4
<1>9. ASSUME NamesIface(u)
      PROVE  /\ p[0] = "health" /\ d = 2 /\ file[u].key = "interface"
             /\ Name(u) # ""
  <2>1. file[u].key = "interface" /\ Where(u) = <<"health">>
    BY <1>9 DEF NamesIface
  <2>2. /\ file[u].brace = "{" /\ path[0] = "health"
        /\ depth = 1 /\ depth # 0
    BY <1>6, <1>8, <2>1
  <2>3. d = 2 /\ p = [path EXCEPT ![depth] = file[u].key]
    <3>1. d = depth + 1 /\ p = [path EXCEPT ![depth] = file[u].key]
      BY <1>7, <2>2
    <3> HIDE DEF p, d
    <3>2. d = 1 + 1
      BY <2>2, <3>1
    <3> QED BY <3>1, <3>2
  <2>4. 0 \in 0..MaxDepth
    BY <1>4
  <2>5. p[0] = path[0]
    <3>1. depth # 0
      BY <1>1, <2>2
    <3> HIDE DEF p
    <3> QED BY <1>1, <2>3, <2>4, <3>1
  <2> QED BY <1>5, <2>1, <2>2, <2>3, <2>5
<1>10. ASSUME p[0] = "health", d = 2, file[u].key = "interface"
       PROVE  NamesIface(u)
  <2>1. file[u].brace = "{" /\ (Where(u) = <<"health">> \/ Where(u) = <<"rule">>)
    BY <1>6, <1>10
  <2>2. CASE Where(u) = <<"health">>
    BY <1>10, <2>1, <2>2 DEF NamesIface
  <2>3. CASE Where(u) = <<"rule">>
    <3>1. depth = 1 /\ path[0] = "rule"
      BY <1>8, <2>3
    <3>2. p = [path EXCEPT ![1] = file[u].key]
      BY <1>7, <2>1, <3>1
    <3>3. 0 \in 0..MaxDepth
      BY <1>4
    <3>4. p[0] = path[0]
      BY <1>1, <3>2, <3>3
    <3> QED BY <1>10, <3>1, <3>4
  <2> QED BY <2>1, <2>2, <2>3
<1> QED BY <1>9, <1>10 DEF u

(* What the lines say does not change, there is only one more of them.     *)
LEMMA LinesKept ==
    ASSUME file' = file, NEW k
    PROVE  /\ Where(k)' = Where(k) /\ Name(k)' = Name(k)
           /\ NamesIface(k)' <=> NamesIface(k)
           /\ ProperLine(k)' <=> ProperLine(k)
<1>1. Open' = Open
  BY OpenSame
<1>2. Where(k)' = Where(k)
  BY <1>1 DEF Where, Heads
<1>3. Name(k)' = Name(k)
  BY DEF Name
<1> HIDE DEF Where, Name
<1> QED BY <1>2, <1>3 DEF NamesIface, ProperLine

LEMMA HeadsAre == IfaceHeads = {k \in 1..at : NamesIface(k)}
  BY DEF IfaceHeads, Lines, Read, NamesIface

-----------------------------------------------------------------------------
(* In a proper file the interfaces are those the lines name, and of two    *)
(* the one with the lower index is named before the other ever is.         *)
NamedBefore(i, j) ==
    \E k \in IfaceHeads :
        Name(k) = i /\ \A l \in IfaceHeads : Name(l) = j => k < l

Ordered ==
    Proper =>
        /\ DOMAIN health = {Name(k) : k \in IfaceHeads}
        /\ \A i, j \in DOMAIN health :
              health[i].index < health[j].index => NamedBefore(i, j)

LEMMA InitOrdered == Init => Ordered
<1> SUFFICES ASSUME Init PROVE Ordered
  OBVIOUS
<1>1. at = 0 /\ DOMAIN health = {}
  BY DEF Init, Empty
<1>2. IfaceHeads = {}
  BY <1>1, HeadsAre
<1> QED BY <1>1, <1>2 DEF Ordered

(* A step that reads no interface.                                         *)
LEMMA SameOrdered ==
    ASSUME Ordered, SameIndices, IfaceHeads' = IfaceHeads, file' = file,
           Proper' => Proper
    PROVE  Ordered'
<1> SUFFICES ASSUME Proper' PROVE Ordered'
  BY DEF Ordered
<1>1. /\ DOMAIN health = {Name(k) : k \in IfaceHeads}
      /\ \A i, j \in DOMAIN health :
            health[i].index < health[j].index => NamedBefore(i, j)
  BY DEF Ordered
<1>2. \A k : Name(k)' = Name(k)
  BY LinesKept
<1>3. DOMAIN health' = {Name(k)' : k \in IfaceHeads'}
  BY <1>1, <1>2 DEF SameIndices
<1>4. ASSUME NEW i \in DOMAIN health', NEW j \in DOMAIN health',
             health'[i].index < health'[j].index
      PROVE  NamedBefore(i, j)'
  <2>1. NamedBefore(i, j)
    BY <1>1, <1>4 DEF SameIndices
  <2> QED BY <1>2, <2>1 DEF NamedBefore
<1> QED BY <1>3, <1>4 DEF Ordered

(* The next line is one more of them, if it names an interface.            *)
LEMMA NextHeads ==
    ASSUME Types, Nested, ReadLine, Proper'
    PROVE  /\ Proper /\ ProperLine(at + 1)
           /\ IfaceHeads' = IfaceHeads \cup {k \in {at + 1} : NamesIface(k)}
<1>1. /\ at \in Nat /\ at' = at + 1 /\ file' = file /\ depth \in Nat
  BY PlaceType DEF ReadLine
<1>2. 1..at' = (1..at) \cup {at + 1}
  BY <1>1
<1>3. \A k \in 1..at' : ProperLine(k)'
  BY DEF Proper, Read
<1>4. \A k \in 1..at' : ProperLine(k)
  BY <1>1, <1>3, LinesKept
<1>5. Proper
  BY <1>1, <1>2, <1>4 DEF Proper, Read
<1>6. IfaceHeads' = {k \in 1..at' : NamesIface(k)'}
  BY DEF IfaceHeads, Lines, Read, NamesIface
<1>7. \A k : NamesIface(k)' <=> NamesIface(k)
  BY <1>1, LinesKept
<1>8. IfaceHeads = {k \in 1..at : NamesIface(k)}
  BY HeadsAre
<1> HIDE DEF NamesIface
<1>9. IfaceHeads' = IfaceHeads \cup {k \in {at + 1} : NamesIface(k)}
  BY <1>2, <1>6, <1>7, <1>8
<1> QED BY <1>2, <1>4, <1>5, <1>9

LEMMA ReadLineIndices ==
    ASSUME Types, Nested, ReadLine
    PROVE  /\ SameIndices \/ \E value : NamesInterface(value)
           /\ ProperLine(at + 1) =>
                IF NamesIface(at + 1) THEN NamesInterface(Name(at + 1))
                ELSE SameIndices
<1> DEFINE u == at + 1
           v == Lower[file[u].value]
<1>1. /\ outcome = "reading" /\ at < Len(file)
      /\ path' = PathAfter(file[u]) /\ depth' = DepthAfter(file[u])
      /\ Process(path', depth', file[u].key, v)
  BY DEF ReadLine
<1>2. v \in Values /\ v = Name(u)
  BY <1>1, LineType DEF Name
<1>3. path' \in [0..MaxDepth -> Keys]
  <2>1. Types'
    BY ReadLineTypes
  <2> QED BY <2>1 DEF Types, PlaceOK
<1>4. \/ /\ path'[0] = "health" /\ depth' = 2 /\ file[u].key = "interface"
         /\ ProcessHealth(v)
      \/ SameIndices
  <2> HIDE DEF v
  <2> QED BY <1>1, <1>3, ProcessIndex
<1>5. ProcessHealth(v) => IF v = "" THEN SameIndices ELSE NamesInterface(v)
  BY <1>2, ProcessHealthIndex
<1>6. ASSUME ProperLine(u)
      PROVE  /\ NamesIface(u) <=>
                    path'[0] = "health" /\ depth' = 2 /\ file[u].key = "interface"
             /\ NamesIface(u) => v # ""
  BY <1>1, <1>2, <1>6, WhenNamed
<1>7. ASSUME path'[0] = "health", depth' = 2, file[u].key = "interface"
      PROVE  ProcessHealth(v)
  BY <1>1, <1>7 DEF Process, ProcessHealthLine
<1> HIDE DEF v
<1>8. ASSUME ProperLine(u)
      PROVE  IF NamesIface(u) THEN NamesInterface(Name(u)) ELSE SameIndices
  BY <1>2, <1>4, <1>5, <1>6, <1>7, <1>8
<1>9. SameIndices \/ \E value : NamesInterface(value)
  BY <1>4, <1>5
<1> QED BY <1>8, <1>9

LEMMA ReadLineOrdered ==
    ASSUME Types, Nested, Distinct, Ordered, ReadLine
    PROVE  Ordered'
<1> SUFFICES ASSUME Proper' PROVE Ordered'
  BY DEF Ordered
<1> DEFINE u == at + 1
<1>1. /\ Proper /\ ProperLine(u) /\ file' = file
      /\ IfaceHeads' = IfaceHeads \cup {k \in {u} : NamesIface(k)}
  BY NextHeads DEF ReadLine
<1>2. IF NamesIface(u) THEN NamesInterface(Name(u)) ELSE SameIndices
  BY <1>1, ReadLineIndices
<1>3. CASE ~NamesIface(u)
  <2>1. IfaceHeads' = IfaceHeads
    BY <1>1, <1>3
  <2> QED BY <1>1, <1>2, <1>3, <2>1, SameOrdered
<1>4. CASE NamesIface(u)
  <2> DEFINE v == Name(u)
  <2>1. IfaceHeads' = IfaceHeads \cup {u}
    BY <1>1, <1>4
  <2>2. \A k \in IfaceHeads : k \in Nat /\ k < u
    <3>1. at \in Nat
      BY PlaceType
    <3> QED BY <3>1, HeadsAre
  <2>3. /\ DOMAIN health' = DOMAIN health \cup {v}
        /\ \A i \in DOMAIN health : health'[i].index = health[i].index
        /\ v \notin DOMAIN health => health'[v].index = index + 1
    BY <1>2, <1>4 DEF NamesInterface
  <2>4. /\ DOMAIN health = {Name(k) : k \in IfaceHeads}
        /\ \A i, j \in DOMAIN health :
              health[i].index < health[j].index => NamedBefore(i, j)
    BY <1>1 DEF Ordered
  <2>5. \A k : Name(k)' = Name(k)
    BY <1>1, LinesKept
  <2>6. u \in IfaceHeads' /\ v = Name(u)
    BY <2>1
  <2> HIDE DEF u, v
  <2>7. DOMAIN health' = {Name(k)' : k \in IfaceHeads'}
    BY <2>1, <2>3, <2>4, <2>5, <2>6
  <2>8. ASSUME NEW i \in DOMAIN health', NEW j \in DOMAIN health',
               health'[i].index < health'[j].index
        PROVE  NamedBefore(i, j)'
    <3>1. i \in DOMAIN health
      <4> SUFFICES ASSUME i \notin DOMAIN health PROVE FALSE
        OBVIOUS
      <4>1. i = v /\ health'[i].index = index + 1
        BY <2>3
      <4>2. index \in Nat /\ health'[j].index \in Nat /\ health'[j].index <= index + 1
        <5>1. Distinct' /\ index' = index + 1
          BY <1>2, <1>4, NamedDistinct DEF NamesInterface
        <5> QED BY <5>1 DEF Distinct, Types, DataOK
      <4> QED BY <2>8, <4>1, <4>2
    <3>2. CASE j \in DOMAIN health
      <4>1. PICK k \in IfaceHeads :
               Name(k) = i /\ \A l \in IfaceHeads : Name(l) = j => k < l
        BY <2>3, <2>4, <2>8, <3>1, <3>2 DEF NamedBefore
      <4>2. k \in IfaceHeads' /\ \A l \in IfaceHeads' : Name(l) = j => k < l
        BY <2>1, <2>2, <4>1
      <4> QED BY <2>5, <4>1, <4>2 DEF NamedBefore
    <3>3. CASE j \notin DOMAIN health
      <4>1. PICK k \in IfaceHeads : Name(k) = i
        BY <2>4, <3>1
      <4>2. \A l \in IfaceHeads : Name(l) # j
        BY <2>4, <3>3
      <4>3. k \in IfaceHeads' /\ \A l \in IfaceHeads' : Name(l) = j => k < l
        BY <2>1, <2>2, <4>1, <4>2
      <4> QED BY <2>5, <4>1, <4>3 DEF NamedBefore
    <3> QED BY <3>2, <3>3
  <2> QED BY <2>7, <2>8 DEF Ordered
<1> QED BY <1>3, <1>4

-----------------------------------------------------------------------------
Indices == Types /\ Nested /\ Distinct /\ Ordered

LEMMA IndicesInductive == Indices /\ [Next]_vars => Indices'
<1> SUFFICES ASSUME Indices, [Next]_vars PROVE Indices'
  OBVIOUS
<1> USE DEF Indices
<1>1. CASE ReadLine
  <2>1. Types' /\ Nested' /\ Ordered'
    BY <1>1, ReadLineTypes, ReadLineNested, ReadLineOrdered
  <2>2. Distinct'
    <3>1. CASE SameIndices
      BY <3>1, SameDistinct
    <3>2. CASE \E value : NamesInterface(value)
      BY <3>2, NamedDistinct
    <3> QED BY <1>1, <3>1, <3>2, ReadLineIndices
  <2> QED BY <2>1, <2>2
<1>2. CASE EndOfFile \/ UNCHANGED vars
  <2>1. Types' /\ Nested'
    BY <1>2, EndOfFileTypes, StutterTypes, OtherNested
  <2>2. SameIndices
    <3>1. CASE UNCHANGED vars
      BY <3>1 DEF vars, data, SameIndices
    <3> QED BY <1>2, <3>1, EndOfFileIndex
  <2>3. file' = file /\ at' = at /\ depth' = depth
    BY <1>2 DEF EndOfFile, vars
  <2>4. IfaceHeads' = IfaceHeads
    <3>1. \A k : NamesIface(k)' <=> NamesIface(k)
      BY <2>3, LinesKept
    <3>2. IfaceHeads' = {k \in 1..at' : NamesIface(k)'}
      BY DEF IfaceHeads, Lines, Read, NamesIface
    <3> QED BY <2>3, <3>1, <3>2, HeadsAre
  <2>5. Proper' => Proper
    <3>1. \A k : ProperLine(k)' <=> ProperLine(k)
      BY <2>3, LinesKept
    <3> QED BY <2>3, <3>1 DEF Proper, Read
  <2>6. Distinct' /\ Ordered'
    BY <2>2, <2>3, <2>4, <2>5, SameDistinct, SameOrdered
  <2> QED BY <2>1, <2>6
<1> QED BY <1>1, <1>2 DEF Next

LEMMA MinOf ==
    ASSUME NEW S, S \subseteq Nat, S # {}
    PROVE  Min(S) \in S /\ \A x \in S : Min(S) <= x
<1>1. \E n \in S : \A m \in S : n <= m
  BY LeastNatural
<1> QED BY <1>1 DEF Min

LEMMA IndicesGive == Indices => IndexPerInterface
<1> SUFFICES ASSUME Indices, NEW i \in DOMAIN health, NEW j \in DOMAIN health,
                    i # j
             PROVE  /\ health[i].index # health[j].index
                    /\ Proper =>
                         (health[i].index < health[j].index <=>
                            Min({k \in IfaceHeads : Name(k) = i})
                              < Min({k \in IfaceHeads : Name(k) = j}))
  BY DEF IndexPerInterface
<1>1. /\ health[i].index # health[j].index
      /\ health[i].index \in Nat /\ health[j].index \in Nat
  BY DEF Indices, Distinct
<1>2. ASSUME Proper
      PROVE  health[i].index < health[j].index <=>
                Min({k \in IfaceHeads : Name(k) = i})
                  < Min({k \in IfaceHeads : Name(k) = j})
  <2> DEFINE F(x) == {k \in IfaceHeads : Name(k) = x}
  <2>1. \A k \in IfaceHeads : k \in Nat
    BY HeadsAre
  <2>2. ASSUME NEW x \in DOMAIN health
        PROVE  F(x) # {} /\ F(x) \subseteq Nat
    BY <1>2, <2>1, <2>2 DEF Indices, Ordered
  <2>3. ASSUME NEW x \in DOMAIN health
        PROVE  /\ Min(F(x)) \in F(x) /\ Min(F(x)) \in Nat
               /\ \A k \in F(x) : Min(F(x)) <= k
    <3> DEFINE S == F(x)
    <3>1. S # {} /\ S \subseteq Nat
      BY <2>2
    <3> HIDE DEF S
    <3>2. Min(S) \in S /\ \A k \in S : Min(S) <= k
      BY <3>1, MinOf
    <3> QED BY <3>1, <3>2 DEF S
  <2>4. ASSUME NEW x \in DOMAIN health, NEW y \in DOMAIN health,
               health[x].index < health[y].index
        PROVE  Min(F(x)) < Min(F(y))
    <3>1. PICK k \in IfaceHeads :
             Name(k) = x /\ \A l \in IfaceHeads : Name(l) = y => k < l
      BY <1>2, <2>4 DEF Indices, Ordered, NamedBefore
    <3>2. Min(F(x)) <= k /\ k \in Nat
      BY <2>1, <2>3, <3>1
    <3>3. k < Min(F(y))
      BY <2>3, <3>1
    <3> QED BY <2>3, <3>2, <3>3
  <2>5. Min(F(i)) \in Nat /\ Min(F(j)) \in Nat
    BY <2>3
  <2>6. health[i].index < health[j].index => Min(F(i)) < Min(F(j))
    BY <2>4
  <2>7. health[j].index < health[i].index => Min(F(j)) < Min(F(i))
    BY <2>4
  <2> HIDE DEF F
  <2>8. health[i].index < health[j].index <=> Min(F(i)) < Min(F(j))
    BY <1>1, <2>5, <2>6, <2>7
  <2> QED BY <2>8 DEF F
<1> QED BY <1>1, <1>2

(* In no file, however its lines are mangled, do two interfaces share the  *)
(* index of their mark, table and chains; and in a proper one the indices  *)
(* follow the order in which it names the interfaces.                      *)
THEOREM IndexTheorem == Spec => []IndexPerInterface
<1>1. Init => Indices
  BY InitTypes, InitNested, InitDistinct, InitOrdered DEF Indices
<1> QED BY <1>1, IndicesInductive, IndicesGive, PTL DEF Spec

-----------------------------------------------------------------------------
(* The places where the words of a proper line may stand. *)
HealthKeys == {"nexthop", "success-ct", "failure-ct"}

LEMMA PlacesOfKeys ==
    ASSUME NEW w, NEW c
    PROVE  /\ c \in HealthKeys =>
                 /\ [where |-> w, key |-> c] \notin Headings
                 /\ [where |-> w, key |-> c] \in Settings => w = InIface
           /\ c \in TestSettings =>
                 /\ [where |-> w, key |-> c] \notin Headings
                 /\ [where |-> w, key |-> c] \in Settings =>
                       w \in {InType, <<"rule", "source">>, <<"rule", "destination">>}
           /\ c = "type" =>
                 /\ [where |-> w, key |-> c] \notin Settings
                 /\ [where |-> w, key |-> c] \in Headings => w = InTest
           /\ c = "weight" =>
                 /\ [where |-> w, key |-> c] \notin Headings
                 /\ [where |-> w, key |-> c] \in Settings =>
                       w = <<"rule", "interface">>
           /\ c = "rule" =>
                 /\ [where |-> w, key |-> c] \notin Settings
                 /\ [where |-> w, key |-> c] \in Headings =>
                       w \in {<<>>, InIface}
<1>1. ASSUME c \in HealthKeys
      PROVE  /\ [where |-> w, key |-> c] \notin Headings
             /\ [where |-> w, key |-> c] \in Settings => w = InIface
  <2>1. /\ c \notin TestSettings \cup EndPoint \cup Flags
        /\ c \notin {"burst", "rate", "period", "threshold", "weight", "type",
                     "inbound-interface", "protocol", "health", "rule",
                     "interface", "source", "destination", "limit",
                     "hook", "disable-source-nat", "flush-conntrack",
                     "enable-local-traffic", "sticky-connections"}
    BY <1>1 DEF HealthKeys, TestSettings, EndPoint, Flags
  <2>2. [where |-> w, key |-> c] \notin Headings
    BY <2>1 DEF Headings
  <2>3. [where |-> w, key |-> c] \in Settings => w = InIface
    BY <2>1 DEF Settings
  <2> QED BY <2>2, <2>3
<1>2. ASSUME c \in TestSettings
      PROVE  /\ [where |-> w, key |-> c] \notin Headings
             /\ [where |-> w, key |-> c] \in Settings =>
                   w \in {InType, <<"rule", "source">>, <<"rule", "destination">>}
  <2>1. /\ c \notin Flags
        /\ c \notin {"burst", "rate", "period", "threshold", "weight", "type",
                     "inbound-interface", "protocol", "health", "rule",
                     "interface", "source", "destination", "limit",
                     "nexthop", "success-ct", "failure-ct",
                     "hook", "disable-source-nat", "flush-conntrack",
                     "enable-local-traffic", "sticky-connections"}
    BY <1>2 DEF TestSettings, Flags
  <2>2. [where |-> w, key |-> c] \notin Headings
    BY <2>1 DEF Headings
  <2>3. [where |-> w, key |-> c] \in Settings =>
           w \in {InType, <<"rule", "source">>, <<"rule", "destination">>}
    BY <2>1 DEF Settings
  <2> QED BY <2>2, <2>3
<1>3. ASSUME c \in {"type", "weight", "rule"}
      PROVE  c \notin TestSettings \cup EndPoint \cup Flags
  BY <1>3 DEF TestSettings, EndPoint, Flags
<1>4. ASSUME c = "type"
      PROVE  /\ [where |-> w, key |-> c] \notin Settings
             /\ [where |-> w, key |-> c] \in Headings => w = InTest
  BY <1>3, <1>4 DEF Settings, Headings
<1>5. ASSUME c = "weight"
      PROVE  /\ [where |-> w, key |-> c] \notin Headings
             /\ [where |-> w, key |-> c] \in Settings =>
                   w = <<"rule", "interface">>
  BY <1>3, <1>5 DEF Settings, Headings
<1>6. ASSUME c = "rule"
      PROVE  /\ [where |-> w, key |-> c] \notin Settings
             /\ [where |-> w, key |-> c] \in Headings => w \in {<<>>, InIface}
  BY <1>3, <1>6 DEF Settings, Headings
<1> QED BY <1>1, <1>2, <1>4, <1>5, <1>6

(* The depth and path before a line that stands at a known place. *)
LEMMA PlaceIs ==
    ASSUME Types, Nested, outcome = "reading", at < Len(file)
    PROVE  /\ Where(at + 1) \in Seq(Keys) /\ Len(Where(at + 1)) = depth
           /\ depth \in Nat
           /\ \A j \in 1..depth : Where(at + 1)[j] = path[j - 1]
<1>1. /\ depth \in Nat /\ depth <= MaxDepth /\ path \in [0..MaxDepth -> Keys]
      /\ MaxDepth \in Nat
  BY PlaceType
<1>2. Where(at + 1) = [j \in 1..depth |-> path[j - 1]]
  BY WhereIs
<1> DEFINE s == Where(at + 1)
<1> HIDE DEF s
<1>3. s = [j \in 1..depth |-> path[j - 1]]
  BY <1>2 DEF s
<1>4. \A j \in 1..depth : path[j - 1] \in Keys
  BY <1>1
<1>5. s \in [1..depth -> Keys]
  BY <1>3, <1>4
<1>6. s \in Seq(Keys) /\ Len(s) = depth
  BY <1>1, <1>5
<1> QED BY <1>1, <1>3, <1>6 DEF s

LEMMA OneMore ==
    ASSUME NEW S, NEW s \in Seq(S), NEW c \in S
    PROVE  /\ s \o <<c>> \in Seq(S) /\ Len(s \o <<c>>) = Len(s) + 1
           /\ Len(s) >= 1 => (s \o <<c>>)[1] = s[1]
  OBVIOUS

LEMMA LongPlaces ==
    /\ Len(InTest) = 3 /\ InTest[1] = "health"
    /\ Len(InType) = 4 /\ InType[1] = "health"
<1> DEFINE S == {"health", "interface", "rule", "type"}
<1>1. "health" \in S /\ "interface" \in S /\ "rule" \in S /\ "type" \in S
  OBVIOUS
<1> HIDE DEF S
<1>2. ASSUME NEW a \in S, NEW b \in S
      PROVE  <<a, b>> \in Seq(S) /\ Len(<<a, b>>) = 2 /\ <<a, b>>[1] = a
  OBVIOUS
<1>3. InIface \in Seq(S) /\ Len(InIface) = 2 /\ InIface[1] = "health"
  BY <1>1, <1>2 DEF InIface
<1>4. InTest \in Seq(S) /\ Len(InTest) = 3 /\ InTest[1] = "health"
  <2> DEFINE s == InIface
             c == "rule"
  <2>1. c \in S /\ s \in Seq(S) /\ Len(s) = 2 /\ s[1] = "health"
    BY <1>1, <1>3
  <2>2. InTest = s \o <<c>>
    BY DEF InTest
  <2> HIDE DEF s, c
  <2>3. /\ s \o <<c>> \in Seq(S) /\ Len(s \o <<c>>) = Len(s) + 1
        /\ Len(s) >= 1 => (s \o <<c>>)[1] = s[1]
    BY <2>1, OneMore
  <2> QED BY <2>1, <2>2, <2>3
<1>5. InType \in Seq(S) /\ Len(InType) = 4 /\ InType[1] = "health"
  <2> DEFINE s == InTest
             c == "type"
  <2>1. c \in S /\ s \in Seq(S) /\ Len(s) = 3 /\ s[1] = "health"
    BY <1>1, <1>4
  <2>2. InType = s \o <<c>>
    BY DEF InType
  <2> HIDE DEF s, c
  <2>3. /\ s \o <<c>> \in Seq(S) /\ Len(s \o <<c>>) = Len(s) + 1
        /\ Len(s) >= 1 => (s \o <<c>>)[1] = s[1]
    BY <2>1, OneMore
  <2> QED BY <2>1, <2>2, <2>3
<1> QED BY <1>4, <1>5

LEMMA PlaceOf ==
    ASSUME Types, Nested, outcome = "reading", at < Len(file), NEW w,
           Where(at + 1) = w
    PROVE  /\ w = <<>> => depth = 0
           /\ \A a : w = <<a>> => depth = 1 /\ path[0] = a
           /\ \A a, b : w = <<a, b>> => depth = 2 /\ path[0] = a /\ path[1] = b
           /\ w = InTest => depth = 3 /\ path[0] = "health"
           /\ w = InType => depth = 4 /\ path[0] = "health"
<1>1. /\ Len(w) = depth /\ depth \in Nat
      /\ \A j \in 1..depth : w[j] = path[j - 1]
  BY PlaceIs
<1>2. w = <<>> => depth = 0
  BY <1>1
<1>3. ASSUME NEW a, w = <<a>> PROVE depth = 1 /\ path[0] = a
  BY <1>1, <1>3
<1>4. ASSUME NEW a, NEW b, w = <<a, b>>
      PROVE  depth = 2 /\ path[0] = a /\ path[1] = b
  <2>1. depth = 2 /\ w[1] = a /\ w[2] = b
    BY <1>1, <1>4
  <2>2. w[1] = path[1 - 1] /\ w[2] = path[2 - 1]
    BY <1>1, <2>1
  <2> QED BY <2>1, <2>2
<1>5. ASSUME w = InTest PROVE depth = 3 /\ path[0] = "health"
  <2>1. depth = 3 /\ w[1] = "health"
    BY <1>1, <1>5, LongPlaces
  <2>2. w[1] = path[1 - 1]
    BY <1>1, <2>1
  <2> QED BY <2>1, <2>2
<1>6. ASSUME w = InType PROVE depth = 4 /\ path[0] = "health"
  <2>1. depth = 4 /\ w[1] = "health"
    BY <1>1, <1>6, LongPlaces
  <2>2. w[1] = path[1 - 1]
    BY <1>1, <2>1
  <2> QED BY <2>1, <2>2
<1> QED BY <1>2, <1>3, <1>4, <1>5, <1>6

(* The path and depth after a line, which the code looks at. *)
LEMMA AfterLine ==
    ASSUME Types, outcome = "reading", at < Len(file)
    PROVE  LET line == file[at + 1]
               p == PathAfter(line)
               d == DepthAfter(line)
           IN  /\ p \in [0..MaxDepth -> Keys]
               /\ line.brace = "{" => d = depth + 1 /\ p[depth] = line.key
               /\ line.brace = "}" => d = depth - 1 /\ p[depth] = ""
               /\ line.brace = ""  => d = depth /\ p[depth] = line.key
               /\ depth # 0 => p[0] = path[0]
               /\ depth # 1 => p[1] = path[1]
               /\ 0 \in 0..MaxDepth /\ 1 \in 0..MaxDepth
<1> DEFINE line == file[at + 1]
           v == IF line.brace = "}" THEN "" ELSE line.key
           p == PathAfter(line)
<1>1. /\ depth \in Nat /\ depth <= MaxDepth /\ path \in [0..MaxDepth -> Keys]
      /\ MaxDepth \in Nat /\ MaxDepth >= 1
  BY PlaceType
<1>2. line.key \in Keys /\ "" \in Keys
  BY LineType DEF Keys
<1>3. p = [path EXCEPT ![depth] = v]
  BY DEF PathAfter
<1>4. depth \in 0..MaxDepth /\ 0 \in 0..MaxDepth /\ 1 \in 0..MaxDepth
  BY <1>1
<1>5. line.brace = "{" => DepthAfter(line) = depth + 1
  BY DEF DepthAfter
<1>6. line.brace = "}" => DepthAfter(line) = depth - 1
  BY DEF DepthAfter
<1>7. line.brace = "" => DepthAfter(line) = depth
  BY DEF DepthAfter
<1>8. v \in Keys /\ (line.brace = "}" => v = "") /\ (line.brace # "}" => v = line.key)
  BY <1>2
<1> HIDE DEF v, p, line
<1>9. p[depth] = v /\ p \in [0..MaxDepth -> Keys]
  BY <1>1, <1>3, <1>4, <1>8
<1>10. depth # 0 => p[0] = path[0]
  BY <1>1, <1>3, <1>4
<1>11. depth # 1 => p[1] = path[1]
  BY <1>1, <1>3, <1>4
<1> QED BY <1>4, <1>5, <1>6, <1>7, <1>8, <1>9, <1>10, <1>11 DEF p, line

(* What a line does, and when.  *)
LEMMA ProcessWhen ==
    ASSUME NEW p \in [0..MaxDepth -> Keys], NEW d, NEW key, NEW value,
           Process(p, d, key, value)
    PROVE  \/ \E g \in {"true", value} : ProcessGlobal(p[0], g)
           \/ p[0] = "health" /\ d = 2 /\ key = "interface" /\ ProcessHealth(value)
           \/ p[0] = "health" /\ d = 2 /\ ProcessHealthInterface(key, value)
           \/ p[0] = "health" /\ d = 3 /\ ProcessHealthRule(value)
           \/ p[0] = "health" /\ d = 4 /\ key = "type" /\ ProcessType(value)
           \/ p[0] = "health" /\ d = 4 /\ key \in TestSettings
                 /\ ProcessTestSetting(key, value)
           \/ p[0] = "rule" /\ d > 1 /\ p[1] = "interface"
                 /\ ProcessRuleInterface(key, value)
           \/ p[0] = "rule" /\ p[1] \in Sections \cup {"limit"}
                 /\ (d > 0 \/ d > 1) /\ ProcessRuleSection(p[1], key, value)
           \/ p[0] = "rule" /\ ProcessRule(key, value)
                 /\ ~(d > 1 /\ p[1] = "interface")
           \/ Ignored
<1>1. CASE p[0] = "health"
  <2>1. ProcessHealthLine(d, key, value)
    BY <1>1 DEF Process
  <2> QED BY <1>1, <2>1 DEF ProcessHealthLine
<1>2. CASE p[0] = "rule"
  <2>1. ProcessRuleLine(d, p[1], key, value)
    BY <1>2 DEF Process
  <2> QED BY <1>2, <2>1 DEF ProcessRuleLine
<1>3. CASE p[0] \in {"disable-source-nat", "enable-local-traffic", "flush-conntrack"}
  BY <1>3 DEF Process
<1>4. CASE p[0] = "sticky-connections" \/ p[0] = "hook"
  BY <1>4 DEF Process
<1>5. CASE p[0] \notin {"health", "rule", "disable-source-nat", "hook",
           "enable-local-traffic", "flush-conntrack", "sticky-connections"}
  BY <1>5 DEF Process
<1> QED BY <1>1, <1>2, <1>3, <1>4, <1>5

-----------------------------------------------------------------------------
(* How the blocks open, and what the lines say, goes on with one line.     *)
LEMMA OpenNext ==
    ASSUME Types, Nested, ReadLine
    PROVE  /\ \A j \in 1..depth : j <= depth' => Open[at + 1][j] = Open[at][j]
           /\ file[at + 1].brace = "{" => Open[at + 1][depth + 1] = at + 1
<1> DEFINE u == at + 1
           s == Open[at]
           t == Open[u]
<1>1. /\ outcome = "reading" /\ at < Len(file) /\ depth' = DepthAfter(file[u])
  BY DEF ReadLine
<1>2. at \in Nat /\ depth \in Nat /\ u \in Nat
  BY <1>1, PlaceType
<1>3. /\ Len(s) = depth /\ s \in Seq(Nat) /\ t = Outer(s, u)
  BY <1>1, <1>2, OpenSteps DEF Nested
<1>4. file[u].brace \in {"", "{", "}"}
  BY <1>1, LineType
<1> HIDE DEF u, s, t
<1>5. CASE file[u].brace = "{"
  <2>1. t = Append(s, u)
    BY <1>3, <1>5 DEF Outer
  <2>2. t[depth + 1] = u /\ \A j \in 1..depth : t[j] = s[j]
    BY <1>2, <1>3, <2>1
  <2> QED BY <1>2, <2>2 DEF t, s, u
<1>6. CASE file[u].brace = "}"
  <2>1. depth' = depth - 1
    BY <1>1, <1>6 DEF DepthAfter
  <2>2. CASE s = <<>>
    <3>1. depth = 0
      BY <1>3, <2>2
    <3>2. \A j \in 1..depth : FALSE
      BY <3>1
    <3> QED BY <1>6, <3>2 DEF u
  <2>3. CASE s # <<>>
    <3>1. t = Front(s)
      BY <1>3, <1>6, <2>3 DEF Outer
    <3>2. \A j \in 1..(depth - 1) : t[j] = s[j]
      BY <1>3, <2>3, <3>1, FrontOf
    <3>3. \A j \in 1..depth : j <= depth' => j \in 1..(depth - 1)
      BY <1>2, <2>1
    <3> QED BY <1>6, <3>2, <3>3 DEF t, s, u
  <2> QED BY <2>2, <2>3
<1>7. CASE file[u].brace = ""
  <2>1. t = s
    BY <1>3, <1>7 DEF Outer
  <2> QED BY <1>7, <2>1 DEF t, s, u
<1> QED BY <1>4, <1>5, <1>6, <1>7

LEMMA HeadsKept ==
    ASSUME file' = file, NEW k, NEW j
    PROVE  /\ Heads(k)' = Heads(k) /\ Num(k)' = Num(k)
           /\ NameOf(k, j)' = NameOf(k, j) /\ NumOf(k, j)' = NumOf(k, j)
<1>1. Open' = Open
  BY OpenSame
<1>2. Heads(k)' = Heads(k)
  BY <1>1 DEF Heads
<1>3. Num(k)' = Num(k)
  BY DEF Num, Name
<1>4. NameOf(k, j)' = NameOf(k, j) /\ NumOf(k, j)' = NumOf(k, j)
  BY <1>2 DEF NameOf, NumOf, Num, Name
<1> QED BY <1>2, <1>3, <1>4

Stands(k, w, K) == file[k].brace # "}" /\ file[k].key \in K /\ Where(k) = w

LEMMA NextLines ==
    ASSUME Types, ReadLine, NEW w, NEW K
    PROVE  Lines(w, K)' = Lines(w, K) \cup {k \in {at + 1} : Stands(k, w, K)}
<1>1. at \in Nat /\ at' = at + 1 /\ file' = file
  BY PlaceType DEF ReadLine
<1>2. 1..at' = (1..at) \cup {at + 1}
  BY <1>1
<1>3. Lines(w, K) = {k \in 1..at : Stands(k, w, K)}
  BY DEF Lines, Read, Stands
<1>4. Lines(w, K)' = {k \in 1..at' : Stands(k, w, K)'}
  BY DEF Lines, Read, Stands
<1>5. ASSUME NEW k PROVE Stands(k, w, K)' <=> Stands(k, w, K)
  <2>1. Where(k)' = Where(k)
    BY <1>1, LinesKept
  <2> HIDE DEF Where
  <2> QED BY <1>1, <2>1 DEF Stands
<1> HIDE DEF Stands
<1> QED BY <1>2, <1>3, <1>4, <1>5

LEMMA LinesAre ==
    ASSUME Types, NEW w, NEW K, NEW k \in Lines(w, K)
    PROVE  k \in Nat /\ k < at + 1 /\ k \in 1..at /\ Stands(k, w, K)
<1>1. at \in Nat
  BY PlaceType
<1>2. k \in 1..at /\ Stands(k, w, K)
  BY DEF Lines, Read, Stands
<1> HIDE DEF Stands
<1> QED BY <1>1, <1>2

-----------------------------------------------------------------------------
(* What a line does to the interfaces, each entry of which is a record.    *)
GaveSettings(i, s) ==
    /\ DOMAIN health' = DOMAIN health
    /\ \A j \in DOMAIN health :
          /\ health'[j].tests = health[j].tests
          /\ health'[j].settings = IF j = i THEN s ELSE health[j].settings

GaveTests(i, t) ==
    /\ DOMAIN health' = DOMAIN health
    /\ \A j \in DOMAIN health :
          /\ health'[j].settings = health[j].settings
          /\ health'[j].tests = IF j = i THEN t ELSE health[j].tests

LEMMA EntryGiven ==
    ASSUME Types, NEW i \in DOMAIN health, NEW s
    PROVE  /\ health' = [health EXCEPT ![i].settings = s] => GaveSettings(i, s)
           /\ health' = [health EXCEPT ![i].tests = s] => GaveTests(i, s)
<1>1. health \in [DOMAIN health -> Interface]
  <2>1. health \in Maps(Values, Interface)
    BY DEF Types, DataOK, Interfaces
  <2> QED BY <2>1, MapsType
<1>2. health[i] \in Interface
  BY <1>1
<1>3. \A e \in Interface :
         /\ [e EXCEPT !.settings = s].settings = s
         /\ [e EXCEPT !.settings = s].tests = e.tests
         /\ [e EXCEPT !.tests = s].tests = s
         /\ [e EXCEPT !.tests = s].settings = e.settings
  BY DEF Interface
<1>4. ASSUME NEW e, health' = [health EXCEPT ![i] = e]
      PROVE  /\ DOMAIN health' = DOMAIN health /\ health'[i] = e
             /\ \A j \in DOMAIN health \ {i} : health'[j] = health[j]
  BY <1>1, <1>4
<1>5. ASSUME health' = [health EXCEPT ![i].settings = s]
      PROVE  GaveSettings(i, s)
  <2> DEFINE e == [health[i] EXCEPT !.settings = s]
  <2>1. e.settings = s /\ e.tests = health[i].tests
    BY <1>2, <1>3
  <2>2. health' = [health EXCEPT ![i] = e]
    BY <1>5
  <2> HIDE DEF e
  <2>3. /\ DOMAIN health' = DOMAIN health /\ health'[i] = e
        /\ \A j \in DOMAIN health \ {i} : health'[j] = health[j]
    BY <1>4, <2>2
  <2> QED BY <2>1, <2>3 DEF GaveSettings
<1>6. ASSUME health' = [health EXCEPT ![i].tests = s]
      PROVE  GaveTests(i, s)
  <2> DEFINE e == [health[i] EXCEPT !.tests = s]
  <2>1. e.tests = s /\ e.settings = health[i].settings
    BY <1>2, <1>3
  <2>2. health' = [health EXCEPT ![i] = e]
    BY <1>6
  <2> HIDE DEF e
  <2>3. /\ DOMAIN health' = DOMAIN health /\ health'[i] = e
        /\ \A j \in DOMAIN health \ {i} : health'[j] = health[j]
    BY <1>4, <2>2
  <2> QED BY <2>1, <2>3 DEF GaveTests
<1> QED BY <1>5, <1>6

LEMMA HealthGives ==
    ASSUME Types, NEW value \in Values, ProcessHealth(value), value # ""
    PROVE  /\ DOMAIN health' = DOMAIN health \cup {value}
           /\ \A i \in DOMAIN health : health'[i] = health[i]
           /\ value \notin DOMAIN health =>
                 health'[value].settings = Empty /\ health'[value].tests = Empty
<1> DEFINE e == [index |-> index + 1, settings |-> Empty, tests |-> Empty]
<1>1. health' = Inserted(health, value, e)
  BY DEF ProcessHealth, NewInterface
<1>2. e.settings = Empty /\ e.tests = Empty
  OBVIOUS
<1> HIDE DEF e
<1> QED BY <1>1, <1>2 DEF Inserted, Assigned

LEMMA InterfaceGives ==
    ASSUME Types, NEW key, NEW value, ProcessHealthInterface(key, value),
           HealthSetting(key, value), health_iter # NoIface
    PROVE  GaveSettings(health_iter,
                        Assigned(health[health_iter].settings, key, value))
<1> DEFINE s == Assigned(health[health_iter].settings, key, value)
<1>1. health' = [health EXCEPT ![health_iter].settings = s]
  BY DEF ProcessHealthInterface
<1>2. health_iter \in DOMAIN health
  BY DEF Types, DataOK
<1> HIDE DEF s
<1>3. GaveSettings(health_iter, s)
  BY <1>1, <1>2, EntryGiven
<1> QED BY <1>3 DEF s

LEMMA TypeGives ==
    ASSUME Types, NEW value, ProcessType(value), health_iter # NoIface
    PROVE  /\ test_iter' = <<health_iter, number>>
           /\ value \notin Known.type => health' = health
           /\ value \in Known.type =>
                 GaveTests(health_iter,
                           Inserted(health[health_iter].tests, number,
                                    [type |-> value, settings |-> Empty]))
<1> DEFINE s == Inserted(health[health_iter].tests, number,
                         [type |-> value, settings |-> Empty])
<1>1. test_iter' = <<health_iter, number>>
  BY DEF ProcessType
<1>2. value \notin Known.type => health' = health
  BY DEF ProcessType
<1>3. value \in Known.type => health' = [health EXCEPT ![health_iter].tests = s]
  BY DEF ProcessType
<1>4. health_iter \in DOMAIN health
  BY DEF Types, DataOK
<1> HIDE DEF s
<1>5. value \in Known.type => GaveTests(health_iter, s)
  BY <1>3, <1>4, EntryGiven
<1> QED BY <1>1, <1>2, <1>5 DEF s

LEMMA TestSettingGives ==
    ASSUME Types, NEW key, NEW value, ProcessTestSetting(key, value),
           outcome' # "undefined"
    PROVE  LET i == test_iter[1]
               n == test_iter[2]
           IN  /\ health_iter # NoIface /\ test_iter # Unset
               /\ i \in DOMAIN health
               /\ n \notin DOMAIN health[i].tests => health' = health
               /\ n \in DOMAIN health[i].tests =>
                    GaveTests(i, [health[i].tests EXCEPT ![n].settings =
                                    Assigned(@, key, value)])
<1> DEFINE i == test_iter[1]
           n == test_iter[2]
           s == Assigned(health[i].tests[n].settings, key, value)
           t == [health[i].tests EXCEPT ![n].settings = s]
<1>1. ~Undefined
  BY DEF Undefined
<1>2. health_iter # NoIface /\ test_iter # Unset
  BY <1>1 DEF ProcessTestSetting
<1>3. i \in DOMAIN health
  BY <1>2 DEF Types, DataOK
<1>4. n \notin DOMAIN health[i].tests => health' = health
  BY <1>1, <1>2 DEF ProcessTestSetting, Ignored, data
<1>5. n \in DOMAIN health[i].tests =>
         health' = [health EXCEPT ![i].tests[n].settings = s]
  BY <1>1, <1>2 DEF ProcessTestSetting
<1> HIDE DEF i, n
<1>6. n \in DOMAIN health[i].tests => health' = [health EXCEPT ![i].tests = t]
  BY <1>5
<1> HIDE DEF t
<1>7. n \in DOMAIN health[i].tests => GaveTests(i, t)
  BY <1>3, <1>6, EntryGiven
<1> QED BY <1>2, <1>3, <1>4, <1>7 DEF i, n, t

-----------------------------------------------------------------------------
(* Where the next line stands, if it is a proper one, by its key, or by    *)
(* the depth of a heading.                                                 *)
LEMMA HeadingPlaces ==
    ASSUME NEW w, NEW c, [where |-> w, key |-> c] \in Headings
    PROVE  /\ w \in {<<>>, <<"health">>, InIface, InTest, <<"rule">>}
           /\ w = InTest => c = "type"
           /\ w = <<"health">> => c = "interface"
<1>1. \/ w = <<>>
      \/ (w = <<"health">> /\ c = "interface")
      \/ w = InIface
      \/ (w = InTest /\ c = "type")
      \/ w = <<"rule">>
  <2>1. ASSUME NEW A, NEW B, [where |-> w, key |-> c] \in [where : A, key : B]
        PROVE  w \in A /\ c \in B
    BY <2>1
  <2> QED BY <2>1 DEF Headings
<1>2. Len(<<"health">>) = 1 /\ Len(<<"rule">>) = 1 /\ Len(InIface) = 2
      /\ Len(InTest) = 3 /\ Len(<<>>) = 0
  BY LongPlaces DEF InIface
<1>3. w = <<"health">> => c = "interface"
  <2>1. <<"health">> # <<"rule">>
    OBVIOUS
  <2> QED BY <1>1, <1>2, <2>1
<1> QED BY <1>1, <1>2, <1>3

LEMMA ProperKeys ==
    ASSUME Types, Nested, outcome = "reading", at < Len(file),
           ProperLine(at + 1)
    PROVE  LET u == at + 1
               k == file[u].key
               b == file[u].brace
           IN  /\ k \in HealthKeys =>
                     b = "" /\ Where(u) = InIface /\ depth = 2 /\ path[0] = "health"
               /\ k \in TestSettings /\ path[0] = "health" =>
                     b = "" /\ Where(u) = InType /\ depth = 4
               /\ k = "type" =>
                     b = "{" /\ Where(u) = InTest /\ depth = 3 /\ path[0] = "health"
               /\ k = "weight" =>
                     b = "" /\ depth = 2 /\ path[0] = "rule" /\ path[1] = "interface"
               /\ k = "rule" =>
                     /\ b = "{"
                     /\ \/ Where(u) = <<>> /\ depth = 0
                        \/ Where(u) = InIface /\ depth = 2
               /\ b = "{" => depth <= 3
               /\ b = "{" /\ depth = 3 => k = "type"
               /\ b = "{" /\ depth = 1 /\ path[0] = "health" => NamesIface(u)
<1> DEFINE u == at + 1
           w == Where(u)
           k == file[u].key
           b == file[u].brace
           line == [where |-> w, key |-> k]
<1>1. b \in {"", "{", "}"}
  BY LineType
<1>2. /\ b = "{" => line \in Headings
      /\ b = ""  => line \in Settings
      /\ b = "}" => k = ""
  BY <1>1 DEF ProperLine
<1>3. /\ w = <<>> => depth = 0
      /\ \A a : w = <<a>> => depth = 1 /\ path[0] = a
      /\ \A a, c : w = <<a, c>> => depth = 2 /\ path[0] = a /\ path[1] = c
      /\ w = InTest => depth = 3 /\ path[0] = "health"
      /\ w = InType => depth = 4 /\ path[0] = "health"
  BY PlaceOf
<1>4. /\ b # "{" /\ b # "" => b = "}"
      /\ "" \notin HealthKeys /\ "" \notin TestSettings
  BY <1>1 DEF HealthKeys, TestSettings
<1>5. depth \in Nat
  BY PlaceType
<1>6. NamesIface(u) <=> b # "}" /\ k = "interface" /\ w = <<"health">>
  BY DEF NamesIface
<1> HIDE DEF u, w, k, b
<1>7. ASSUME k \in HealthKeys
      PROVE  b = "" /\ w = InIface /\ depth = 2 /\ path[0] = "health"
  <2>1. b = "" /\ w = InIface
    BY <1>1, <1>2, <1>4, <1>7, PlacesOfKeys
  <2> QED BY <1>3, <2>1 DEF InIface
<1>8. ASSUME k \in TestSettings, path[0] = "health"
      PROVE  b = "" /\ w = InType /\ depth = 4
  <2>1. b = "" /\ w \in {InType, <<"rule", "source">>, <<"rule", "destination">>}
    BY <1>1, <1>2, <1>4, <1>8, PlacesOfKeys
  <2>2. ~(w = <<"rule", "source">> \/ w = <<"rule", "destination">>)
    BY <1>3, <1>8
  <2> QED BY <1>3, <2>1, <2>2
<1>9. ASSUME k = "type"
      PROVE  b = "{" /\ w = InTest /\ depth = 3 /\ path[0] = "health"
  <2>1. b = "{" /\ w = InTest
    BY <1>1, <1>2, <1>9, PlacesOfKeys
  <2> QED BY <1>3, <2>1
<1>10. ASSUME k = "weight"
       PROVE  b = "" /\ depth = 2 /\ path[0] = "rule" /\ path[1] = "interface"
  <2>1. b = "" /\ w = <<"rule", "interface">>
    BY <1>1, <1>2, <1>10, PlacesOfKeys
  <2> QED BY <1>3, <2>1
<1>11. ASSUME k = "rule"
       PROVE  b = "{" /\ ((w = <<>> /\ depth = 0) \/ (w = InIface /\ depth = 2))
  <2>1. b = "{" /\ w \in {<<>>, InIface}
    BY <1>1, <1>2, <1>11, PlacesOfKeys
  <2>2. w = InIface => depth = 2
    BY <1>3 DEF InIface
  <2> QED BY <1>3, <2>1, <2>2
<1>12. ASSUME b = "{"
       PROVE  /\ depth <= 3
              /\ depth = 3 => k = "type"
              /\ depth = 1 /\ path[0] = "health" => NamesIface(u)
  <2>1. /\ w \in {<<>>, <<"health">>, InIface, InTest, <<"rule">>}
        /\ w = InTest => k = "type"
        /\ w = <<"health">> => k = "interface"
    BY <1>2, <1>12, HeadingPlaces
  <2>2. w = InIface => depth = 2
    BY <1>3 DEF InIface
  <2>3. depth <= 3 /\ (depth = 3 => w = InTest)
    BY <1>3, <2>1, <2>2
  <2>4. depth = 1 /\ path[0] = "health" => w = <<"health">>
    <3>1. w = <<"rule">> => path[0] = "rule"
      BY <1>3
    <3> QED BY <1>3, <2>1, <2>2, <3>1
  <2> QED BY <1>6, <1>12, <2>1, <2>3, <2>4
<1> QED BY <1>7, <1>8, <1>9, <1>10, <1>11, <1>12 DEF u, w, k, b

-----------------------------------------------------------------------------
(* Outside of every block no section is current.                           *)
Rooted == outcome = "reading" => (depth = 0 => path[1] = "")

(* In a proper file the iterator to the interface is to that whose block   *)
(* the next line is in, and within a type that to the test is set.         *)
InInterface ==
    path[0] = "health" /\ depth >= 2 =>
        health_iter # NoIface /\ health_iter = Name(Open[at][2])

InATest ==
    path[0] = "health" /\ depth >= 4 =>
        test_iter # Unset /\ test_iter[1] = health_iter

(* There are no iterators to a rule before a rule.                         *)
InRule ==
    /\ path[0] = "rule" /\ depth >= 1 => RuleHeads # {}
    /\ rule_iter = NoRule => RuleHeads \subseteq Illegal
InShare ==
    path[0] = "rule" /\ depth >= 2 /\ path[1] = "interface" =>
        rule_iface_iter # Unset

Guided ==
    outcome = "reading" /\ Proper =>
        InInterface /\ InATest /\ InRule /\ InShare

LEMMA InitGuided == Init => Rooted /\ Guided
<1> SUFFICES ASSUME Init PROVE Rooted /\ Guided
  OBVIOUS
<1>1. depth = 0 /\ at = 0 /\ DOMAIN health = {} /\ path = [d \in 0..MaxDepth |-> ""]
  BY DEF Init, Empty
<1>2. 0 \in 0..MaxDepth /\ 1 \in 0..MaxDepth
  <2>1. MaxDepth \in Nat /\ MaxDepth # 0
    BY FactoryAssumption
  <2> QED BY <2>1
<1>3. path[0] = "" /\ path[1] = ""
  BY <1>1, <1>2
<1>4. RuleHeads = {}
  <2>1. 1..0 = {}
    OBVIOUS
  <2> QED BY <1>1, <2>1 DEF RuleHeads, Lines, Read
<1> QED BY <1>1, <1>3, <1>4 DEF Rooted, Guided, InInterface, InATest,
           InRule, InShare

LEMMA RootedNext ==
    ASSUME Types, Rooted, ReadLine
    PROVE  Rooted'
<1> SUFFICES ASSUME depth' = 0 PROVE path'[1] = ""
  BY DEF Rooted
<1> DEFINE line == file[at + 1]
<1>1. /\ outcome = "reading" /\ at < Len(file)
      /\ path' = PathAfter(line) /\ depth' = DepthAfter(line)
  BY DEF ReadLine
<1>2. line.brace \in {"", "{", "}"} /\ depth \in Nat
  BY <1>1, LineType, PlaceType
<1>3. /\ line.brace = "{" => depth' = depth + 1
      /\ line.brace = "}" => depth' = depth - 1 /\ path'[depth] = ""
      /\ line.brace = ""  => depth' = depth
      /\ depth # 1 => path'[1] = path[1]
  BY <1>1, AfterLine
<1> HIDE DEF line
<1>7. depth' = 0
  OBVIOUS
<1>8. depth + 1 # 0 /\ (depth - 1 = 0 => depth = 1) /\ 0 # 1
  <2>1. depth \in Nat
    BY <1>2
  <2> QED BY <2>1
<1>4. CASE line.brace = "{"
  BY <1>3, <1>4, <1>7, <1>8, Zenon
<1>5. CASE line.brace = "}"
  <2>1. depth = 1
    BY <1>3, <1>5, <1>7, <1>8, Zenon
  <2> QED BY <1>3, <1>5, <2>1
<1>6. CASE line.brace = ""
  <2>1. depth = 0 /\ depth # 1
    BY <1>3, <1>6, <1>7, <1>8, Zenon
  <2> QED BY <1>1, <1>3, <2>1, Zenon DEF Rooted
<1> QED BY <1>2, <1>4, <1>5, <1>6

-----------------------------------------------------------------------------
(* Everything about a turn of the loop, and which lines move an iterator.  *)
LEMMA Reading ==
    ASSUME Types, Nested, ReadLine
    PROVE  LET line == file[at + 1] IN
           /\ outcome = "reading" /\ at < Len(file)
           /\ file' = file /\ at' = at + 1 /\ at \in Nat /\ depth \in Nat
           /\ line.brace \in {"", "{", "}"} /\ line.key \in Keys
           /\ Name(at + 1) \in Values
           /\ path' \in [0..MaxDepth -> Keys]
           /\ Process(path', depth', line.key, Name(at + 1))
           /\ line.brace = "{" => depth' = depth + 1
           /\ line.brace = "}" => depth' = depth - 1
           /\ line.brace = ""  => depth' = depth
           /\ depth # 0 => path'[0] = path[0]
           /\ depth # 1 => path'[1] = path[1]
           /\ line.brace # "}" => path'[depth] = line.key
<1> DEFINE line == file[at + 1]
<1>1. /\ outcome = "reading" /\ at < Len(file)
      /\ file' = file /\ at' = at + 1
      /\ path' = PathAfter(line) /\ depth' = DepthAfter(line)
      /\ Process(path', depth', line.key, Lower[line.value])
  BY DEF ReadLine
<1>2. /\ line.brace \in {"", "{", "}"} /\ line.key \in Keys
      /\ Lower[line.value] \in Values
  BY <1>1, LineType
<1>3. at \in Nat /\ depth \in Nat
  BY <1>1, PlaceType
<1>4. Lower[line.value] = Name(at + 1)
  BY DEF Name
<1>5. /\ path' \in [0..MaxDepth -> Keys]
      /\ line.brace = "{" => depth' = depth + 1 /\ path'[depth] = line.key
      /\ line.brace = "}" => depth' = depth - 1
      /\ line.brace = ""  => depth' = depth /\ path'[depth] = line.key
      /\ depth # 0 => path'[0] = path[0]
      /\ depth # 1 => path'[1] = path[1]
  BY <1>1, AfterLine
<1> HIDE DEF line
<1> QED BY <1>1, <1>2, <1>3, <1>4, <1>5 DEF line

LEMMA IterMoves ==
    ASSUME NEW p \in [0..MaxDepth -> Keys], NEW d, NEW key, NEW value,
           Process(p, d, key, value)
    PROVE  /\ \/ health_iter' = health_iter
              \/ p[0] = "health" /\ d = 2 /\ key = "interface" /\ ProcessHealth(value)
           /\ \/ test_iter' = test_iter
              \/ p[0] = "health" /\ d = 4 /\ key = "type" /\ ProcessType(value)
           /\ rule_iter' = rule_iter \/ rule_iter' # NoRule
           /\ rule_iface_iter' = rule_iface_iter \/ rule_iface_iter' # Unset
<1>1. CASE \E g \in {"true", value} : ProcessGlobal(p[0], g)
  BY <1>1 DEF ProcessGlobal, iters
<1>2. CASE p[0] = "health" /\ d = 2 /\ key = "interface" /\ ProcessHealth(value)
  <2>1. UNCHANGED <<test_iter, rule_iter, rule_iface_iter>>
    BY <1>2 DEF ProcessHealth, NewInterface, iters
  <2> QED BY <1>2, <2>1
<1>3. CASE ProcessHealthInterface(key, value) \/ ProcessHealthRule(value)
  BY <1>3 DEF ProcessHealthInterface, ProcessHealthRule, Ignored, Undefined, iters
<1>4. CASE p[0] = "health" /\ d = 4 /\ key = "type" /\ ProcessType(value)
  <2>1. UNCHANGED <<health_iter, rule_iter, rule_iface_iter>>
    BY <1>4 DEF ProcessType, Undefined, iters
  <2> QED BY <1>4, <2>1
<1>5. CASE ProcessTestSetting(key, value) \/ Ignored
  BY <1>5 DEF ProcessTestSetting, Ignored, Undefined, iters
<1>6. CASE ProcessRuleInterface(key, value)
  <2>1. CASE Undefined \/ Ignored
    BY <2>1 DEF Undefined, Ignored, iters
  <2>2. CASE rule_iface_iter' = <<rule_iter, value>>
             /\ UNCHANGED <<health_iter, test_iter, rule_iter>>
    <3>1. rule_iface_iter' # Unset
      BY <2>2 DEF Unset
    <3> QED BY <2>2, <3>1
  <2>3. CASE UNCHANGED iters
    BY <2>3 DEF iters
  <2> QED BY <1>6, <2>1, <2>2, <2>3 DEF ProcessRuleInterface
<1>7. CASE ProcessRuleSection(p[1], key, value)
  BY <1>7 DEF ProcessRuleSection, Ignored, Undefined, iters
<1>8. CASE ProcessRule(key, value)
  BY <1>8 DEF ProcessRule, NoRule
<1> QED BY <1>1, <1>2, <1>3, <1>4, <1>5, <1>6, <1>7, <1>8, ProcessWhen

(* A depth that a line leads to, and the numbers it may be. *)
LEMMA Depths ==
    ASSUME NEW d \in Nat
    PROVE  /\ d >= 2 => d # 0 /\ d # 1 /\ 2 \in 1..d
           /\ d >= 3 => d >= 2 /\ d # 2
           /\ d >= 4 => d >= 3 /\ d # 3
           /\ d = 3 => d >= 3 /\ d # 2
           /\ d + 1 = 1 => d = 0
           /\ d + 1 = 2 => d = 1
           /\ d + 1 = 3 => d = 2
           /\ d + 1 = 4 => d = 3
           /\ d >= 1 <=> d # 0
           /\ 1 # 0 /\ 1 + 1 = 2 /\ 2 # 3 /\ 4 # 2 /\ 4 # 3 /\ 2 # 0
           /\ 0 + 1 = 1
  OBVIOUS

LEMMA DepthMoves ==
    ASSUME NEW d \in Nat, NEW e, NEW n \in Nat, e >= n
    PROVE  /\ e = d + 1 => d >= n \/ (d + 1 = n /\ e = n)
           /\ e = d - 1 => d >= n
           /\ e = d => d >= n
  OBVIOUS

LEMMA DepthFrom ==
    ASSUME Types, Nested, ReadLine, NEW n \in Nat, depth' >= n
    PROVE  /\ depth \in Nat
           /\ \/ depth >= n
              \/ file[at + 1].brace = "{" /\ depth + 1 = n /\ depth' = n
<1> DEFINE b == file[at + 1].brace
<1>1. /\ depth \in Nat /\ b \in {"", "{", "}"}
      /\ b = "{" => depth' = depth + 1
      /\ b = "}" => depth' = depth - 1
      /\ b = ""  => depth' = depth
  BY Reading
<1> HIDE DEF b
<1>2. /\ depth' = depth + 1 => depth >= n \/ (depth + 1 = n /\ depth' = n)
      /\ depth' = depth - 1 => depth >= n
      /\ depth' = depth => depth >= n
  BY <1>1, DepthMoves
<1>3. b = "" \/ b = "{" \/ b = "}"
  BY <1>1
<1>4. depth >= n \/ (b = "{" /\ depth + 1 = n /\ depth' = n)
  BY <1>1, <1>2, <1>3, Zenon
<1> QED BY <1>1, <1>4 DEF b

LEMMA InterfaceNext ==
    ASSUME Types, Nested, ReadLine, ProperLine(at + 1), InInterface,
           depth' \in Nat
    PROVE  InInterface'
<1> SUFFICES ASSUME path'[0] = "health", depth' >= 2
             PROVE  health_iter' # NoIface /\ (health_iter = Name(Open[at][2]))'
  BY DEF InInterface
<1> DEFINE u == at + 1
<1>1. /\ outcome = "reading" /\ at < Len(file) /\ file' = file
      /\ at' = u /\ depth \in Nat /\ Name(u) \in Values
      /\ file[u].brace \in {"", "{", "}"}
      /\ path' \in [0..MaxDepth -> Keys]
      /\ Process(path', depth', file[u].key, Name(u))
      /\ file[u].brace = "{" => depth' = depth + 1
      /\ file[u].brace = "}" => depth' = depth - 1
      /\ file[u].brace = ""  => depth' = depth
      /\ depth # 0 => path'[0] = path[0]
  BY Reading
<1>2. /\ \A j \in 1..depth : j <= depth' => Open[u][j] = Open[at][j]
      /\ file[u].brace = "{" => Open[u][depth + 1] = u
  BY OpenNext
<1>3. (Name(Open[at][2]))' = Name(Open[u][2])
  <2>1. Open' = Open
    BY <1>1, OpenSame
  <2> QED BY <1>1, <2>1 DEF Name
<1>4. /\ NamesIface(u) <=>
            path'[0] = "health" /\ depth' = 2 /\ file[u].key = "interface"
      /\ NamesIface(u) => Name(u) # ""
  BY <1>1, WhenNamed DEF ReadLine
<1>5. \/ depth >= 2
      \/ file[u].brace = "{" /\ depth = 1 /\ depth' = 2
  BY <1>1, DepthFrom, Depths
<1> HIDE DEF u
<1>6. CASE depth >= 2
  <2>1. depth # 0 /\ depth # 1 /\ 2 \in 1..depth
    BY <1>1, <1>6, Depths
  <2>2. path[0] = "health" /\ Open[u][2] = Open[at][2]
    BY <1>1, <1>2, <2>1
  <2>3. ~NamesIface(u)
    <3>1. Where(u) = <<"health">> => depth = 1
      BY <1>1, PlaceOf DEF u
    <3> QED BY <2>1, <3>1 DEF NamesIface
  <2>4. health_iter' = health_iter
    BY <1>1, <1>4, <2>3, IterMoves
  <2> QED BY <1>3, <1>6, <2>2, <2>4 DEF InInterface
<1>7. CASE file[u].brace = "{" /\ depth = 1 /\ depth' = 2
  <2>1. path[0] = "health"
    BY <1>1, <1>7, Depths
  <2>2. NamesIface(u)
    BY <1>1, <1>7, <2>1, ProperKeys DEF u
  <2>3. ProcessHealth(Name(u)) /\ Name(u) # ""
    BY <1>1, <1>4, <2>2 DEF Process, ProcessHealthLine
  <2>4. health_iter' = Name(u)
    BY <2>3 DEF ProcessHealth
  <2>5. Open[u][2] = u
    <3>1. Open[u][1 + 1] = u
      BY <1>2, <1>7
    <3> QED BY <3>1
  <2> QED BY <1>3, <2>3, <2>4, <2>5 DEF NoIface
<1> QED BY <1>5, <1>6, <1>7

LEMMA TestNext ==
    ASSUME Types, Nested, ReadLine, ProperLine(at + 1), InInterface, InATest,
           depth' \in Nat
    PROVE  InATest'
<1> SUFFICES ASSUME path'[0] = "health", depth' >= 4
             PROVE  test_iter' # Unset /\ test_iter'[1] = health_iter'
  BY DEF InATest
<1> DEFINE u == at + 1
<1>1. /\ outcome = "reading" /\ at < Len(file) /\ file' = file
      /\ at' = u /\ depth \in Nat /\ Name(u) \in Values
      /\ file[u].brace \in {"", "{", "}"}
      /\ path' \in [0..MaxDepth -> Keys]
      /\ Process(path', depth', file[u].key, Name(u))
      /\ file[u].brace = "{" => depth' = depth + 1
      /\ file[u].brace = "}" => depth' = depth - 1
      /\ file[u].brace = ""  => depth' = depth
      /\ depth # 0 => path'[0] = path[0]
  BY Reading
<1>2. \/ depth >= 4
      \/ file[u].brace = "{" /\ depth = 3 /\ depth' = 4
  BY <1>1, DepthFrom, Depths
<1>3. /\ file[u].key = "type" => depth = 3
      /\ file[u].brace = "{" /\ depth = 3 => file[u].key = "type"
  BY <1>1, ProperKeys
<1>4. depth >= 3 /\ depth # 0 /\ depth >= 2
  <2>1. depth >= 3
    BY <1>1, <1>2, Depths
  <2> QED BY <1>1, <2>1, Depths
<1>5. path[0] = "health" /\ health_iter # NoIface
  BY <1>1, <1>4 DEF InInterface
<1>6. health_iter' = health_iter
  <2>1. NamesIface(u) <=>
            path'[0] = "health" /\ depth' = 2 /\ file[u].key = "interface"
    BY <1>1, WhenNamed DEF ReadLine
  <2>2. depth' # 2
    OBVIOUS
  <2> QED BY <1>1, <2>2, IterMoves
<1> HIDE DEF u
<1>7. CASE depth >= 4
  <2>1. depth # 3
    BY <1>1, <1>7, Depths
  <2>2. test_iter' = test_iter
    BY <1>1, <1>3, <2>1, IterMoves
  <2> QED BY <1>5, <1>6, <1>7, <2>2 DEF InATest
<1>8. CASE file[u].brace = "{" /\ depth = 3 /\ depth' = 4
  <2>1. ProcessType(Name(u))
    <3>1. file[u].key = "type"
      BY <1>3, <1>8
    <3>2. ProcessHealthLine(depth', "type", Name(u))
      BY <1>1, <3>1 DEF Process
    <3>3. depth' = 4 /\ 4 # 2 /\ 4 # 3
      BY <1>1, <1>8, Depths
    <3> QED BY <3>2, <3>3 DEF ProcessHealthLine
  <2>2. test_iter' = <<health_iter, number>>
    BY <1>5, <2>1 DEF ProcessType
  <2> QED BY <1>6, <2>2 DEF Unset
<1> QED BY <1>2, <1>7, <1>8

(* The lines that change what is recorded of the interfaces.               *)
GivesInterface(p, d, key, value) ==
    /\ p[0] = "health" /\ d = 2 /\ key = "interface" /\ value # ""
    /\ ProcessHealth(value)
GivesSetting(p, d, key, value) ==
    /\ p[0] = "health" /\ d = 2 /\ HealthSetting(key, value)
    /\ health_iter # NoIface
    /\ GaveSettings(health_iter,
                    Assigned(health[health_iter].settings, key, value))
GivesTest(p, d, key, value) ==
    /\ p[0] = "health" /\ d = 4 /\ key = "type" /\ value \in Known.type
    /\ health_iter # NoIface
    /\ GaveTests(health_iter,
                 Inserted(health[health_iter].tests, number,
                          [type |-> value, settings |-> Empty]))
GivesTestSetting(p, d, key, value) ==
    /\ p[0] = "health" /\ d = 4 /\ key \in TestSettings
    /\ test_iter # Unset /\ test_iter[1] \in DOMAIN health
    /\ test_iter[2] \in DOMAIN health[test_iter[1]].tests
    /\ GaveTests(test_iter[1],
                 [health[test_iter[1]].tests EXCEPT ![test_iter[2]].settings =
                    Assigned(@, key, value)])

LEMMA HealthMoves ==
    ASSUME Types, NEW p \in [0..MaxDepth -> Keys], NEW d, NEW key,
           NEW value \in Values, Process(p, d, key, value),
           outcome' # "undefined"
    PROVE  \/ health' = health
           \/ GivesInterface(p, d, key, value) \/ GivesSetting(p, d, key, value)
           \/ GivesTest(p, d, key, value) \/ GivesTestSetting(p, d, key, value)
<1>0. ~Undefined
  BY DEF Undefined
<1>1. CASE \E g \in {"true", value} : ProcessGlobal(p[0], g)
  BY <1>1 DEF ProcessGlobal
<1>2. CASE p[0] = "health" /\ d = 2 /\ key = "interface" /\ ProcessHealth(value)
  <2>1. CASE value = ""
    BY <1>2, <2>1 DEF ProcessHealth, data
  <2>2. CASE value # ""
    BY <1>2, <2>2 DEF GivesInterface
  <2> QED BY <2>1, <2>2
<1>3. CASE p[0] = "health" /\ d = 2 /\ ProcessHealthInterface(key, value)
  <2>1. CASE ~HealthSetting(key, value)
    BY <1>3, <2>1 DEF ProcessHealthInterface, Ignored, data
  <2>2. CASE HealthSetting(key, value)
    <3>1. health_iter # NoIface
      BY <1>0, <1>3, <2>2 DEF ProcessHealthInterface
    <3>2. GaveSettings(health_iter,
                       Assigned(health[health_iter].settings, key, value))
      BY <1>3, <2>2, <3>1, InterfaceGives
    <3> QED BY <1>3, <2>2, <3>1, <3>2 DEF GivesSetting
  <2> QED BY <2>1, <2>2
<1>4. CASE p[0] = "health" /\ d = 4 /\ key = "type" /\ ProcessType(value)
  <2>1. health_iter # NoIface
    BY <1>0, <1>4 DEF ProcessType
  <2> QED BY <1>4, <2>1, TypeGives DEF GivesTest
<1>5. CASE p[0] = "health" /\ d = 4 /\ key \in TestSettings
              /\ ProcessTestSetting(key, value)
  BY <1>5, TestSettingGives DEF GivesTestSetting
<1>6. CASE ProcessHealthRule(value) \/ Ignored
  BY <1>6 DEF ProcessHealthRule, Ignored, data
<1>7. CASE ProcessRuleInterface(key, value)
  BY <1>0, <1>7 DEF ProcessRuleInterface, Ignored, data
<1>8. CASE ProcessRuleSection(p[1], key, value)
  BY <1>0, <1>8 DEF ProcessRuleSection, Ignored, data
<1>9. CASE ProcessRule(key, value)
  BY <1>9 DEF ProcessRule
<1> QED BY <1>1, <1>2, <1>3, <1>4, <1>5, <1>6, <1>7, <1>8, <1>9, ProcessWhen

-----------------------------------------------------------------------------
LEMMA RuleHeadIs ==
    ASSUME Types, Nested, Rooted, ReadLine, ProperLine(at + 1),
           outcome' # "undefined", file[at + 1].key = "rule",
           Where(at + 1) = <<>>
    PROVE  /\ path'[0] = "rule" /\ depth' = 1
           /\ ProcessRule("rule", Name(at + 1))
<1> DEFINE u == at + 1
<1>1. /\ outcome = "reading" /\ at < Len(file)
      /\ Process(path', depth', file[u].key, Name(u))
      /\ file[u].brace = "{" => depth' = depth + 1
      /\ depth # 1 => path'[1] = path[1]
      /\ file[u].brace # "}" => path'[depth] = file[u].key
  BY Reading
<1>2. depth = 0
  BY <1>1, PlaceOf
<1>3. file[u].brace = "{"
  BY <1>1, ProperKeys
<1>4. depth' = 1 /\ path'[0] = "rule" /\ path'[1] = ""
  <2>0. depth \in Nat /\ 0 \in Nat
    BY <1>2
  <2>1. depth' = 0 + 1
    BY <1>1, <1>2, <1>3
  <2>2. depth' = 1 /\ 0 # 1
    BY <2>0, <2>1, Depths
  <2>3. path'[0] = "rule"
    BY <1>1, <1>2, <1>3
  <2>4. path'[1] = path[1]
    BY <1>1, <1>2, <2>2
  <2> QED BY <1>1, <1>2, <2>2, <2>3, <2>4 DEF Rooted
<1>5. ProcessRuleLine(1, "", "rule", Name(u))
  BY <1>1, <1>4 DEF Process
<1>6. ProcessRule("rule", Name(u))
  <2>1. "" \notin Sections /\ "" # "interface" /\ "" # "limit"
    BY DEF Sections, Flags
  <2> QED BY <1>5, <2>1 DEF ProcessRuleLine
<1> QED BY <1>4, <1>6

LEMMA RuleNext ==
    ASSUME Types, Nested, Rooted, ReadLine, ProperLine(at + 1), InRule,
           outcome' # "undefined"
    PROVE  InRule'
<1> DEFINE u == at + 1
<1>1. /\ outcome = "reading" /\ at < Len(file) /\ file' = file
      /\ depth \in Nat /\ Name(u) \in Values
      /\ path' \in [0..MaxDepth -> Keys]
      /\ Process(path', depth', file[u].key, Name(u))
      /\ depth # 0 => path'[0] = path[0]
      /\ file[u].brace # "}" => path'[depth] = file[u].key
  BY Reading
<1>2. RuleHeads' = RuleHeads \cup {k \in {u} : Stands(k, <<>>, {"rule"})}
  BY NextLines DEF RuleHeads
<1>3. \A k : Num(k)' = Num(k)
  BY <1>1, HeadsKept
<1>4. ASSUME path'[0] = "rule", depth' >= 1
      PROVE  RuleHeads' # {}
  <2>1. CASE depth >= 1
    <3>1. path[0] = "rule"
      BY <1>1, <1>4, <2>1, Depths
    <3> QED BY <1>2, <2>1, <3>1 DEF InRule
  <2>2. CASE file[u].brace = "{" /\ depth + 1 = 1
    <3>1. depth = 0
      BY <1>1, <2>2, Depths
    <3>2. path'[0] = file[u].key
      BY <1>1, <2>2, <3>1
    <3>3. Where(u) = <<>>
      <4>1. depth # 2
        BY <1>1, <3>1, Depths
      <4>2. file[u].key = "rule"
        BY <1>4, <3>2
      <4> QED BY <1>1, <4>1, <4>2, ProperKeys
    <3> QED BY <1>2, <1>4, <2>2, <3>2, <3>3 DEF Stands
  <2> QED BY <1>4, <2>1, <2>2, DepthFrom
<1>5. ASSUME rule_iter' = NoRule
      PROVE  (RuleHeads \subseteq Illegal)'
  <2>1. rule_iter = NoRule
    BY <1>1, <1>5, IterMoves
  <2>2. RuleHeads \subseteq {k \in RuleHeads : Num(k) = 0}
    BY <2>1 DEF InRule, Illegal
  <2>3. ASSUME Stands(u, <<>>, {"rule"})
        PROVE  Num(u) = 0
    <3>1. ProcessRule("rule", Name(u))
      BY <2>3, RuleHeadIs DEF Stands
    <3> QED BY <1>5, <3>1 DEF ProcessRule, Num, NoRule
  <2>4. \A k \in RuleHeads' : Num(k)' = 0
    BY <1>2, <1>3, <2>2, <2>3
  <2> QED BY <2>4 DEF Illegal
<1> QED BY <1>4, <1>5 DEF InRule

LEMMA ShareNext ==
    ASSUME Types, Nested, Rooted, ReadLine, ProperLine(at + 1), InShare,
           outcome' # "undefined"
    PROVE  InShare'
<1> SUFFICES ASSUME path'[0] = "rule", depth' >= 2, path'[1] = "interface"
             PROVE  rule_iface_iter' # Unset
  BY DEF InShare
<1> DEFINE u == at + 1
<1>1. /\ outcome = "reading" /\ at < Len(file) /\ file' = file
      /\ depth \in Nat /\ Name(u) \in Values
      /\ path' \in [0..MaxDepth -> Keys]
      /\ Process(path', depth', file[u].key, Name(u))
      /\ depth # 0 => path'[0] = path[0]
      /\ depth # 1 => path'[1] = path[1]
      /\ file[u].brace # "}" => path'[depth] = file[u].key
  BY Reading
<1>2. rule_iface_iter' = rule_iface_iter \/ rule_iface_iter' # Unset
  BY <1>1, IterMoves
<1>3. CASE depth >= 2
  <2>1. path[0] = "rule" /\ path[1] = "interface"
    BY <1>1, <1>3, Depths
  <2> QED BY <1>2, <1>3, <2>1 DEF InShare
<1>4. CASE file[u].brace = "{" /\ depth + 1 = 2 /\ depth' = 2
  <2>1. depth = 1
    BY <1>1, <1>4, Depths
  <2>2. file[u].key = "interface"
    BY <1>1, <1>4, <2>1
  <2>3. ProcessRuleLine(2, "interface", "interface", Name(u))
    BY <1>1, <1>4, <2>2 DEF Process
  <2>4. ProcessRuleInterface("interface", Name(u))
    BY <2>3 DEF ProcessRuleLine
  <2>5. ~Undefined
    BY DEF Undefined
  <2>6. rule_iface_iter' = <<rule_iter, Name(u)>>
    BY <2>4, <2>5 DEF ProcessRuleInterface
  <2> QED BY <2>6 DEF Unset
<1> QED BY <1>3, <1>4, DepthFrom

-----------------------------------------------------------------------------
Safe == Types /\ Nested /\ Rooted /\ Guided

LEMMA SafeInductive == Safe /\ [Next]_vars => Safe'
<1> SUFFICES ASSUME Safe, [Next]_vars PROVE Safe'
  OBVIOUS
<1> USE DEF Safe
<1>1. CASE ReadLine
  <2>1. Types' /\ Nested' /\ Rooted'
    BY <1>1, ReadLineTypes, ReadLineNested, RootedNext
  <2>2. outcome = "reading"
    BY <1>1 DEF ReadLine
  <2>3. ASSUME Proper'
        PROVE  /\ ProperLine(at + 1)
               /\ InInterface /\ InATest /\ InRule /\ InShare
    BY <1>1, <2>2, <2>3, NextHeads DEF Guided
  <2>4. Guided'
    <3>1. ASSUME outcome' = "reading", Proper'
          PROVE  (InInterface /\ InATest /\ InRule /\ InShare)'
      <4>1. depth' \in Nat
        <5>1. depth' \in 0..MaxDepth /\ MaxDepth \in Nat
          BY <2>1, <3>1, PlaceType DEF Types, PlaceOK
        <5> QED BY <5>1
      <4>2. outcome' # "undefined"
        BY <3>1
      <4> QED BY <1>1, <2>3, <3>1, <4>1, <4>2, InterfaceNext, TestNext,
                 RuleNext, ShareNext
    <3> QED BY <3>1 DEF Guided
  <2> QED BY <2>1, <2>4
<1>2. CASE EndOfFile
  <2>1. Types' /\ Nested'
    BY <1>2, EndOfFileTypes, OtherNested
  <2>2. outcome' # "reading"
    BY <1>2 DEF EndOfFile
  <2> QED BY <2>1, <2>2 DEF Rooted, Guided
<1>3. CASE UNCHANGED vars
  <2>1. Types' /\ Nested'
    BY <1>3, StutterTypes, OtherNested
  <2>2. /\ file' = file /\ at' = at /\ outcome' = outcome /\ depth' = depth
        /\ path' = path /\ health' = health /\ health_iter' = health_iter
        /\ test_iter' = test_iter /\ rule_iter' = rule_iter
        /\ rule_iface_iter' = rule_iface_iter
    BY <1>3 DEF vars, iters, data
  <2>3. Open' = Open
    BY <2>2, OpenSame
  <2>4. Rooted'
    BY <2>2 DEF Rooted
  <2>5. \A k : Where(k)' = Where(k)
    BY <2>2, LinesKept
  <2>6. \A k : Name(k)' = Name(k)
    BY <2>2, LinesKept
  <2>7. \A k : Num(k)' = Num(k)
    BY <2>2, HeadsKept
  <2>8. \A k : NameOf(k, 2)' = NameOf(k, 2)
    BY <2>2, HeadsKept
  <2>9. \A k : ProperLine(k)' <=> ProperLine(k)
    BY <2>2, LinesKept
  <2>10. Proper' <=> Proper
    BY <2>2, <2>9 DEF Proper, Read
  <2>11. /\ TypeHeads' = TypeHeads /\ RuleHeads' = RuleHeads
         /\ Lines(InType, TestSettings)' = Lines(InType, TestSettings)
    BY <2>2, <2>5 DEF TypeHeads, RuleHeads, Lines, Read
  <2>12. Illegal' = Illegal /\ \A k : Before(k)' = Before(k)
    BY <2>11, <2>7 DEF Illegal, Before
  <2>13. /\ InATest' <=> InATest
         /\ InRule' <=> InRule
         /\ InShare' <=> InShare
    BY <2>2, <2>11, <2>12 DEF InATest, InRule, InShare
  <2>14. InInterface => InInterface'
    <3>1. (Name(Open[at][2]))' = Name(Open[at][2])
      BY <2>2, <2>3 DEF Name
    <3> QED BY <2>2, <3>1 DEF InInterface
  <2>16. Guided'
    BY <2>2, <2>10, <2>13, <2>14 DEF Guided
  <2> QED BY <2>1, <2>4, <2>16
<1> QED BY <1>1, <1>2, <1>3 DEF Next

-----------------------------------------------------------------------------
(* The greatest and the least of some lines.                               *)
LEMMA MaxIs ==
    ASSUME NEW S, S \subseteq Nat, NEW m \in S, \A x \in S : x <= m
    PROVE  Max(S) = m
<1>1. Max(S) \in S /\ \A y \in S : Max(S) >= y
  BY DEF Max
<1>2. Max(S) \in Nat /\ m \in Nat /\ Max(S) >= m /\ Max(S) <= m
  BY <1>1
<1> QED BY <1>2

LEMMA MinIs ==
    ASSUME NEW S, S \subseteq Nat, NEW m \in S, \A x \in S : m <= x
    PROVE  Min(S) = m
<1>1. Min(S) \in S /\ \A y \in S : Min(S) <= y
  BY DEF Min
<1>2. Min(S) \in Nat /\ m \in Nat /\ Min(S) >= m /\ Min(S) <= m
  BY <1>1
<1> QED BY <1>2

(* What the lines say last, when one more follows them.                    *)
LEMMA LastOfNone == LastOf({}) = Empty
<1>1. {file[k].key : k \in {}} = {}
  OBVIOUS
<1> QED BY <1>1 DEF LastOf, Empty

LEMMA LastOfNext ==
    ASSUME NEW K, K \subseteq Nat, NEW u \in Nat, \A k \in K : k < u
    PROVE  LastOf(K \cup {u}) = Assigned(LastOf(K), file[u].key, Name(u))
<1> DEFINE L == K \cup {u}
           of(S, c) == {k \in S : file[k].key = c}
           c == file[u].key
<1>1. DOMAIN LastOf(K) = {file[k].key : k \in K}
  BY DEF LastOf
<1>2. DOMAIN LastOf(L) = DOMAIN LastOf(K) \cup {c}
  BY <1>1 DEF LastOf
<1>3. Max(of(L, c)) = u
  <2>1. \A x \in L : x \in Nat /\ x <= u
    OBVIOUS
  <2>2. of(L, c) \subseteq Nat /\ u \in of(L, c) /\ \A x \in of(L, c) : x <= u
    BY <2>1
  <2> HIDE DEF of
  <2> QED BY <2>2, MaxIs
<1>4. ASSUME NEW x, x # c PROVE of(L, x) = of(K, x)
  BY <1>4
<1> DEFINE A == Assigned(LastOf(K), c, Name(u))
<1>5. A = [x \in DOMAIN LastOf(K) \cup {c} |->
             IF x = c THEN Name(u) ELSE LastOf(K)[x]]
  BY DEF Assigned
<1>6. \A x \in DOMAIN LastOf(K) : LastOf(K)[x] = Name(Max(of(K, x)))
  BY DEF LastOf
<1>7. LastOf(L) = [x \in DOMAIN LastOf(L) |-> Name(Max(of(L, x)))]
  BY DEF LastOf
<1> HIDE DEF of, A, L, c
<1>8. \A x \in DOMAIN LastOf(L) :
         Name(Max(of(L, x))) = IF x = c THEN Name(u) ELSE LastOf(K)[x]
  BY <1>2, <1>3, <1>4, <1>6
<1>9. LastOf(L) = A
  BY <1>2, <1>5, <1>7, <1>8
<1> QED BY <1>9 DEF L, A, c

LEMMA LastOfKept ==
    ASSUME file' = file, NEW K
    PROVE  LastOf(K)' = LastOf(K)
  BY DEF LastOf, Name

-----------------------------------------------------------------------------
(* The tests that headings T and settings L say.                           *)
OfTest(T, n)   == {k \in T : NumOf(k, 3) = n}
FirstOf(T, n)  == Min(OfTest(T, n))
Since(L, n, f) == {k \in L : NumOf(k, 3) = n /\ k > f}
TestsOf(T, L) ==
    [n \in {NumOf(k, 3) : k \in T} |->
       [type |-> Name(FirstOf(T, n)),
        settings |-> LastOf(Since(L, n, FirstOf(T, n)))]]

LEMMA FirstStays ==
    ASSUME NEW T, T \subseteq Nat, NEW u \in Nat, \A k \in T : k < u,
           NEW n \in {NumOf(k, 3) : k \in T}
    PROVE  /\ FirstOf(T \cup {u}, n) = FirstOf(T, n)
           /\ FirstOf(T, n) \in T
<1> DEFINE S == OfTest(T, n)
           R == OfTest(T \cup {u}, n)
<1>1. S \subseteq Nat /\ S # {} /\ S \subseteq T
  BY DEF OfTest
<1>2. Min(S) \in S /\ \A x \in S : Min(S) <= x
  BY <1>1, MinOf
<1>3. S \subseteq R /\ R \subseteq S \cup {u} /\ R \subseteq Nat
  BY DEF OfTest
<1> HIDE DEF S, R
<1>4. Min(S) \in R /\ \A x \in R : Min(S) <= x
  <2>1. Min(S) \in Nat /\ Min(S) < u
    BY <1>1, <1>2
  <2>2. Min(S) <= u
    BY <2>1
  <2> QED BY <1>2, <1>3, <2>2
<1>5. Min(R) = Min(S)
  BY <1>3, <1>4, MinIs
<1> QED BY <1>1, <1>2, <1>5 DEF FirstOf, S, R

(* A heading makes a test that there is not.                               *)
LEMMA TestsOfHeading ==
    ASSUME NEW T, T \subseteq Nat, NEW L, L \subseteq Nat, NEW u \in Nat,
           \A k \in T : k < u, \A k \in L : k < u
    PROVE  TestsOf(T \cup {u}, L) =
             Inserted(TestsOf(T, L), NumOf(u, 3),
                      [type |-> Name(u), settings |-> Empty])
<1> DEFINE R == T \cup {u}
           n == NumOf(u, 3)
           e == [type |-> Name(u), settings |-> Empty]
           F == TestsOf(T, L)
           G == TestsOf(R, L)
           D == {NumOf(k, 3) : k \in T}
           test(S, m) == [type |-> Name(FirstOf(S, m)),
                          settings |-> LastOf(Since(L, m, FirstOf(S, m)))]
<1>1. F = [m \in D |-> test(T, m)]
  BY DEF TestsOf
<1>2. G = [m \in D \cup {n} |-> test(R, m)]
  <2>1. {NumOf(k, 3) : k \in R} = D \cup {n}
    OBVIOUS
  <2> QED BY <2>1 DEF TestsOf
<1>3. \A m \in D : FirstOf(R, m) = FirstOf(T, m)
  BY FirstStays
<1>4. \A m \in D : test(R, m) = test(T, m)
  BY <1>3
<1>5. ASSUME n \notin D
      PROVE  test(R, n) = e
  <2>1. OfTest(R, n) = {u}
    BY <1>5 DEF OfTest
  <2>2. FirstOf(R, n) = u
    <3>1. {u} \subseteq Nat /\ u \in {u} /\ \A x \in {u} : u <= x
      OBVIOUS
    <3>2. Min({u}) = u
      BY <3>1, MinIs
    <3> QED BY <2>1, <3>2 DEF FirstOf
  <2>3. Since(L, n, u) = {}
    <3>1. \A k \in L : ~(k > u)
      OBVIOUS
    <3> QED BY <3>1 DEF Since
  <2> QED BY <2>2, <2>3, LastOfNone
<1> HIDE DEF e, n, D, test, F, G
<1>6. CASE n \in D
  <2>1. D \cup {n} = D
    BY <1>6
  <2>2. G = F
    BY <1>1, <1>2, <1>4, <2>1
  <2>3. Inserted(F, n, e) = F
    BY <1>1, <1>6 DEF Inserted
  <2> QED BY <2>2, <2>3 DEF F, G, e, n
<1>7. CASE n \notin D
  <2>1. \A m \in D \cup {n} : test(R, m) = IF m = n THEN e ELSE F[m]
    BY <1>1, <1>4, <1>5, <1>7
  <2>2. DOMAIN F = D
    BY <1>1
  <2>3. Inserted(F, n, e) = [m \in D \cup {n} |-> IF m = n THEN e ELSE F[m]]
    BY <1>7, <2>2 DEF Inserted, Assigned
  <2>4. Inserted(F, n, e) = G
    BY <1>2, <2>1, <2>3
  <2> QED BY <2>4 DEF F, G, e, n
<1> QED BY <1>6, <1>7

(* A setting is the last one of its test, if there is that test.           *)
LEMMA TestsOfSetting ==
    ASSUME NEW T, T \subseteq Nat, NEW L, L \subseteq Nat, NEW u \in Nat,
           \A k \in T : k < u, \A k \in L : k < u
    PROVE  LET n == NumOf(u, 3)
               F == TestsOf(T, L)
           IN  TestsOf(T, L \cup {u}) =
                 IF n \in DOMAIN F
                 THEN [F EXCEPT ![n].settings = Assigned(@, file[u].key, Name(u))]
                 ELSE F
<1> DEFINE M == L \cup {u}
           n == NumOf(u, 3)
           F == TestsOf(T, L)
           G == TestsOf(T, M)
           D == {NumOf(k, 3) : k \in T}
           f(m) == FirstOf(T, m)
           test(S, m) == [type |-> Name(f(m)), settings |-> LastOf(Since(S, m, f(m)))]
<1>1. F = [m \in D |-> test(L, m)] /\ G = [m \in D |-> test(M, m)]
  BY DEF TestsOf
<1>2. ASSUME NEW m \in D, m # n PROVE test(M, m) = test(L, m)
  <2>1. Since(M, m, f(m)) = Since(L, m, f(m))
    BY <1>2 DEF Since
  <2> QED BY <2>1
<1>3. ASSUME n \in D
      PROVE  test(M, n) =
               [test(L, n) EXCEPT !.settings = Assigned(@, file[u].key, Name(u))]
  <2> DEFINE K == Since(L, n, f(n))
  <2>1. f(n) \in Nat /\ f(n) < u
    BY <1>3, FirstStays
  <2>2. Since(M, n, f(n)) = K \cup {u}
    BY <2>1 DEF Since
  <2>3. K \subseteq Nat /\ \A k \in K : k < u
    BY DEF Since
  <2> HIDE DEF K
  <2>4. LastOf(K \cup {u}) = Assigned(LastOf(K), file[u].key, Name(u))
    BY <2>3, LastOfNext
  <2>5. test(L, n).settings = LastOf(K) /\ test(L, n).type = Name(f(n))
    BY DEF K
  <2> QED BY <2>2, <2>4, <2>5 DEF K
<1> HIDE DEF test, D, n, F, G
<1>4. CASE n \in D
  <2> DEFINE e == [F[n] EXCEPT !.settings = Assigned(@, file[u].key, Name(u))]
  <2>1. F[n] = test(L, n) /\ DOMAIN F = D
    BY <1>1, <1>4
  <2>2. e = test(M, n)
    BY <1>3, <1>4, <2>1
  <2>3. [F EXCEPT ![n].settings = Assigned(@, file[u].key, Name(u))] = [F EXCEPT ![n] = e]
    OBVIOUS
  <2> HIDE DEF e
  <2>4. G = [F EXCEPT ![n] = e]
    BY <1>1, <1>2, <1>4, <2>2
  <2> QED BY <1>4, <2>1, <2>3, <2>4 DEF F, G, n
<1>5. CASE n \notin D
  <2>1. G = F /\ DOMAIN F = D
    BY <1>1, <1>2, <1>5
  <2> QED BY <1>5, <2>1 DEF F, G, n
<1> QED BY <1>4, <1>5

LEMMA TestsOfKept ==
    ASSUME file' = file, NEW T, NEW L
    PROVE  TestsOf(T, L)' = TestsOf(T, L)
<1>1. Open' = Open
  BY OpenSame
<1> QED BY <1>1 DEF TestsOf, FirstOf, OfTest, Since, LastOf, Name, NumOf, Num, Heads

LEMMA NoTests ==
    ASSUME NEW T, NEW L
    PROVE  /\ DOMAIN TestsOf(T, L) = {NumOf(k, 3) : k \in T}
           /\ T = {} => TestsOf(T, L) = Empty
<1>1. DOMAIN TestsOf(T, L) = {NumOf(k, 3) : k \in T}
  BY DEF TestsOf
<1>2. ASSUME T = {} PROVE TestsOf(T, L) = Empty
  <2>1. {NumOf(k, 3) : k \in {}} = {}
    OBVIOUS
  <2> QED BY <1>2, <2>1 DEF TestsOf, Empty
<1> QED BY <1>1, <1>2

-----------------------------------------------------------------------------
(* The lines that give interface i its settings, and its tests theirs.     *)
SettingsOf(i) ==
    {k \in Lines(InIface, HealthKeys) :
        NameOf(k, 2) = i /\ HealthSetting(file[k].key, Name(k))}
TestLinesOf(i) == {k \in Lines(InType, TestSettings) : NameOf(k, 2) = i}

(* Every block of a test has one type. *)
OneType == \A x, y \in TypeHeads : x # y => Heads(x)[3] # Heads(y)[3]

LEMMA LineStands ==
    ASSUME Types, Nested, ReadLine, ProperLine(at + 1)
    PROVE  LET u == at + 1
               k == file[u].key
           IN  /\ Stands(u, InIface, HealthKeys) <=> k \in HealthKeys
               /\ Stands(u, InTest, {"type"}) <=> k = "type"
               /\ Stands(u, InType, TestSettings) <=>
                     k \in TestSettings /\ path[0] = "health"
<1>1. outcome = "reading" /\ at < Len(file)
  BY Reading
<1>2. Where(at + 1) = InType => path[0] = "health"
  BY <1>1, PlaceOf
<1> DEFINE u == at + 1
           k == file[u].key
<1>3. /\ k \in HealthKeys => file[u].brace = "" /\ Where(u) = InIface
      /\ k \in TestSettings /\ path[0] = "health" =>
            file[u].brace = "" /\ Where(u) = InType
      /\ k = "type" => file[u].brace = "{" /\ Where(u) = InTest
  BY <1>1, ProperKeys
<1>4. Where(u) = InType => path[0] = "health"
  BY <1>2
<1> HIDE DEF u
<1> QED BY <1>3, <1>4 DEF Stands, u

LEMMA LinesNext ==
    ASSUME Types, Nested, ReadLine, ProperLine(at + 1), NEW i
    PROVE  LET u == at + 1
               k == file[u].key
               mine == NameOf(u, 2) = i
           IN  /\ SettingsOf(i)' =
                    IF k \in HealthKeys /\ mine /\ HealthSetting(k, Name(u))
                    THEN SettingsOf(i) \cup {u} ELSE SettingsOf(i)
               /\ TypesOf(i)' =
                    IF k = "type" /\ mine /\ Name(u) \in Known.type
                    THEN TypesOf(i) \cup {u} ELSE TypesOf(i)
               /\ TestLinesOf(i)' =
                    IF k \in TestSettings /\ path[0] = "health" /\ mine
                    THEN TestLinesOf(i) \cup {u} ELSE TestLinesOf(i)
               /\ TypeHeads' =
                    IF k = "type" THEN TypeHeads \cup {u} ELSE TypeHeads
<1> DEFINE u == at + 1
           c == file[u].key
<1>1. file' = file
  BY Reading
<1>2. /\ Stands(u, InIface, HealthKeys) <=> c \in HealthKeys
      /\ Stands(u, InTest, {"type"}) <=> c = "type"
      /\ Stands(u, InType, TestSettings) <=>
            c \in TestSettings /\ path[0] = "health"
  BY LineStands
<1>3. /\ Lines(InIface, HealthKeys)' =
           Lines(InIface, HealthKeys) \cup {k \in {u} : Stands(k, InIface, HealthKeys)}
      /\ TypeHeads' = TypeHeads \cup {k \in {u} : Stands(k, InTest, {"type"})}
      /\ Lines(InType, TestSettings)' =
           Lines(InType, TestSettings) \cup {k \in {u} : Stands(k, InType, TestSettings)}
  BY NextLines DEF TypeHeads
<1>4. \A k : NameOf(k, 2)' = NameOf(k, 2)
  BY <1>1, HeadsKept
<1>5. \A k : Name(k)' = Name(k)
  BY <1>1, LinesKept
<1>6. SettingsOf(i)' = {k \in Lines(InIface, HealthKeys)' :
                          NameOf(k, 2) = i /\ HealthSetting(file[k].key, Name(k))}
  BY <1>1, <1>4, <1>5 DEF SettingsOf, HealthSetting
<1>7. TypesOf(i)' = {k \in TypeHeads' : NameOf(k, 2) = i /\ Name(k) \in Known.type}
  BY <1>4, <1>5 DEF TypesOf
<1>8. TestLinesOf(i)' = {k \in Lines(InType, TestSettings)' : NameOf(k, 2) = i}
  BY <1>4 DEF TestLinesOf
<1> HIDE DEF u
<1>9. SettingsOf(i)' =
         IF c \in HealthKeys /\ NameOf(u, 2) = i /\ HealthSetting(c, Name(u))
         THEN SettingsOf(i) \cup {u} ELSE SettingsOf(i)
  BY <1>2, <1>3, <1>6 DEF SettingsOf
<1>10. TypesOf(i)' =
          IF c = "type" /\ NameOf(u, 2) = i /\ Name(u) \in Known.type
          THEN TypesOf(i) \cup {u} ELSE TypesOf(i)
  BY <1>2, <1>3, <1>7 DEF TypesOf
<1>11. TestLinesOf(i)' =
          IF c \in TestSettings /\ path[0] = "health" /\ NameOf(u, 2) = i
          THEN TestLinesOf(i) \cup {u} ELSE TestLinesOf(i)
  BY <1>2, <1>3, <1>8 DEF TestLinesOf
<1>12. TypeHeads' = IF c = "type" THEN TypeHeads \cup {u} ELSE TypeHeads
  BY <1>2, <1>3
<1> QED BY <1>9, <1>10, <1>11, <1>12 DEF u

(* The lines of an interface find the iterators at it, and are recorded.   *)
LEMMA OfInterface ==
    ASSUME Types, Nested, ReadLine, InInterface, path[0] = "health", depth >= 2
    PROVE  /\ NameOf(at + 1, 2) = health_iter /\ health_iter # NoIface
           /\ health_iter \in DOMAIN health
<1>1. outcome = "reading" /\ at < Len(file)
  BY Reading
<1>2. health_iter # NoIface /\ health_iter = Name(Open[at][2])
  BY DEF InInterface
<1>3. Heads(at + 1) = Open[at]
  BY <1>1, WhereIs
<1> QED BY <1>2, <1>3 DEF NameOf, Types, DataOK

LEMMA AtSetting ==
    ASSUME Types, Nested, ReadLine, ProperLine(at + 1), InInterface,
           file[at + 1].key \in HealthKeys
    PROVE  LET u == at + 1
               k == file[u].key
               i == NameOf(u, 2)
           IN  /\ i \in DOMAIN health
               /\ IF HealthSetting(k, Name(u))
                  THEN GaveSettings(i, Assigned(health[i].settings, k, Name(u)))
                  ELSE health' = health
<1> DEFINE u == at + 1
           k == file[u].key
<1>1. /\ outcome = "reading" /\ at < Len(file) /\ depth \in Nat
      /\ Process(path', depth', k, Name(u))
      /\ file[u].brace = ""  => depth' = depth
      /\ depth # 0 => path'[0] = path[0]
  BY Reading
<1>2. file[u].brace = "" /\ depth = 2 /\ path[0] = "health"
  BY <1>1, ProperKeys
<1>3. depth' = 2 /\ path'[0] = "health" /\ depth >= 2
  <2>1. depth = 2 => depth # 0 /\ depth >= 2
    OBVIOUS
  <2> QED BY <1>1, <1>2, <2>1, Zenon
<1>4. /\ NameOf(u, 2) = health_iter /\ health_iter # NoIface
      /\ health_iter \in DOMAIN health
  BY <1>2, <1>3, OfInterface
<1>5. k # "interface"
  BY DEF HealthKeys
<1> HIDE DEF k, u
<1>6. ProcessHealthInterface(k, Name(u))
  BY <1>1, <1>3, <1>5 DEF Process, ProcessHealthLine
<1>7. CASE HealthSetting(k, Name(u))
  BY <1>4, <1>6, <1>7, InterfaceGives DEF k, u
<1>8. CASE ~HealthSetting(k, Name(u))
  BY <1>4, <1>6, <1>8 DEF ProcessHealthInterface, Ignored, data, k, u
<1> QED BY <1>7, <1>8

LEMMA AtType ==
    ASSUME Types, Nested, ReadLine, ProperLine(at + 1), InInterface,
           file[at + 1].key = "type"
    PROVE  LET u == at + 1
               i == NameOf(u, 2)
           IN  /\ i \in DOMAIN health /\ depth = 3 /\ depth' = 4
               /\ test_iter' = <<i, number>>
               /\ IF Name(u) \in Known.type
                  THEN GaveTests(i, Inserted(health[i].tests, number,
                                             [type |-> Name(u), settings |-> Empty]))
                  ELSE health' = health
<1> DEFINE u == at + 1
           k == file[u].key
<1>1. /\ outcome = "reading" /\ at < Len(file) /\ depth \in Nat
      /\ Process(path', depth', k, Name(u))
      /\ file[u].brace = "{" => depth' = depth + 1
      /\ depth # 0 => path'[0] = path[0]
  BY Reading
<1>2. file[u].brace = "{" /\ depth = 3 /\ path[0] = "health"
  BY <1>1, ProperKeys
<1>3. depth' = 4 /\ path'[0] = "health" /\ depth >= 2
  <2>1. depth = 3 => depth # 0 /\ depth >= 2 /\ depth + 1 = 4
    OBVIOUS
  <2> QED BY <1>1, <1>2, <2>1, Zenon
<1>4. /\ NameOf(u, 2) = health_iter /\ health_iter # NoIface
      /\ health_iter \in DOMAIN health
  BY <1>2, <1>3, OfInterface
<1>5. k = "type"
  OBVIOUS
<1> HIDE DEF k, u
<1>6. ProcessType(Name(u))
  <2>1. ProcessHealthLine(4, "type", Name(u))
    BY <1>1, <1>3, <1>5 DEF Process
  <2> QED BY <2>1, Depths DEF ProcessHealthLine
<1>7. /\ test_iter' = <<health_iter, number>>
      /\ Name(u) \notin Known.type => health' = health
      /\ Name(u) \in Known.type =>
            GaveTests(health_iter,
                      Inserted(health[health_iter].tests, number,
                               [type |-> Name(u), settings |-> Empty]))
  BY <1>4, <1>6, TypeGives
<1> QED BY <1>2, <1>3, <1>4, <1>7 DEF u

LEMMA AtTestSetting ==
    ASSUME Types, Nested, ReadLine, ProperLine(at + 1), InInterface, InATest,
           file[at + 1].key \in TestSettings, path[0] = "health",
           outcome' # "undefined"
    PROVE  LET u == at + 1
               i == NameOf(u, 2)
               n == test_iter[2]
           IN  /\ i \in DOMAIN health /\ depth = 4 /\ depth' = 4
               /\ IF n \in DOMAIN health[i].tests
                  THEN GaveTests(i, [health[i].tests EXCEPT ![n].settings =
                                       Assigned(@, file[u].key, Name(u))])
                  ELSE health' = health
<1> DEFINE u == at + 1
           k == file[u].key
<1>1. /\ outcome = "reading" /\ at < Len(file) /\ depth \in Nat
      /\ Process(path', depth', k, Name(u))
      /\ file[u].brace = ""  => depth' = depth
      /\ depth # 0 => path'[0] = path[0]
  BY Reading
<1>2. file[u].brace = "" /\ depth = 4 /\ path[0] = "health"
  BY <1>1, ProperKeys
<1>3. depth' = 4 /\ path'[0] = "health" /\ depth >= 2 /\ depth >= 4
  <2>1. depth = 4 => depth # 0 /\ depth >= 2 /\ depth >= 4
    OBVIOUS
  <2> QED BY <1>1, <1>2, <2>1, Zenon
<1>4. NameOf(u, 2) = health_iter
  BY <1>2, <1>3, OfInterface
<1>5. k # "type" /\ k \in TestSettings
  BY DEF TestSettings
<1> HIDE DEF k, u
<1>6. ProcessTestSetting(k, Name(u))
  <2>1. ProcessHealthLine(4, k, Name(u))
    BY <1>1, <1>3 DEF Process
  <2> QED BY <1>5, <2>1, Depths DEF ProcessHealthLine
<1>7. test_iter[1] = NameOf(u, 2)
  BY <1>2, <1>3, <1>4 DEF InATest
<1>8. LET i == test_iter[1]
          n == test_iter[2]
      IN  /\ i \in DOMAIN health
          /\ n \notin DOMAIN health[i].tests => health' = health
          /\ n \in DOMAIN health[i].tests =>
               GaveTests(i, [health[i].tests EXCEPT ![n].settings =
                               Assigned(@, k, Name(u))])
  BY <1>6, TestSettingGives
<1> QED BY <1>2, <1>3, <1>7, <1>8 DEF u, k

LEMMA AtInterface ==
    ASSUME Types, Nested, ReadLine, ProperLine(at + 1), NamesIface(at + 1)
    PROVE  LET v == Name(at + 1)
           IN  /\ DOMAIN health' = DOMAIN health \cup {v}
               /\ \A i \in DOMAIN health : health'[i] = health[i]
               /\ v \notin DOMAIN health =>
                     health'[v].settings = Empty /\ health'[v].tests = Empty
<1> DEFINE u == at + 1
           k == file[u].key
<1>1. /\ outcome = "reading" /\ at < Len(file) /\ Name(u) \in Values
      /\ Process(path', depth', k, Name(u))
  BY Reading
<1>2. /\ path'[0] = "health" /\ depth' = 2 /\ k = "interface"
      /\ Name(u) # ""
  BY <1>1, WhenNamed DEF ReadLine
<1> HIDE DEF k, u
<1>3. ProcessHealth(Name(u))
  BY <1>1, <1>2 DEF Process, ProcessHealthLine
<1> QED BY <1>1, <1>2, <1>3, HealthGives DEF u

(* No other line gives anything. *)
LEMMA AtOther ==
    ASSUME Types, Nested, ReadLine, ProperLine(at + 1),
           outcome' # "undefined", ~NamesIface(at + 1),
           file[at + 1].key \notin HealthKeys, file[at + 1].key # "type",
           ~(file[at + 1].key \in TestSettings /\ path[0] = "health")
    PROVE  health' = health
<1> DEFINE u == at + 1
           k == file[u].key
<1>1. /\ outcome = "reading" /\ at < Len(file) /\ Name(u) \in Values
      /\ path' \in [0..MaxDepth -> Keys] /\ depth \in Nat
      /\ Process(path', depth', k, Name(u))
      /\ depth # 0 => path'[0] = path[0]
  BY Reading
<1>2. ~(path'[0] = "health" /\ depth' = 2 /\ k = "interface")
  BY <1>1, WhenNamed DEF ReadLine
<1>3. ~GivesInterface(path', depth', k, Name(u))
  BY <1>2 DEF GivesInterface
<1>4. ~GivesSetting(path', depth', k, Name(u))
  BY DEF GivesSetting, HealthSetting, HealthKeys
<1>5. ~GivesTest(path', depth', k, Name(u))
  BY DEF GivesTest
<1>6. ~GivesTestSetting(path', depth', k, Name(u))
  <2> SUFFICES ASSUME path'[0] = "health", depth' = 4, k \in TestSettings
               PROVE  FALSE
    BY DEF GivesTestSetting
  <2>1. depth # 0
    <3>1. depth' >= 4
      OBVIOUS
    <3>2. depth >= 4 \/ depth + 1 = 4
      BY <3>1, DepthFrom
    <3> QED BY <1>1, <3>2
  <2> QED BY <1>1, <2>1
<1> HIDE DEF k, u
<1> QED BY <1>1, <1>3, <1>4, <1>5, <1>6, HealthMoves

LEMMA SettingPlaces ==
    ASSUME NEW w, NEW c, [where |-> w, key |-> c] \in Settings
    PROVE  Len(w) # 3
<1>1. \/ w \in {<<>>} \/ w \in {InIface} \/ w \in {InType} \/ w \in {<<"rule">>}
      \/ w \in {<<"rule", "source">>, <<"rule", "destination">>}
      \/ w \in {<<"rule", "limit">>} \/ w \in {<<"rule", "interface">>}
  <2>1. ASSUME NEW A, NEW B, [where |-> w, key |-> c] \in [where : A, key : B]
        PROVE  w \in A
    BY <2>1
  <2> QED BY <2>1 DEF Settings
<1>2. Len(InType) # 3 /\ Len(InIface) # 3
  BY LongPlaces DEF InIface
<1>3. /\ Len(<<>>) # 3 /\ Len(<<"rule">>) # 3 /\ Len(<<"rule", "source">>) # 3
      /\ Len(<<"rule", "destination">>) # 3 /\ Len(<<"rule", "limit">>) # 3
      /\ Len(<<"rule", "interface">>) # 3
  OBVIOUS
<1> QED BY <1>1, <1>2, <1>3

(* In a test of a proper file the number is that of the test until its     *)
(* type is given; there the iterator to the test has that number.          *)
Numbered ==
    path[0] = "health" =>
        /\ depth = 3 /\ (\A t \in TypeHeads : Heads(t)[3] # Open[at][3])
              => number = Num(Open[at][3])
        /\ depth >= 4 =>
              /\ \E t \in TypeHeads : Heads(t)[3] = Open[at][3]
              /\ OneType => test_iter[2] = Num(Open[at][3])

LEMMA DepthsOfTests ==
    ASSUME NEW d \in Nat
    PROVE  /\ d >= 3 => d + 1 # 3 /\ d # 0 /\ d # 2 /\ d + 1 # 2 /\ 3 \in 1..d
           /\ d - 1 = 3 => d >= 4
           /\ d >= 4 => d >= 3 /\ d # 3
           /\ d + 1 = 3 => d = 2
           /\ d + 1 = 4 => d = 3 /\ d >= 3
           /\ 4 >= 3 /\ 3 >= 3 /\ 3 # 4
  OBVIOUS

LEMMA OneTypeNext ==
    ASSUME Types, Nested, ReadLine, ProperLine(at + 1), OneType'
    PROVE  /\ OneType
           /\ file[at + 1].key = "type" =>
                 \A t \in TypeHeads : Heads(t)[3] # Open[at][3]
<1> DEFINE u == at + 1
<1>1. outcome = "reading" /\ at < Len(file) /\ file' = file /\ at \in Nat
  BY Reading
<1>2. TypeHeads' = IF file[u].key = "type" THEN TypeHeads \cup {u} ELSE TypeHeads
  BY LinesNext
<1>3. \A t : Heads(t)' = Heads(t)
  BY <1>1, HeadsKept
<1>4. \A x, y \in TypeHeads' : x # y => Heads(x)[3] # Heads(y)[3]
  BY <1>3 DEF OneType
<1>5. Heads(u) = Open[at]
  BY <1>1, WhereIs
<1>6. \A t \in TypeHeads : t # u
  <2>1. \A t \in TypeHeads : t \in Nat /\ t < u
    BY LinesAre DEF TypeHeads
  <2> QED BY <1>1, <2>1
<1> HIDE DEF u
<1> QED BY <1>2, <1>4, <1>5, <1>6 DEF OneType, u

LEMMA NumberedNext ==
    ASSUME Types, Nested, ReadLine, ProperLine(at + 1), InInterface, Numbered,
           depth' \in Nat
    PROVE  Numbered'
<1> SUFFICES ASSUME path'[0] = "health", depth' >= 3 PROVE Numbered'
  <2>1. /\ depth' = 3 => depth' >= 3
        /\ depth' >= 4 => depth' >= 3
    OBVIOUS
  <2> QED BY <2>1 DEF Numbered
<1> DEFINE u == at + 1
           k == file[u].key
           h == Open[u][3]
<1>1. /\ outcome = "reading" /\ at < Len(file) /\ file' = file
      /\ at' = u /\ depth \in Nat /\ Name(u) \in Values
      /\ file[u].brace \in {"", "{", "}"}
      /\ path' \in [0..MaxDepth -> Keys]
      /\ Process(path', depth', k, Name(u))
      /\ file[u].brace = "{" => depth' = depth + 1
      /\ file[u].brace = "}" => depth' = depth - 1
      /\ file[u].brace = ""  => depth' = depth
      /\ depth # 0 => path'[0] = path[0]
  BY Reading
<1>2. /\ \A j \in 1..depth : j <= depth' => Open[u][j] = Open[at][j]
      /\ file[u].brace = "{" => Open[u][depth + 1] = u
  BY OpenNext
<1>3. TypeHeads' = IF k = "type" THEN TypeHeads \cup {u} ELSE TypeHeads
  BY LinesNext
<1>4. Open' = Open /\ \A x : Num(x)' = Num(x)
  BY <1>1, OpenSame, HeadsKept
<1>5. \A t : Heads(t)' = Heads(t)
  BY <1>1, HeadsKept
<1>6. Open[at][3]' = h /\ (Num(Open[at][3]))' = Num(h)
  <2>1. Open[at][3]' = h
    BY <1>1, <1>4
  <2>2. (Num(Open[at][3]))' = Num(h)
    BY <1>1, <1>4 DEF Num, Name
  <2> QED BY <2>1, <2>2
<1>7. \/ depth >= 3
      \/ file[u].brace = "{" /\ depth = 2 /\ depth' = 3
  BY <1>1, DepthFrom, DepthsOfTests
<1>8. /\ k = "type" => file[u].brace = "{" /\ depth = 3
      /\ file[u].brace = "{" /\ depth = 3 => k = "type"
      /\ file[u].brace = "{" => depth <= 3
  BY <1>1, ProperKeys
<1>9. depth >= 3 => h = Open[at][3] /\ path[0] = "health"
  BY <1>1, <1>2, DepthsOfTests
<1>10. SUFFICES
         /\ depth' = 3 /\ (\A t \in TypeHeads' : Heads(t)[3] # h)
               => number' = Num(h)
         /\ depth' >= 4 =>
               /\ \E t \in TypeHeads' : Heads(t)[3] = h
               /\ OneType' => test_iter'[2] = Num(h)
  <2> HIDE DEF h, u, k
  <2> QED BY <1>5, <1>6 DEF Numbered
<1> HIDE DEF u, k, h
<1>11. CASE file[u].brace = "{" /\ depth = 2 /\ depth' = 3
  <2>1. ProcessHealthRule(Name(u))
    <3>1. ProcessHealthLine(3, k, Name(u))
      BY <1>1, <1>11 DEF Process
    <3> QED BY <3>1, DepthsOfTests DEF ProcessHealthLine
  <2>2. number' = Num(u)
    BY <2>1 DEF ProcessHealthRule, Num
  <2>3. h = u
    <3>1. Open[u][2 + 1] = u
      BY <1>2, <1>11
    <3> QED BY <3>1 DEF h
  <2>4. ~(depth' >= 4)
    <3>1. depth' = 3 => ~(depth' >= 4)
      OBVIOUS
    <3> QED BY <1>11, <3>1, Zenon
  <2> QED BY <2>2, <2>3, <2>4
<1>12. CASE depth >= 3 /\ file[u].brace = "{"
  <2>1. k = "type" /\ depth = 3 /\ depth' = 4
    <3>1. depth = 3
      <4>1. depth <= 3 /\ depth >= 3 /\ depth \in Nat
        BY <1>1, <1>8, <1>12
      <4> QED BY <4>1
    <3>2. depth' = 3 + 1
      BY <1>1, <1>12, <3>1
    <3>3. 3 + 1 = 4
      OBVIOUS
    <3> QED BY <1>8, <1>12, <3>1, <3>2, <3>3, Zenon
  <2>2. u \in TypeHeads' /\ Heads(u)[3] = h
    <3>1. Heads(u) = Open[at]
      BY <1>1, WhereIs DEF u
    <3> QED BY <1>3, <1>9, <1>12, <2>1, <3>1
  <2>3. ASSUME OneType'
        PROVE  test_iter'[2] = Num(h)
    <3>1. \A t \in TypeHeads : Heads(t)[3] # Open[at][3]
      BY <2>1, <2>3, OneTypeNext DEF k, u
    <3>2. number = Num(h)
      BY <1>9, <1>12, <2>1, <3>1 DEF Numbered
    <3>3. test_iter' = <<NameOf(u, 2), number>>
      BY <2>1, AtType DEF k, u
    <3> QED BY <3>2, <3>3
  <2>4. depth' # 3
    BY <2>1, DepthsOfTests
  <2> QED BY <2>2, <2>3, <2>4
<1>13. CASE depth >= 3 /\ file[u].brace # "{"
  <2>1. test_iter' = test_iter
    <3>1. k # "type"
      BY <1>8, <1>13
    <3> QED BY <1>1, <3>1, IterMoves
  <2>2. TypeHeads' = TypeHeads
    BY <1>3, <1>8, <1>13
  <2>3. OneType' => OneType
    BY OneTypeNext
  <2>4. depth = 3 => file[u].brace = "}"
    <3> SUFFICES ASSUME depth = 3, file[u].brace = "" PROVE FALSE
      BY <1>1, <1>13
    <3>1. [where |-> Where(u), key |-> file[u].key] \in Settings
      BY DEF ProperLine, u
    <3>2. Len(Where(u)) = depth
      BY <1>1, PlaceIs DEF u
    <3> QED BY <3>1, <3>2, SettingPlaces
  <2>5. depth >= 4
    <3>1. depth = 3 => depth' # 3 /\ ~(depth' >= 3)
      <4> SUFFICES ASSUME depth = 3 PROVE depth' # 3 /\ ~(depth' >= 3)
        OBVIOUS
      <4>1. depth' = 3 - 1
        BY <1>1, <2>4
      <4> QED BY <4>1
    <3>2. depth \in Nat /\ depth >= 3 /\ depth # 3
      BY <1>1, <1>13, <3>1
    <3> QED BY <3>2
  <2>6. /\ \E t \in TypeHeads : Heads(t)[3] = h
        /\ OneType => test_iter[2] = Num(h)
    BY <1>9, <1>13, <2>5 DEF Numbered
  <2> QED BY <2>1, <2>2, <2>3, <2>6
<1> QED BY <1>7, <1>11, <1>12, <1>13

(* What is recorded of each interface is what its lines say; the lines of  *)
(* an interface are of one there is.                                       *)
Ping == [n \in {1} |-> [type |-> "ping", settings |-> Empty]]
Wanted(T, L) == IF T = {} /\ outcome = "loaded" THEN Ping ELSE TestsOf(T, L)

SettingsRecorded(i) ==
    \A K : K = SettingsOf(i) => health[i].settings = LastOf(K)
TestsRecorded(i) ==
    OneType => \A T, L : T = TypesOf(i) /\ L = TestLinesOf(i) =>
                            health[i].tests = Wanted(T, L)
Silent(i) == SettingsOf(i) = {} /\ TypesOf(i) = {} /\ TestLinesOf(i) = {}

Recorded ==
    Proper /\ outcome # "undefined" =>
        /\ \A i \in DOMAIN health : SettingsRecorded(i) /\ TestsRecorded(i)
        /\ \A i : i \in DOMAIN health \/ Silent(i)

(* The words of a line say which of the kinds it is, and only one.         *)
LEMMA Kinds ==
    ASSUME NEW k
    PROVE  /\ k \in HealthKeys => k # "type" /\ k \notin TestSettings /\ k # "interface"
           /\ k = "type" => k \notin HealthKeys /\ k \notin TestSettings /\ k # "interface"
           /\ k \in TestSettings => k # "type" /\ k \notin HealthKeys /\ k # "interface"
           /\ k = "interface" =>
                 k # "type" /\ k \notin HealthKeys /\ k \notin TestSettings
  BY DEF HealthKeys, TestSettings

LEMMA BeforeNext ==
    ASSUME Types, NEW i
    PROVE  /\ SettingsOf(i) \subseteq Nat /\ \A k \in SettingsOf(i) : k < at + 1
           /\ TypesOf(i) \subseteq Nat /\ \A k \in TypesOf(i) : k < at + 1
           /\ TestLinesOf(i) \subseteq Nat /\ \A k \in TestLinesOf(i) : k < at + 1
<1>1. \A k \in Lines(InIface, HealthKeys) : k \in Nat /\ k < at + 1
  BY LinesAre
<1>2. \A k \in TypeHeads : k \in Nat /\ k < at + 1
  BY LinesAre DEF TypeHeads
<1>3. \A k \in Lines(InType, TestSettings) : k \in Nat /\ k < at + 1
  BY LinesAre
<1> QED BY <1>1, <1>2, <1>3 DEF SettingsOf, TypesOf, TestLinesOf

LEMMA NextLine == Types => \E u \in Nat : u = at + 1
<1> SUFFICES ASSUME Types PROVE \E u \in Nat : u = at + 1
  OBVIOUS
<1>1. at \in Nat
  BY PlaceType
<1> QED BY <1>1

(* The numbers of the test that a line of a test is of. *)
LEMMA NumberOfLine ==
    ASSUME Types, Nested, ReadLine, ProperLine(at + 1), Numbered, OneType'
    PROVE  /\ file[at + 1].key = "type" => number = NumOf(at + 1, 3)
           /\ file[at + 1].key \in TestSettings /\ path[0] = "health" =>
                 test_iter[2] = NumOf(at + 1, 3)
<1> DEFINE u == at + 1
           k == file[u].key
<1>1. outcome = "reading" /\ at < Len(file)
  BY Reading
<1>2. Heads(u) = Open[at]
  BY <1>1, WhereIs
<1>3. NumOf(u, 3) = Num(Open[at][3])
  BY <1>2 DEF NumOf
<1>4. OneType /\ (k = "type" => \A t \in TypeHeads : Heads(t)[3] # Open[at][3])
  BY OneTypeNext
<1>5. /\ k = "type" => depth = 3 /\ path[0] = "health"
      /\ k \in TestSettings /\ path[0] = "health" => depth = 4
  BY <1>1, ProperKeys
<1>6. depth = 4 => depth >= 4
  OBVIOUS
<1> HIDE DEF u, k
<1>7. k = "type" => number = NumOf(u, 3)
  BY <1>3, <1>4, <1>5 DEF Numbered
<1>8. k \in TestSettings /\ path[0] = "health" => test_iter[2] = NumOf(u, 3)
  BY <1>3, <1>4, <1>5, <1>6 DEF Numbered
<1> QED BY <1>7, <1>8 DEF u, k

LEMMA RecordedNext ==
    ASSUME Types, Nested, ReadLine, ProperLine(at + 1), InInterface, InATest,
           Numbered, Proper, Recorded, outcome' # "undefined",
           outcome' # "loaded",
           NEW i, i \in DOMAIN health',
           NEW K, K = SettingsOf(i)', NEW T, T = TypesOf(i)',
           NEW L, L = TestLinesOf(i)'
    PROVE  /\ health'[i].settings = LastOf(K)
           /\ OneType' => health'[i].tests = TestsOf(T, L)
<1>0. PICK u \in Nat : u = at + 1
  BY NextLine
<1> DEFINE key == file[u].key
           mine == NameOf(u, 2) = i
           K0 == SettingsOf(i)
           T0 == TypesOf(i)
           L0 == TestLinesOf(i)
<1>1. outcome = "reading" /\ OneType' => OneType
  BY Reading, OneTypeNext
<1>2. i \in DOMAIN health =>
         /\ health[i].settings = LastOf(K0)
         /\ OneType' => health[i].tests = TestsOf(T0, L0)
  <2>1. Wanted(T0, L0) = TestsOf(T0, L0)
    BY Reading DEF Wanted
  <2> QED BY <1>1, <2>1, Reading DEF Recorded, SettingsRecorded, TestsRecorded
<1>3. i \notin DOMAIN health => K0 = {} /\ T0 = {} /\ L0 = {}
  BY Reading DEF Recorded, Silent
<1>4. /\ K = IF key \in HealthKeys /\ mine /\ HealthSetting(key, Name(u))
             THEN K0 \cup {u} ELSE K0
      /\ T = IF key = "type" /\ mine /\ Name(u) \in Known.type
             THEN T0 \cup {u} ELSE T0
      /\ L = IF key \in TestSettings /\ path[0] = "health" /\ mine
             THEN L0 \cup {u} ELSE L0
  BY <1>0, LinesNext
<1>5. /\ K0 \subseteq Nat /\ \A k \in K0 : k < u
      /\ T0 \subseteq Nat /\ \A k \in T0 : k < u
      /\ L0 \subseteq Nat /\ \A k \in L0 : k < u
  BY <1>0, BeforeNext
<1>6. i \notin DOMAIN health => LastOf(K0) = Empty /\ TestsOf(T0, L0) = Empty
  BY <1>3, LastOfNone, NoTests
<1> HIDE DEF K0, T0, L0, key
<1>7. CASE key \in HealthKeys
  <2>1. T = T0 /\ L = L0
    BY <1>4, <1>7, Kinds
  <2>2. /\ NameOf(u, 2) \in DOMAIN health
        /\ IF HealthSetting(key, Name(u))
           THEN GaveSettings(NameOf(u, 2),
                    Assigned(health[NameOf(u, 2)].settings, key, Name(u)))
           ELSE health' = health
    BY <1>0, <1>7, AtSetting DEF key
  <2>3. i \in DOMAIN health /\ health'[i].tests = health[i].tests
    BY <2>2 DEF GaveSettings
  <2>4. health'[i].settings =
          IF mine /\ HealthSetting(key, Name(u))
          THEN Assigned(LastOf(K0), key, Name(u)) ELSE LastOf(K0)
    BY <1>2, <2>2, <2>3 DEF GaveSettings
  <2>5. LastOf(K0 \cup {u}) = Assigned(LastOf(K0), key, Name(u))
    BY <1>5, LastOfNext DEF key
  <2> QED BY <1>2, <1>4, <1>7, <2>1, <2>3, <2>4, <2>5
<1>8. CASE key = "type"
  <2>1. K = K0 /\ L = L0
    BY <1>4, <1>8, Kinds
  <2> DEFINE e == [type |-> Name(u), settings |-> Empty]
  <2>2. /\ NameOf(u, 2) \in DOMAIN health
        /\ IF Name(u) \in Known.type
           THEN GaveTests(NameOf(u, 2),
                          Inserted(health[NameOf(u, 2)].tests, number, e))
           ELSE health' = health
    BY <1>0, <1>8, AtType DEF key
  <2> HIDE DEF e
  <2>3. i \in DOMAIN health /\ health'[i].settings = health[i].settings
    BY <2>2 DEF GaveTests
  <2>4. ASSUME OneType' PROVE health'[i].tests = TestsOf(T, L)
    <3>1. number = NumOf(u, 3)
      BY <1>0, <1>8, <2>4, NumberOfLine DEF key
    <3>2. TestsOf(T0 \cup {u}, L0) = Inserted(TestsOf(T0, L0), NumOf(u, 3), e)
      BY <1>5, TestsOfHeading DEF e
    <3>3. health'[i].tests =
            IF mine /\ Name(u) \in Known.type
            THEN Inserted(TestsOf(T0, L0), number, e) ELSE TestsOf(T0, L0)
      BY <1>2, <2>2, <2>3, <2>4 DEF GaveTests
    <3> QED BY <1>4, <1>8, <2>1, <3>1, <3>2, <3>3
  <2> QED BY <1>2, <2>1, <2>3, <2>4
<1>9. CASE key \in TestSettings /\ path[0] = "health"
  <2>1. K = K0 /\ T = T0
    BY <1>4, <1>9, Kinds
  <2> DEFINE n == test_iter[2]
             j == NameOf(u, 2)
             changed(f, m) == [f EXCEPT ![m].settings = Assigned(@, key, Name(u))]
  <2>2. /\ j \in DOMAIN health
        /\ IF n \in DOMAIN health[j].tests
           THEN GaveTests(j, changed(health[j].tests, n))
           ELSE health' = health
    BY <1>0, <1>9, AtTestSetting DEF key
  <2>3. TestsOf(T0, L0 \cup {u}) =
          IF NumOf(u, 3) \in DOMAIN TestsOf(T0, L0)
          THEN changed(TestsOf(T0, L0), NumOf(u, 3)) ELSE TestsOf(T0, L0)
    BY <1>5, TestsOfSetting DEF key
  <2> HIDE DEF changed, n
  <2>4. i \in DOMAIN health /\ health'[i].settings = health[i].settings
    BY <2>2 DEF GaveTests
  <2>5. ASSUME OneType' PROVE health'[i].tests = TestsOf(T, L)
    <3>1. n = NumOf(u, 3)
      BY <1>0, <1>9, <2>5, NumberOfLine DEF key, n
    <3>2. CASE ~mine
      <4>1. health'[i].tests = health[i].tests
        BY <2>2, <2>4, <3>2 DEF GaveTests
      <4> QED BY <1>2, <1>4, <2>1, <2>4, <2>5, <3>2, <4>1
    <3>3. CASE mine
      <4>1. health[i].tests = TestsOf(T0, L0) /\ L = L0 \cup {u}
        BY <1>2, <1>4, <1>9, <2>4, <2>5, <3>3
      <4>2. health'[i].tests =
              IF n \in DOMAIN health[i].tests
              THEN changed(health[i].tests, n) ELSE health[i].tests
        BY <2>2, <2>4, <3>3 DEF GaveTests
      <4> QED BY <2>1, <2>3, <3>1, <4>1, <4>2
    <3> QED BY <3>2, <3>3
  <2> QED BY <1>2, <2>1, <2>4, <2>5
<1>10. CASE NamesIface(u)
  <2>1. K = K0 /\ T = T0 /\ L = L0
    BY <1>4, <1>10, Kinds DEF NamesIface, key
  <2>2. /\ DOMAIN health' = DOMAIN health \cup {Name(u)}
        /\ \A j \in DOMAIN health : health'[j] = health[j]
        /\ Name(u) \notin DOMAIN health =>
              health'[Name(u)].settings = Empty /\ health'[Name(u)].tests = Empty
    BY <1>0, <1>10, AtInterface
  <2>3. CASE i \in DOMAIN health
    BY <1>2, <2>1, <2>2, <2>3
  <2>4. CASE i \notin DOMAIN health
    BY <1>6, <2>1, <2>2, <2>4
  <2> QED BY <2>3, <2>4
<1>11. CASE /\ key \notin HealthKeys /\ key # "type" /\ ~NamesIface(u)
            /\ ~(key \in TestSettings /\ path[0] = "health")
  <2>1. K = K0 /\ T = T0 /\ L = L0
    BY <1>4, <1>11
  <2>2. health' = health
    BY <1>0, <1>11, AtOther DEF key
  <2> QED BY <1>2, <2>1, <2>2
<1> QED BY <1>7, <1>8, <1>9, <1>10, <1>11

LEMMA SilentNext ==
    ASSUME Types, Nested, ReadLine, ProperLine(at + 1), InInterface, InATest,
           outcome' # "undefined", NEW i, i \in DOMAIN health \/ Silent(i)
    PROVE  i \in DOMAIN health' \/ Silent(i)'
<1> SUFFICES ASSUME i \notin DOMAIN health' PROVE Silent(i)'
  OBVIOUS
<1>1. i \notin DOMAIN health /\ Silent(i)
  <2>1. DOMAIN health \subseteq DOMAIN health'
    BY ReadLineIndices DEF SameIndices, NamesInterface
  <2> QED BY <2>1
<1> DEFINE u == at + 1
           key == file[u].key
<1>2. key \in HealthKeys \/ key = "type" \/ (key \in TestSettings /\ path[0] = "health")
        => NameOf(u, 2) \in DOMAIN health
  BY AtSetting, AtType, AtTestSetting
<1>3. /\ SettingsOf(i)' =
           IF key \in HealthKeys /\ NameOf(u, 2) = i /\ HealthSetting(key, Name(u))
           THEN SettingsOf(i) \cup {u} ELSE SettingsOf(i)
      /\ TypesOf(i)' =
           IF key = "type" /\ NameOf(u, 2) = i /\ Name(u) \in Known.type
           THEN TypesOf(i) \cup {u} ELSE TypesOf(i)
      /\ TestLinesOf(i)' =
           IF key \in TestSettings /\ path[0] = "health" /\ NameOf(u, 2) = i
           THEN TestLinesOf(i) \cup {u} ELSE TestLinesOf(i)
  BY LinesNext
<1> HIDE DEF u, key
<1> QED BY <1>1, <1>2, <1>3 DEF Silent

LEMMA ReadLineRecorded ==
    ASSUME Types, Nested, ReadLine, Recorded,
           Proper' => /\ ProperLine(at + 1) /\ Proper
                      /\ InInterface /\ InATest /\ Numbered
    PROVE  Recorded'
<1> SUFFICES ASSUME Proper', outcome' # "undefined"
             PROVE  /\ \A i \in DOMAIN health' : SettingsRecorded(i)' /\ TestsRecorded(i)'
                    /\ \A i : i \in DOMAIN health' \/ Silent(i)'
  BY DEF Recorded
<1>1. outcome = "reading" /\ file' = file
  BY Reading
<1>2. outcome' # "loaded"
  <2>1. Goes \/ outcome' = "undefined"
    BY Reading, ProcessOutcome
  <2> QED BY <2>1 DEF Goes
<1>3. ASSUME NEW i, i \in DOMAIN health',
             NEW K, K = SettingsOf(i)', NEW T, T = TypesOf(i)',
             NEW L, L = TestLinesOf(i)'
      PROVE  /\ health'[i].settings = LastOf(K)
             /\ OneType' => health'[i].tests = TestsOf(T, L)
  BY <1>2, <1>3, RecordedNext
<1>4. ASSUME NEW i \in DOMAIN health' PROVE SettingsRecorded(i)'
  <2> SUFFICES ASSUME NEW K, K = SettingsOf(i)'
               PROVE  health'[i].settings = LastOf(K)'
    BY DEF SettingsRecorded
  <2>1. PICK T, L : T = TypesOf(i)' /\ L = TestLinesOf(i)'
    OBVIOUS
  <2>2. health'[i].settings = LastOf(K)
    BY <1>3, <2>1
  <2> QED BY <1>1, <2>2, LastOfKept
<1>5. ASSUME NEW i \in DOMAIN health' PROVE TestsRecorded(i)'
  <2> SUFFICES ASSUME OneType', NEW T, NEW L, T = TypesOf(i)', L = TestLinesOf(i)'
               PROVE  health'[i].tests = Wanted(T, L)'
    BY DEF TestsRecorded
  <2>1. PICK K : K = SettingsOf(i)'
    OBVIOUS
  <2>2. health'[i].tests = TestsOf(T, L)
    BY <1>3, <2>1
  <2>3. Wanted(T, L)' = TestsOf(T, L)'
    BY <1>2 DEF Wanted
  <2> QED BY <1>1, <2>2, <2>3, TestsOfKept
<1>6. ASSUME NEW i PROVE i \in DOMAIN health' \/ Silent(i)'
  <2>1. i \in DOMAIN health \/ Silent(i)
    BY <1>1 DEF Recorded
  <2> QED BY <2>1, SilentNext
<1> QED BY <1>4, <1>5, <1>6

(* What the lines say is as it was. *)
LEMMA LinesStay ==
    ASSUME file' = file, at' = at, depth' = depth
    PROVE  /\ Proper' <=> Proper
           /\ OneType' <=> OneType
           /\ TypeHeads' = TypeHeads
           /\ \A i : /\ SettingsOf(i)' = SettingsOf(i)
                     /\ TypesOf(i)' = TypesOf(i)
                     /\ TestLinesOf(i)' = TestLinesOf(i)
<1>1. \A k : Where(k)' = Where(k)
  BY LinesKept
<1>2. \A k : Name(k)' = Name(k)
  BY LinesKept
<1>3. \A k : Heads(k)' = Heads(k)
  BY HeadsKept
<1>4. \A k : NameOf(k, 2)' = NameOf(k, 2)
  BY HeadsKept
<1>5. \A k : ProperLine(k)' <=> ProperLine(k)
  BY LinesKept
<1>6. Proper' <=> Proper
  BY <1>5 DEF Proper, Read
<1>7. /\ Lines(InIface, HealthKeys)' = Lines(InIface, HealthKeys)
      /\ TypeHeads' = TypeHeads
      /\ Lines(InType, TestSettings)' = Lines(InType, TestSettings)
  BY <1>1 DEF TypeHeads, Lines, Read
<1>8. OneType' <=> OneType
  BY <1>3, <1>7 DEF OneType
<1>9. ASSUME NEW i
      PROVE  /\ SettingsOf(i)' = SettingsOf(i)
             /\ TypesOf(i)' = TypesOf(i)
             /\ TestLinesOf(i)' = TestLinesOf(i)
  BY <1>2, <1>4, <1>7 DEF SettingsOf, TypesOf, TestLinesOf, HealthSetting
<1> QED BY <1>6, <1>7, <1>8, <1>9

(* At the end of the file an interface without a test gets a ping.         *)
LEMMA EndOfFileGives ==
    ASSUME Types, EndOfFile
    PROVE  /\ DOMAIN health' = DOMAIN health
           /\ \A i \in DOMAIN health :
                 /\ health'[i].settings = health[i].settings
                 /\ health'[i].tests =
                       IF outcome' = "loaded" /\ DOMAIN health[i].tests = {}
                       THEN Ping ELSE health[i].tests
           /\ outcome = "reading" /\ outcome' \in {"loaded", "failed"}
<1>1. CASE depth # 0
  BY <1>1 DEF EndOfFile
<1>2. CASE depth = 0
  <2> DEFINE ping == [type |-> "ping", settings |-> Empty]
             given(i) == Assigned(health[i].tests, 1, ping)
             entry(i) == IF DOMAIN health[i].tests # {} THEN health[i]
                         ELSE [health[i] EXCEPT !.tests = given(i)]
  <2>1. /\ health' = [i \in DOMAIN health |-> entry(i)]
        /\ outcome = "reading" /\ outcome' = "loaded"
    BY <1>2 DEF EndOfFile
  <2>2. ASSUME NEW i \in DOMAIN health
        PROVE  /\ entry(i).settings = health[i].settings
               /\ entry(i).tests = IF DOMAIN health[i].tests = {}
                                   THEN Ping ELSE health[i].tests
    <3>1. health[i] \in Interface
      BY InterfaceType
    <3>2. ASSUME DOMAIN health[i].tests = {} PROVE given(i) = Ping
      <4>1. given(i) = [x \in {} \cup {1} |->
                          IF x = 1 THEN ping ELSE health[i].tests[x]]
        BY <3>2 DEF Assigned
      <4>2. {} \cup {1} = {1}
        OBVIOUS
      <4> QED BY <4>1, <4>2 DEF Ping
    <3> HIDE DEF given
    <3> QED BY <3>1, <3>2 DEF Interface
  <2> HIDE DEF entry
  <2> QED BY <2>1, <2>2
<1> QED BY <1>1, <1>2

LEMMA EndOfFileRecorded ==
    ASSUME Types, Recorded, EndOfFile
    PROVE  Recorded'
<1> SUFFICES ASSUME Proper'
             PROVE  /\ \A i \in DOMAIN health' : SettingsRecorded(i)' /\ TestsRecorded(i)'
                    /\ \A i : i \in DOMAIN health' \/ Silent(i)'
  BY DEF Recorded
<1>1. file' = file /\ at' = at /\ depth' = depth
  BY DEF EndOfFile
<1>2. /\ Proper' <=> Proper
      /\ OneType' <=> OneType
      /\ \A i : /\ SettingsOf(i)' = SettingsOf(i)
                /\ TypesOf(i)' = TypesOf(i)
                /\ TestLinesOf(i)' = TestLinesOf(i)
  BY <1>1, LinesStay
<1>3. /\ DOMAIN health' = DOMAIN health
      /\ \A i \in DOMAIN health :
            /\ health'[i].settings = health[i].settings
            /\ health'[i].tests =
                  IF outcome' = "loaded" /\ DOMAIN health[i].tests = {}
                  THEN Ping ELSE health[i].tests
      /\ outcome = "reading"
  BY EndOfFileGives
<1>4. /\ \A i \in DOMAIN health : SettingsRecorded(i) /\ TestsRecorded(i)
      /\ \A i : i \in DOMAIN health \/ Silent(i)
  BY <1>2, <1>3 DEF Recorded
<1>5. ASSUME NEW i \in DOMAIN health' PROVE SettingsRecorded(i)'
  <2> SUFFICES ASSUME NEW K, K = SettingsOf(i)'
               PROVE  health'[i].settings = LastOf(K)'
    BY DEF SettingsRecorded
  <2>1. health'[i].settings = LastOf(K)
    BY <1>2, <1>3, <1>4 DEF SettingsRecorded
  <2> QED BY <1>1, <2>1, LastOfKept
<1>6. ASSUME NEW i \in DOMAIN health' PROVE TestsRecorded(i)'
  <2> SUFFICES ASSUME OneType', NEW T, NEW L, T = TypesOf(i)', L = TestLinesOf(i)'
               PROVE  health'[i].tests = Wanted(T, L)'
    BY DEF TestsRecorded
  <2>1. health[i].tests = TestsOf(T, L)
    BY <1>2, <1>3, <1>4 DEF TestsRecorded, Wanted
  <2>2. DOMAIN TestsOf(T, L) = {NumOf(k, 3) : k \in T}
    BY NoTests
  <2>3. DOMAIN health[i].tests = {} <=> T = {}
    BY <2>1, <2>2
  <2>4. Wanted(T, L)' = IF T = {} /\ outcome' = "loaded" THEN Ping ELSE TestsOf(T, L)
    <3>1. Ping' = Ping
      BY DEF Ping, Empty
    <3>2. TestsOf(T, L)' = TestsOf(T, L)
      BY <1>1, TestsOfKept
    <3> QED BY <3>1, <3>2 DEF Wanted
  <2> QED BY <1>3, <2>1, <2>3, <2>4
<1>7. ASSUME NEW i PROVE i \in DOMAIN health' \/ Silent(i)'
  BY <1>2, <1>3, <1>4 DEF Silent
<1> QED BY <1>5, <1>6, <1>7

LEMMA StutterRecorded ==
    ASSUME Recorded, UNCHANGED vars
    PROVE  Recorded'
<1>1. /\ file' = file /\ at' = at /\ depth' = depth /\ outcome' = outcome
      /\ health' = health
  BY DEF vars, data
<1>2. /\ Proper' <=> Proper
      /\ OneType' <=> OneType
      /\ \A i : /\ SettingsOf(i)' = SettingsOf(i)
                /\ TypesOf(i)' = TypesOf(i)
                /\ TestLinesOf(i)' = TestLinesOf(i)
  BY <1>1, LinesStay
<1>3. \A i : SettingsRecorded(i) => SettingsRecorded(i)'
  <2>1. \A K : LastOf(K)' = LastOf(K)
    BY <1>1, LastOfKept
  <2> QED BY <1>1, <1>2, <2>1 DEF SettingsRecorded
<1>4. \A i : TestsRecorded(i) => TestsRecorded(i)'
  <2>1. \A T, L : TestsOf(T, L)' = TestsOf(T, L)
    BY <1>1, TestsOfKept
  <2>2. Ping' = Ping
    BY DEF Ping, Empty
  <2>3. \A T, L : Wanted(T, L)' = Wanted(T, L)
    BY <1>1, <2>1, <2>2 DEF Wanted
  <2> QED BY <1>1, <1>2, <2>3 DEF TestsRecorded
<1>5. \A i : Silent(i) => Silent(i)'
  BY <1>2 DEF Silent
<1> QED BY <1>1, <1>2, <1>3, <1>4, <1>5 DEF Recorded

-----------------------------------------------------------------------------
Written ==
    /\ Indices /\ Safe /\ Recorded
    /\ outcome = "reading" /\ Proper => Numbered

LEMMA InitWritten == Init => Recorded /\ Numbered
<1> SUFFICES ASSUME Init PROVE Recorded /\ Numbered
  OBVIOUS
<1>1. depth = 0 /\ at = 0 /\ DOMAIN health = {} /\ path[0] = ""
  <2>1. 0 \in 0..MaxDepth
    <3>1. MaxDepth \in Nat
      BY FactoryAssumption
    <3> QED BY <3>1
  <2> QED BY <2>1 DEF Init, Empty
<1>2. Numbered
  BY <1>1 DEF Numbered
<1>3. \A w, K : Lines(w, K) = {}
  <2>1. 1..0 = {}
    OBVIOUS
  <2> QED BY <1>1, <2>1 DEF Lines, Read
<1>4. \A i : Silent(i)
  BY <1>3 DEF Silent, SettingsOf, TypesOf, TypeHeads, TestLinesOf
<1> QED BY <1>1, <1>2, <1>4 DEF Recorded

LEMMA WrittenInductive == Written /\ [Next]_vars => Written'
<1> SUFFICES ASSUME Written, [Next]_vars PROVE Written'
  OBVIOUS
<1>1. Indices' /\ Safe'
  BY IndicesInductive, SafeInductive DEF Written
<1>2. Types /\ Nested /\ Guided /\ Recorded /\ Types'
  BY <1>1 DEF Written, Safe
<1>3. CASE ReadLine
  <2>1. outcome = "reading"
    BY <1>3 DEF ReadLine
  <2>2. ASSUME Proper'
        PROVE  /\ ProperLine(at + 1) /\ Proper
               /\ InInterface /\ InATest /\ Numbered
    BY <1>2, <1>3, <2>1, <2>2, NextHeads DEF Guided, Written
  <2>3. Recorded'
    BY <1>2, <1>3, <2>2, ReadLineRecorded
  <2>4. ASSUME outcome' = "reading", Proper' PROVE Numbered'
    <3>1. depth' \in Nat
      <4>1. depth' \in 0..MaxDepth /\ MaxDepth \in Nat
        BY <1>2, <2>4, PlaceType DEF Types, PlaceOK
      <4> QED BY <4>1
    <3> QED BY <1>2, <1>3, <2>2, <2>4, <3>1, NumberedNext
  <2> QED BY <1>1, <2>3, <2>4 DEF Written
<1>4. CASE EndOfFile
  <2>1. outcome' # "reading"
    BY <1>4 DEF EndOfFile
  <2> QED BY <1>1, <1>2, <1>4, <2>1, EndOfFileRecorded DEF Written
<1>5. CASE UNCHANGED vars
  <2>1. /\ file' = file /\ at' = at /\ depth' = depth /\ outcome' = outcome
        /\ path' = path /\ number' = number /\ test_iter' = test_iter
    BY <1>5 DEF vars, iters
  <2>2. /\ Proper' <=> Proper
        /\ OneType' <=> OneType
        /\ TypeHeads' = TypeHeads
    BY <2>1, LinesStay
  <2>3. Numbered => Numbered'
    <3>1. \A k : Heads(k)' = Heads(k)
      BY <2>1, HeadsKept
    <3>2. Open' = Open
      BY <2>1, OpenSame
    <3>3. (Num(Open[at][3]))' = Num(Open[at][3])
      BY <2>1, <3>2 DEF Num, Name
    <3> QED BY <2>1, <2>2, <3>1, <3>2, <3>3 DEF Numbered
  <2> QED BY <1>1, <1>2, <1>5, <2>1, <2>2, <2>3, StutterRecorded DEF Written
<1> QED BY <1>3, <1>4, <1>5 DEF Next

LEMMA WrittenGives == Written => HealthAsWritten
<1> SUFFICES ASSUME Written, Proper, outcome # "undefined"
             PROVE  /\ DOMAIN health = {Name(k) : k \in IfaceHeads}
                    /\ \A i \in DOMAIN health :
                          /\ health[i].settings = HealthMeant(i)
                          /\ OneType => health[i].tests = TestsMeant(i)
  BY DEF HealthAsWritten, OneType
<1>1. DOMAIN health = {Name(k) : k \in IfaceHeads}
  BY DEF Written, Indices, Ordered
<1>2. ASSUME NEW i \in DOMAIN health PROVE health[i].settings = HealthMeant(i)
  <2>1. health[i].settings = LastOf(SettingsOf(i))
    BY DEF Written, Recorded, SettingsRecorded
  <2> QED BY <2>1 DEF HealthMeant, SettingsOf, HealthKeys
<1>3. ASSUME NEW i \in DOMAIN health, OneType
      PROVE  health[i].tests = TestsMeant(i)
  <2> DEFINE T == TypesOf(i)
             L == TestLinesOf(i)
  <2>1. health[i].tests = Wanted(T, L)
    BY <1>3 DEF Written, Recorded, TestsRecorded
  <2>2. \A n, f : Since(L, n, f) = {k \in TestLines(i, n) : k > f}
    BY DEF Since, TestLines, TestLinesOf
  <2>3. Wanted(T, L) = TestsMeant(i)
    BY <2>2 DEF Wanted, TestsMeant, TestsOf, FirstOf, OfTest, Ping
  <2> QED BY <2>1, <2>3
<1> QED BY <1>1, <1>2, <1>3

(* In a file whose blocks stand where they belong every interface has, at  *)
(* every line and after the last, the settings and the tests that the      *)
(* lines of its own blocks say.                                            *)
THEOREM HealthTheorem == Spec => []HealthAsWritten
<1>1. Init => Written
  BY InitTypes, InitNested, InitGuided, InitDistinct, InitOrdered, InitWritten
     DEF Written, Safe, Indices
<1> QED BY <1>1, WrittenInductive, WrittenGives, PTL DEF Spec

-----------------------------------------------------------------------------
(* The number a type is read under: that of its block, or, after another   *)
(* type of the block, the 0 that the closing brace leaves.                 *)
NumberIn(h) == IF \E t \in TypeHeads : Heads(t)[3] = h THEN 0 ELSE Num(h)

BlocksBefore == \A t \in TypeHeads : Heads(t)[3] \in 1..at

ReadUnder ==
    path[0] = "health" =>
        /\ depth = 3 => number = NumberIn(Open[at][3])
        /\ depth >= 4 => /\ Open[at][4] \in TypeHeads
                         /\ Heads(Open[at][4])[3] = Open[at][3]
                         /\ test_iter[2] = Given(Open[at][4])

(* Every test is made by the first known type of its interface that is     *)
(* read under its number, and every such type has made one.                *)
MadeBy(i, n, t) ==
    /\ t \in TypesOf(i) /\ Given(t) = n
    /\ \A x \in TypesOf(i) : Given(x) = n => t <= x

Made ==
    /\ \A i \in DOMAIN health : \A n \in DOMAIN health[i].tests :
          \E t : MadeBy(i, n, t) /\ Name(t) = health[i].tests[n].type
    /\ \A i : \A x \in TypesOf(i) :
          i \in DOMAIN health /\ Given(x) \in DOMAIN health[i].tests

LEMMA GivenStays ==
    ASSUME Types, Nested, ReadLine, ProperLine(at + 1), NEW t \in TypeHeads
    PROVE  Given(t)' = Given(t)
<1> DEFINE u == at + 1
           S(x) == Heads(x)[3] = Heads(t)[3]
<1>1. file' = file
  BY Reading
<1>2. TypeHeads' = IF file[u].key = "type" THEN TypeHeads \cup {u} ELSE TypeHeads
  BY LinesNext
<1>3. t \in Nat /\ u \in Nat /\ t < u
  <2>1. t \in Nat /\ t < at + 1
    BY LinesAre DEF TypeHeads
  <2>2. at \in Nat
    BY PlaceType
  <2> QED BY <2>1, <2>2
<1>4. ~(u < t)
  BY <1>3
<1>5. \A x : Heads(x)' = Heads(x)
  BY <1>1, HeadsKept
<1>6. NumOf(t, 3)' = NumOf(t, 3)
  BY <1>1, HeadsKept
<1>7. (\E x \in TypeHeads' : x < t /\ S(x)) <=> \E x \in TypeHeads : x < t /\ S(x)
  <2> HIDE DEF S, u
  <2> QED BY <1>2, <1>4
<1>8. Given(t)' = IF \E x \in TypeHeads' : x < t /\ S(x) THEN 0 ELSE NumOf(t, 3)
  BY <1>5, <1>6 DEF Given
<1>9. Given(t) = IF \E x \in TypeHeads : x < t /\ S(x) THEN 0 ELSE NumOf(t, 3)
  BY DEF Given
<1> HIDE DEF S
<1> QED BY <1>7, <1>8, <1>9

LEMMA GivenNew ==
    ASSUME Types, Nested, ReadLine, ProperLine(at + 1), NEW u, u = at + 1
    PROVE  Given(u)' = NumberIn(Open[at][3])
<1> DEFINE h == Open[at][3]
<1>1. file' = file /\ outcome = "reading" /\ at < Len(file)
  BY Reading
<1>2. TypeHeads' = IF file[u].key = "type" THEN TypeHeads \cup {u} ELSE TypeHeads
  BY LinesNext
<1>3. u \in Nat /\ ~(u < u) /\ \A t \in TypeHeads : t < u
  <2>1. \A t \in TypeHeads : t \in Nat /\ t < at + 1
    BY LinesAre DEF TypeHeads
  <2>2. at \in Nat
    BY PlaceType
  <2> QED BY <2>1, <2>2
<1>4. \A x : Heads(x)' = Heads(x)
  BY <1>1, HeadsKept
<1>5. NumOf(u, 3)' = NumOf(u, 3)
  BY <1>1, HeadsKept
<1>6. Heads(u) = Open[at]
  BY <1>1, WhereIs
<1>7. NumOf(u, 3) = Num(h) /\ Heads(u)[3] = h
  BY <1>6 DEF NumOf
<1>8. Given(u)' = IF \E x \in TypeHeads' : x < u /\ Heads(x)[3] = h
                  THEN 0 ELSE Num(h)
  BY <1>4, <1>5, <1>7 DEF Given
<1> HIDE DEF h
<1>9. (\E x \in TypeHeads' : x < u /\ Heads(x)[3] = h)
         <=> \E x \in TypeHeads : Heads(x)[3] = h
  BY <1>2, <1>3
<1> QED BY <1>8, <1>9 DEF NumberIn, h

LEMMA BlocksNext ==
    ASSUME Types, Nested, ReadLine, ProperLine(at + 1), BlocksBefore
    PROVE  BlocksBefore'
<1>1. /\ outcome = "reading" /\ at < Len(file) /\ file' = file
      /\ at' = at + 1 /\ at \in Nat
  BY Reading
<1>2. PICK u : u = at + 1
  OBVIOUS
<1>3. TypeHeads' = IF file[u].key = "type" THEN TypeHeads \cup {u} ELSE TypeHeads
  BY <1>2, LinesNext
<1>4. \A t : Heads(t)' = Heads(t)
  BY <1>1, HeadsKept
<1>5. file[u].key = "type" => Heads(u)[3] \in 1..at
  <2> SUFFICES ASSUME file[u].key = "type" PROVE Heads(u)[3] \in 1..at
    OBVIOUS
  <2>1. depth = 3
    BY <1>1, <1>2, ProperKeys
  <2>2. 3 \in 1..depth
    BY <2>1
  <2>3. Heads(u) = Open[at]
    BY <1>1, <1>2, WhereIs
  <2> QED BY <1>1, <2>2, <2>3 DEF Nested
<1>6. 1..at \subseteq 1..at'
  BY <1>1
<1>7. \A t \in TypeHeads' : Heads(t)'[3] \in 1..at'
  BY <1>3, <1>4, <1>5, <1>6 DEF BlocksBefore
<1> QED BY <1>7 DEF BlocksBefore

LEMMA DepthsOfTypes ==
    ASSUME NEW d \in Nat
    PROVE  /\ d = 3 => d # 0 /\ d >= 3 /\ d + 1 = 4 /\ d <= 4 /\ 3 \in 1..d
                       /\ ~(d >= 4) /\ ~(d - 1 >= 3)
           /\ d >= 4 => d >= 3 /\ d >= 2 /\ d # 0 /\ d # 3
                        /\ 3 \in 1..d /\ 4 \in 1..d
           /\ d >= 3 /\ d # 3 => d >= 4
           /\ d >= 3 /\ d <= 3 => d = 3
           /\ d - 1 = 3 => d = 4
           /\ d = 2 => d + 1 = 3 /\ d # 3
           /\ 3 <= 4 /\ 4 >= 3 /\ 4 >= 4 /\ ~(3 >= 4) /\ 3 # 4 /\ 3 + 1 = 4
  OBVIOUS

LEMMA ClosingBrace ==
    ASSUME Types, Nested, ReadLine, ProperLine(at + 1), file[at + 1].brace = "}"
    PROVE  Number[Name(at + 1)] = 0
<1>1. outcome = "reading" /\ at < Len(file) /\ at \in Nat
  BY Reading
<1>2. file \in Files /\ at + 1 \in DOMAIN file
  BY <1>1, LineType DEF Types, PlaceOK
<1>3. file[at + 1].key = ""
  BY DEF ProperLine
<1>4. file[at + 1].value = ""
  BY <1>2, <1>3, FactoryAssumption
<1> QED BY <1>4, FactoryAssumption DEF Name

LEMMA ReadUnderNext ==
    ASSUME Types, Nested, ReadLine, ProperLine(at + 1), InInterface,
           BlocksBefore, ReadUnder, depth' \in Nat
    PROVE  ReadUnder'
<1> SUFFICES ASSUME path'[0] = "health", depth' >= 3 PROVE ReadUnder'
  <2>1. /\ depth' = 3 => depth' >= 3
        /\ depth' >= 4 => depth' >= 3
    OBVIOUS
  <2> QED BY <2>1 DEF ReadUnder
<1>0. PICK u : u = at + 1
  OBVIOUS
<1> DEFINE k == file[u].key
           h == Open[u][3]
           g == Open[u][4]
<1>1. /\ outcome = "reading" /\ at < Len(file) /\ file' = file
      /\ at' = u /\ at \in Nat /\ depth \in Nat /\ Name(u) \in Values
      /\ file[u].brace \in {"", "{", "}"}
      /\ path' \in [0..MaxDepth -> Keys]
      /\ Process(path', depth', k, Name(u))
      /\ file[u].brace = "{" => depth' = depth + 1
      /\ file[u].brace = "}" => depth' = depth - 1
      /\ file[u].brace = ""  => depth' = depth
      /\ depth # 0 => path'[0] = path[0]
  BY <1>0, Reading
<1>2. /\ \A j \in 1..depth : j <= depth' => Open[u][j] = Open[at][j]
      /\ file[u].brace = "{" => Open[u][depth + 1] = u
  BY <1>0, OpenNext
<1>3. TypeHeads' = IF k = "type" THEN TypeHeads \cup {u} ELSE TypeHeads
  BY <1>0, LinesNext
<1>4. \A t : Heads(t)' = Heads(t)
  BY <1>1, HeadsKept
<1>5. \A t : Num(t)' = Num(t)
  BY <1>1, HeadsKept
<1>6. Open[at][3]' = h /\ Open[at][4]' = g
  <2>1. Open' = Open
    BY <1>1, OpenSame
  <2> QED BY <1>1, <2>1
<1>7. NumberIn(Open[at][3])' =
         IF \E t \in TypeHeads' : Heads(t)[3] = h THEN 0 ELSE Num(h)
  BY <1>4, <1>5, <1>6 DEF NumberIn
<1>8. /\ k = "type" => file[u].brace = "{" /\ depth = 3
      /\ file[u].brace = "{" /\ depth = 3 => k = "type"
      /\ file[u].brace = "{" => depth <= 3
  BY <1>0, <1>1, ProperKeys
<1>9. \/ depth >= 3
      \/ file[u].brace = "{" /\ depth = 2 /\ depth' = 3
  BY <1>0, <1>1, DepthFrom, DepthsOfTests
<1>10. depth >= 3 => h = Open[at][3] /\ path[0] = "health"
  BY <1>1, <1>2, DepthsOfTests
<1>11. \A t \in TypeHeads : Given(t)' = Given(t)
  BY GivenStays
<1>12. SUFFICES
         /\ depth' = 3 => number' = NumberIn(Open[at][3])'
         /\ depth' >= 4 =>
               /\ g \in TypeHeads' /\ Heads(g)[3] = h
               /\ \A x : x = g => test_iter'[2] = Given(x)'
  <2>1. PICK x : x = g
    OBVIOUS
  <2> HIDE DEF g, h
  <2>2. Heads(Open[at][4])' = Heads(x)' /\ Given(Open[at][4])' = Given(x)'
    BY <1>6, <2>1 DEF Heads, Given, NumOf, Num, Name
  <2> QED BY <1>4, <1>6, <1>12, <2>1, <2>2 DEF ReadUnder
<1> HIDE DEF k, h, g
<1>13. CASE file[u].brace = "{" /\ depth = 2 /\ depth' = 3
  <2>1. number' = Num(u)
    <3>1. ProcessHealthLine(3, k, Name(u))
      BY <1>1, <1>13 DEF Process
    <3>2. ProcessHealthRule(Name(u))
      BY <3>1, DepthsOfTests DEF ProcessHealthLine
    <3> QED BY <3>2 DEF ProcessHealthRule, Num
  <2>2. h = u
    <3>1. Open[u][2 + 1] = u
      BY <1>2, <1>13
    <3> QED BY <3>1 DEF h
  <2>3. TypeHeads' = TypeHeads
    BY <1>1, <1>3, <1>8, <1>13, DepthsOfTypes
  <2>4. \A t \in TypeHeads : Heads(t)[3] # u
    <3>1. at \in Nat
      BY <1>1
    <3>2. u \notin 1..at
      BY <1>0, <3>1
    <3> QED BY <3>2 DEF BlocksBefore
  <2>5. ~(depth' >= 4)
    BY <1>13, DepthsOfTypes
  <2> QED BY <1>7, <2>1, <2>2, <2>3, <2>4, <2>5
<1>14. CASE depth >= 3 /\ file[u].brace = "{"
  <2>1. depth = 3 /\ k = "type"
    BY <1>1, <1>8, <1>14, DepthsOfTypes
  <2>2. depth' = 4 /\ depth' # 3
    BY <1>1, <1>14, <2>1, DepthsOfTypes
  <2>3. g = u
    <3>1. Open[u][3 + 1] = u
      BY <1>2, <1>14, <2>1
    <3> QED BY <3>1 DEF g
  <2>4. Heads(u)[3] = h
    <3>1. Heads(u) = Open[at]
      BY <1>0, <1>1, WhereIs
    <3> QED BY <1>10, <1>14, <3>1
  <2>5. test_iter' = <<NameOf(u, 2), number>>
    BY <1>0, <2>1, AtType DEF k
  <2>6. number = NumberIn(Open[at][3])
    BY <1>10, <1>14, <2>1 DEF ReadUnder
  <2>7. Given(u)' = NumberIn(Open[at][3])
    BY <1>0, GivenNew
  <2>8. \A x : x = g => test_iter'[2] = Given(x)'
    BY <2>3, <2>5, <2>6, <2>7
  <2> QED BY <1>3, <2>1, <2>2, <2>3, <2>4, <2>8
<1>15. CASE depth >= 3 /\ file[u].brace # "{"
  <2>1. TypeHeads' = TypeHeads /\ k # "type"
    BY <1>3, <1>8, <1>15
  <2>2. test_iter' = test_iter
    BY <1>1, <2>1, IterMoves
  <2>3. depth = 3 => file[u].brace = "}"
    <3> SUFFICES ASSUME depth = 3, file[u].brace = "" PROVE FALSE
      BY <1>1, <1>15
    <3>1. [where |-> Where(u), key |-> file[u].key] \in Settings
      BY <1>0 DEF ProperLine
    <3>2. Len(Where(u)) = depth
      BY <1>0, <1>1, PlaceIs
    <3> QED BY <3>1, <3>2, SettingPlaces
  <2>4. depth >= 4
    <3>1. depth # 3
      <4> SUFFICES ASSUME depth = 3 PROVE FALSE
        OBVIOUS
      <4>1. depth' = 3 - 1
        BY <1>1, <2>3
      <4> QED BY <4>1
    <3> QED BY <1>1, <1>15, <3>1, DepthsOfTypes
  <2>5. /\ Open[at][4] \in TypeHeads /\ Heads(Open[at][4])[3] = h
        /\ test_iter[2] = Given(Open[at][4])
    BY <1>10, <1>15, <2>4 DEF ReadUnder
  <2>6. ASSUME depth' = 3 PROVE number' = 0
    <3>1. file[u].brace = "}"
      BY <1>1, <1>15, <2>4, <2>6, DepthsOfTypes
    <3>2. Number[Name(u)] = 0
      BY <1>0, <3>1, ClosingBrace
    <3>3. ProcessHealthLine(3, k, Name(u))
      BY <1>1, <2>6 DEF Process
    <3>4. ProcessHealthRule(Name(u))
      BY <3>3, DepthsOfTests DEF ProcessHealthLine
    <3> QED BY <3>2, <3>4 DEF ProcessHealthRule
  <2>7. NumberIn(Open[at][3])' = 0
    BY <1>7, <2>1, <2>5
  <2>8. ASSUME depth' >= 4
        PROVE  /\ g \in TypeHeads' /\ Heads(g)[3] = h
               /\ \A x : x = g => test_iter'[2] = Given(x)'
    <3>1. g = Open[at][4]
      BY <1>1, <1>2, <2>4, <2>8, DepthsOfTypes DEF g
    <3>2. \A x : x = g => test_iter'[2] = Given(x)'
      BY <1>11, <2>2, <2>5, <3>1
    <3> QED BY <2>1, <2>5, <3>1, <3>2
  <2> QED BY <2>6, <2>7, <2>8
<1> QED BY <1>9, <1>13, <1>14, <1>15

(* No test came, and none changed its type.                                *)
SameTypes ==
    \A i \in DOMAIN health' : \A n \in DOMAIN health'[i].tests :
        /\ i \in DOMAIN health /\ n \in DOMAIN health[i].tests
        /\ health'[i].tests[n].type = health[i].tests[n].type

LEMMA TypesStay ==
    ASSUME Types, NEW i \in DOMAIN health, NEW n \in DOMAIN health[i].tests,
           NEW s
    PROVE  LET t == [health[i].tests EXCEPT ![n].settings = s]
           IN  /\ DOMAIN t = DOMAIN health[i].tests
               /\ \A m \in DOMAIN t : t[m].type = health[i].tests[m].type
<1> DEFINE u == health[i].tests
           e == [u[n] EXCEPT !.settings = s]
           t == [u EXCEPT ![n].settings = s]
<1>1. u \in Maps(Nat, Test) /\ n \in DOMAIN u
  BY InterfaceType DEF Interface, Tests
<1> HIDE DEF u
<1>2. u[n] \in Test
  BY <1>1, MapsType
<1>3. e.type = u[n].type
  BY <1>2 DEF Test
<1>4. t = [u EXCEPT ![n] = e]
  OBVIOUS
<1> HIDE DEF e, t
<1>5. DOMAIN t = DOMAIN u /\ \A m \in DOMAIN u : t[m].type = u[m].type
  BY <1>1, <1>3, <1>4
<1> QED BY <1>5 DEF t, u

(* No test went. *)
TestsStay ==
    \A i \in DOMAIN health :
        /\ i \in DOMAIN health'
        /\ DOMAIN health[i].tests \subseteq DOMAIN health'[i].tests

(* Only a type makes a test. *)
LEMMA OtherKeepsTests ==
    ASSUME Types, ReadLine, outcome' # "undefined", file[at + 1].key # "type",
           Nested
    PROVE  SameTypes /\ TestsStay
<1>0. PICK u : u = at + 1
  OBVIOUS
<1> DEFINE key == file[u].key
           value == Name(u)
<1>1. /\ Name(u) \in Values /\ path' \in [0..MaxDepth -> Keys]
      /\ Process(path', depth', key, value)
  BY <1>0, Reading
<1>2. key # "type"
  BY <1>0
<1> HIDE DEF key, value
<1>3. CASE health' = health
  BY <1>3 DEF SameTypes, TestsStay
<1>4. CASE GivesInterface(path', depth', key, value)
  <2>1. /\ DOMAIN health' = DOMAIN health \cup {value}
        /\ \A i \in DOMAIN health : health'[i] = health[i]
        /\ value \notin DOMAIN health => health'[value].tests = Empty
    BY <1>1, <1>4, HealthGives DEF GivesInterface, value
  <2>2. DOMAIN Empty = {}
    BY DEF Empty
  <2> QED BY <2>1, <2>2 DEF SameTypes, TestsStay
<1>5. CASE GivesSetting(path', depth', key, value)
  BY <1>5 DEF GivesSetting, GaveSettings, SameTypes, TestsStay
<1>6. CASE GivesTestSetting(path', depth', key, value)
  <2> DEFINE i == test_iter[1]
             n == test_iter[2]
             s == Assigned(health[i].tests[n].settings, key, value)
             t == [health[i].tests EXCEPT ![n].settings = s]
  <2>1. i \in DOMAIN health /\ n \in DOMAIN health[i].tests /\ GaveTests(i, t)
    BY <1>6 DEF GivesTestSetting
  <2> HIDE DEF i, n, s
  <2>2. /\ DOMAIN t = DOMAIN health[i].tests
        /\ \A m \in DOMAIN t : t[m].type = health[i].tests[m].type
    BY <2>1, TypesStay
  <2> HIDE DEF t
  <2> QED BY <2>1, <2>2 DEF GaveTests, SameTypes, TestsStay
<1>7. ~GivesTest(path', depth', key, value)
  BY <1>2 DEF GivesTest
<1> QED BY <1>1, <1>3, <1>4, <1>5, <1>6, <1>7, HealthMoves DEF value

LEMMA MadeNext ==
    ASSUME Types, Nested, ReadLine, ProperLine(at + 1), InInterface, ReadUnder,
           Made, outcome' # "undefined"
    PROVE  Made'
<1>0. PICK u : u = at + 1
  OBVIOUS
<1> DEFINE key == file[u].key
<1>1. /\ outcome = "reading" /\ at < Len(file) /\ file' = file
      /\ at \in Nat /\ depth \in Nat
  BY Reading
<1>2. \A i : TypesOf(i)' =
         IF key = "type" /\ NameOf(u, 2) = i /\ Name(u) \in Known.type
         THEN TypesOf(i) \cup {u} ELSE TypesOf(i)
  BY <1>0, LinesNext
<1>3. \A i : \A x \in TypesOf(i) : Given(x)' = Given(x) /\ x \in Nat /\ x < u
  <2>1. \A x \in TypeHeads : Given(x)' = Given(x)
    BY GivenStays
  <2>2. \A x \in TypeHeads : x \in Nat /\ x < u
    BY <1>0, LinesAre DEF TypeHeads
  <2> QED BY <2>1, <2>2 DEF TypesOf
<1>4. \A x : Name(x)' = Name(x)
  BY <1>1, LinesKept
<1>5. CASE ~(key = "type" /\ Name(u) \in Known.type)
  <2>1. \A i : TypesOf(i)' = TypesOf(i)
    BY <1>2, <1>5
  <2>2. SameTypes /\ TestsStay
    <3>1. CASE key = "type"
      <4>1. health' = health
        BY <1>0, <1>5, <3>1, AtType
      <4> QED BY <4>1 DEF SameTypes, TestsStay
    <3>2. CASE key # "type"
      BY <1>0, <3>2, OtherKeepsTests
    <3> QED BY <3>1, <3>2
  <2>3. \A i, n, t : MadeBy(i, n, t) => MadeBy(i, n, t)'
    BY <1>3, <2>1 DEF MadeBy
  <2>4. ASSUME NEW i \in DOMAIN health', NEW n \in DOMAIN health'[i].tests
        PROVE  \E t : MadeBy(i, n, t)' /\ Name(t)' = health'[i].tests[n].type
    <3>1. /\ i \in DOMAIN health /\ n \in DOMAIN health[i].tests
          /\ health'[i].tests[n].type = health[i].tests[n].type
      BY <2>2, <2>4 DEF SameTypes
    <3> QED BY <1>4, <2>3, <3>1 DEF Made
  <2>5. ASSUME NEW i, NEW x \in TypesOf(i)'
        PROVE  i \in DOMAIN health' /\ Given(x)' \in DOMAIN health'[i].tests
    BY <1>3, <2>1, <2>2 DEF Made, TestsStay
  <2> QED BY <2>4, <2>5 DEF Made
<1>6. CASE key = "type" /\ Name(u) \in Known.type
  <2>0. PICK i, m : i = NameOf(u, 2) /\ m = number
    OBVIOUS
  <2> DEFINE e == [type |-> Name(u), settings |-> Empty]
             t == Inserted(health[i].tests, m, e)
  <2>1. i \in DOMAIN health /\ depth = 3 /\ GaveTests(i, t)
    BY <1>0, <1>6, <2>0, AtType
  <2>2. e.type = Name(u)
    OBVIOUS
  <2> HIDE DEF e
  <2>3. /\ DOMAIN t = DOMAIN health[i].tests \cup {m}
        /\ \A n \in DOMAIN health[i].tests : t[n] = health[i].tests[n]
        /\ m \notin DOMAIN health[i].tests => t[m] = e
    BY DEF Inserted, Assigned
  <2> HIDE DEF t
  <2>4. Given(u)' = m
    <3>1. path[0] = "health"
      BY <1>0, <1>1, <1>6, ProperKeys
    <3>2. number = NumberIn(Open[at][3])
      BY <2>1, <3>1 DEF ReadUnder
    <3> QED BY <1>0, <2>0, <3>2, GivenNew
  <2>5. u \in Nat /\ u <= u /\ \A x \in TypesOf(i) : x <= u
    <3>1. u \in Nat
      BY <1>0, <1>1
    <3> QED BY <1>3, <3>1
  <2>6. /\ TypesOf(i)' = TypesOf(i) \cup {u}
        /\ \A j : j # i => TypesOf(j)' = TypesOf(j)
    BY <1>2, <1>6, <2>0
  <2>7. \A j, n, x : MadeBy(j, n, x) => MadeBy(j, n, x)'
    <3> TAKE j, n, x
    <3>1. CASE j = i
      BY <1>3, <2>5, <2>6, <3>1 DEF MadeBy
    <3>2. CASE j # i
      BY <1>3, <2>6, <3>2 DEF MadeBy
    <3> QED BY <3>1, <3>2
  <2>8. m \notin DOMAIN health[i].tests => MadeBy(i, m, u)'
    <3> SUFFICES ASSUME m \notin DOMAIN health[i].tests
                 PROVE  /\ u \in TypesOf(i)' /\ Given(u)' = m
                        /\ \A x \in TypesOf(i)' : Given(x)' = m => u <= x
      BY DEF MadeBy
    <3>1. \A x \in TypesOf(i) : Given(x)' # m
      BY <1>3 DEF Made
    <3> QED BY <2>4, <2>5, <2>6, <3>1
  <2>9. ASSUME NEW j \in DOMAIN health', NEW n \in DOMAIN health'[j].tests
        PROVE  \E x : MadeBy(j, n, x)' /\ Name(x)' = health'[j].tests[n].type
    <3>1. j \in DOMAIN health
      BY <2>1 DEF GaveTests
    <3>2. CASE n \in DOMAIN health[j].tests
      <4>1. health'[j].tests[n].type = health[j].tests[n].type
        BY <2>1, <2>3, <3>1, <3>2 DEF GaveTests
      <4>2. PICK x : MadeBy(j, n, x) /\ Name(x) = health[j].tests[n].type
        BY <3>1, <3>2 DEF Made
      <4> QED BY <1>4, <2>7, <4>1, <4>2
    <3>3. CASE n \notin DOMAIN health[j].tests
      <4>1. j = i /\ n = m /\ health'[j].tests[n] = e
        BY <2>1, <2>3, <3>1, <3>3 DEF GaveTests
      <4> QED BY <1>4, <2>2, <2>8, <3>3, <4>1
    <3> QED BY <3>2, <3>3
  <2>10. ASSUME NEW j, NEW x \in TypesOf(j)'
         PROVE  j \in DOMAIN health' /\ Given(x)' \in DOMAIN health'[j].tests
    <3>1. CASE x \in TypesOf(j)
      <4>1. j \in DOMAIN health /\ Given(x)' \in DOMAIN health[j].tests
        BY <1>3, <3>1 DEF Made
      <4> QED BY <2>1, <2>3, <4>1 DEF GaveTests
    <3>2. CASE x \notin TypesOf(j)
      <4>1. j = i /\ x = u
        BY <2>6, <2>10, <3>2
      <4> QED BY <2>1, <2>3, <2>4, <4>1 DEF GaveTests
    <3> QED BY <3>1, <3>2
  <2> QED BY <2>9, <2>10 DEF Made
<1> QED BY <1>5, <1>6

-----------------------------------------------------------------------------
(* The step that becomes undefined.                                        *)
LEMMA IllegalFirst ==
    ASSUME Types, Nested, ReadLine, InRule, path[0] = "rule", depth >= 1,
           rule_iter = NoRule
    PROVE  UndefinedNeedsMisfit'
<1>1. /\ at \in Nat /\ file' = file
  BY Reading
<1>2. PICK h \in RuleHeads : h \in Illegal
  BY DEF InRule
<1>3. RuleHeads' = RuleHeads \cup {k \in {at + 1} : Stands(k, <<>>, {"rule"})}
  BY NextLines DEF RuleHeads
<1>4. \A k : Num(k)' = Num(k)
  BY <1>1, HeadsKept
<1>5. h \in Illegal'
  BY <1>2, <1>3, <1>4 DEF Illegal
<1>6. \A k \in RuleHeads' \ Illegal' : k = at + 1
  BY <1>3, <1>4 DEF InRule, Illegal
<1>7. h \in Nat /\ ~(at + 1 < h)
  <2>1. h \in Nat /\ h < at + 1
    BY <1>2, LinesAre DEF RuleHeads
  <2> QED BY <1>1, <2>1
<1>8. Before(h)' = {}
  <2>1. Before(h)' = {k \in RuleHeads' \ Illegal' : k < h}
    BY DEF Before
  <2> QED BY <1>6, <1>7, <2>1
<1> QED BY <1>5, <1>8 DEF UndefinedNeedsMisfit

LEMMA MisfitStep ==
    ASSUME Types, Nested, Rooted, ReadLine, ProperLine(at + 1),
           InInterface, InATest, InRule, InShare, ReadUnder, Made,
           outcome' = "undefined"
    PROVE  UndefinedNeedsMisfit'
<1> DEFINE u == at + 1
           key == file[u].key
           value == Name(u)
<1>1. /\ outcome = "reading" /\ at < Len(file) /\ file' = file
      /\ depth \in Nat /\ value \in Values
      /\ path' \in [0..MaxDepth -> Keys]
      /\ Process(path', depth', key, value)
      /\ depth # 0 => path'[0] = path[0]
      /\ depth # 1 => path'[1] = path[1]
  BY Reading
<1>2. ~Goes
  BY DEF Goes
<1>3. /\ key \in HealthKeys => depth = 2 /\ path[0] = "health"
      /\ key \in TestSettings /\ path[0] = "health" =>
            file[u].brace = "" /\ Where(u) = InType /\ depth = 4
      /\ key = "type" => depth = 3 /\ path[0] = "health"
      /\ key = "weight" =>
            depth = 2 /\ path[0] = "rule" /\ path[1] = "interface"
  BY <1>1, ProperKeys
<1>4. depth >= 2 /\ path[0] = "health" =>
         health_iter # NoIface /\ health_iter = Name(Open[at][2])
  BY DEF InInterface
<1>5. depth = 2 => depth >= 2
  OBVIOUS
<1>6. ASSUME path'[0] = "rule", path'[1] \in Sections \cup {"limit"} \/ depth' > 1,
             depth' > 0, rule_iter = NoRule
      PROVE  UndefinedNeedsMisfit'
  <2>1. depth >= 1
    <3>1. CASE path'[1] \in Sections \cup {"limit"}
      <4>1. "" \notin Sections \cup {"limit"}
        BY DEF Sections, Flags
      <4>2. depth # 0
        <5> SUFFICES ASSUME depth = 0 PROVE FALSE
          OBVIOUS
        <5>1. path'[1] = path[1]
          BY <1>1, Depths
        <5> QED BY <1>1, <3>1, <4>1, <5>1 DEF Rooted
      <4> QED BY <1>1, <4>2, Depths
    <3>2. CASE depth' > 1
      <4>1. depth' >= 2
        <5>1. Types'
          BY ReadLineTypes
        <5>2. depth' \in Int
          BY <5>1 DEF Types, PlaceOK
        <5> QED BY <3>2, <5>2
      <4>2. depth >= 2 \/ depth + 1 = 2
        BY <4>1, DepthFrom
      <4> QED BY <1>1, <4>2
    <3> QED BY <1>6, <3>1, <3>2
  <2>2. path[0] = "rule"
    BY <1>1, <1>6, <2>1, Depths
  <2> QED BY <1>6, <2>1, <2>2, IllegalFirst
<1> HIDE DEF u, key, value
<1>7. CASE \E g \in {"true", value} : ProcessGlobal(path'[0], g)
  BY <1>2, <1>7 DEF ProcessGlobal
<1>8. CASE ProcessHealth(value) \/ ProcessHealthRule(value)
  BY <1>2, <1>8 DEF ProcessHealth, ProcessHealthRule
<1>9. CASE ProcessHealthInterface(key, value)
  <2>1. HealthSetting(key, value) /\ health_iter = NoIface
    BY <1>2, <1>9 DEF ProcessHealthInterface, Ignored
  <2>2. key \in HealthKeys
    BY <2>1 DEF HealthSetting, HealthKeys
  <2> QED BY <1>3, <1>4, <1>5, <2>1, <2>2
<1>10. CASE key = "type" /\ ProcessType(value)
  <2>1. health_iter = NoIface
    BY <1>2, <1>10 DEF ProcessType, Ignored
  <2>2. depth >= 2
    BY <1>1, <1>3, <1>10, Depths
  <2> QED BY <1>3, <1>4, <1>10, <2>1, <2>2
<1>11. CASE path'[0] = "health" /\ depth' = 4 /\ key \in TestSettings
               /\ ProcessTestSetting(key, value)
  <2> DEFINE i == test_iter[1]
             n == test_iter[2]
  <2>1. depth # 0 /\ depth >= 2
    <3>1. depth >= 4 \/ depth + 1 = 4
      <4>1. depth' >= 4
        BY <1>11
      <4> QED BY <4>1, DepthFrom
    <3> QED BY <1>1, <3>1
  <2>2. path[0] = "health"
    BY <1>1, <1>11, <2>1
  <2>3. file[u].brace = "" /\ Where(u) = InType /\ depth >= 4
    <3>1. file[u].brace = "" /\ Where(u) = InType /\ depth = 4
      BY <1>3, <1>11, <2>2
    <3>2. depth = 4 => depth >= 4
      OBVIOUS
    <3> QED BY <3>1, <3>2
  <2>4. /\ health_iter # NoIface /\ health_iter = Name(Open[at][2])
        /\ test_iter # Unset /\ i = health_iter
    BY <1>4, <2>1, <2>2, <2>3 DEF InATest
  <2>5. n \in DOMAIN health[i].tests /\ ~Fits(key, health[i].tests[n].type)
    BY <1>2, <1>11, <2>4 DEF ProcessTestSetting, Ignored
  <2>6. i \in DOMAIN health
    BY <2>4 DEF Types, DataOK
  <2>7. PICK t : MadeBy(i, n, t) /\ Name(t) = health[i].tests[n].type
    BY <2>5, <2>6 DEF Made
  <2>8. Heads(u) = Open[at]
    BY <1>1, WhereIs DEF u
  <2>9. /\ NameOf(u, 2) = i /\ Heads(u)[4] \in TypeHeads
        /\ n = Given(Heads(u)[4])
    BY <2>2, <2>3, <2>4, <2>8 DEF NameOf, ReadUnder
  <2>10. PICK k, v, j, m :
            k = u /\ v = Heads(u)[4] /\ j = i /\ m = n
    OBVIOUS
  <2>11. key # "type"
    BY <1>11 DEF TestSettings
  <2>12. k \in Lines(InType, TestSettings)'
    BY <1>11, <2>3, <2>10, NextLines DEF Stands, u, key
  <2>13. TypesOf(j)' = TypesOf(j)
    BY <2>11, LinesNext DEF u, key
  <2>14. \A x \in TypeHeads : Given(x)' = Given(x)
    BY GivenStays
  <2>15. NameOf(k, 2)' = j
    <3>1. NameOf(k, 2)' = NameOf(k, 2)
      BY <1>1, HeadsKept
    <3> QED BY <2>9, <2>10, <3>1
  <2>16. Heads(k)' = Heads(k)
    BY <1>1, HeadsKept
  <2>17. file'[k].key = key
    BY <1>1, <2>10 DEF key
  <2>18. Given(Heads(k)[4])' = m
    <3>1. Given(Heads(k)[4])' = Given(v)'
      BY <2>10, <2>16 DEF Given, NumOf, Num, Name, Heads
    <3> QED BY <2>9, <2>10, <2>14, <3>1
  <2>19. TypesOf(NameOf(k, 2))' = TypesOf(j)
    <3>1. TypesOf(NameOf(k, 2))' = TypesOf(j)'
      BY <2>15 DEF TypesOf
    <3> QED BY <2>13, <3>1
  <2>20. PICK M : M = {x \in TypesOf(j) : Given(x) = m}
    OBVIOUS
  <2>21. M # {} /\ Min(M) = t
    <3>1. M \subseteq Nat
      BY <2>20, LinesAre DEF TypesOf, TypeHeads
    <3>2. t \in M /\ \A x \in M : t <= x
      BY <2>7, <2>10, <2>20 DEF MadeBy
    <3> QED BY <3>1, <3>2, MinIs
  <2>22. {x \in TypesOf(NameOf(k, 2))' : Given(x)' = Given(Heads(k)[4])'} = M
    BY <2>14, <2>18, <2>19, <2>20 DEF TypesOf
  <2> HIDE DEF i, n
  <2>23. ~Fits(file'[k].key, Lower[file'[Min(M)].value])
    BY <1>1, <2>5, <2>7, <2>17, <2>21 DEF Name
  <2>24. \E x \in Lines(InType, TestSettings)' :
            /\ {y \in TypesOf(NameOf(x, 2))' : Given(y)' = Given(Heads(x)[4])'} # {}
            /\ ~Fits(file'[x].key,
                     Lower[file'[Min({y \in TypesOf(NameOf(x, 2))' :
                              Given(y)' = Given(Heads(x)[4])'})].value])
    <3> HIDE DEF Lines
    <3> QED BY <2>12, <2>21, <2>22, <2>23
  <2> QED BY <2>24 DEF UndefinedNeedsMisfit, Name, Min
<1>12. CASE path'[0] = "rule" /\ depth' > 1 /\ path'[1] = "interface"
               /\ ProcessRuleInterface(key, value)
  <2>1. \/ key = "interface" /\ rule_iter = NoRule
        \/ key = "weight" /\ rule_iface_iter = Unset
    BY <1>2, <1>12 DEF ProcessRuleInterface, Ignored
  <2>2. CASE key = "interface" /\ rule_iter = NoRule
    <3>1. depth' > 0
      <4>1. Types'
        BY ReadLineTypes
      <4>2. depth' \in Int
        BY <4>1 DEF Types, PlaceOK
      <4>3. depth' > 1
        BY <1>12
      <4> QED BY <4>2, <4>3
    <3> QED BY <1>6, <1>12, <2>2, <3>1
  <2>3. CASE key = "weight" /\ rule_iface_iter = Unset
    BY <1>3, <1>5, <2>3 DEF InShare
  <2> QED BY <2>1, <2>2, <2>3
<1>13. CASE /\ path'[0] = "rule" /\ path'[1] \in Sections \cup {"limit"}
            /\ depth' > 0 \/ depth' > 1
            /\ ProcessRuleSection(path'[1], key, value)
  <2>1. rule_iter = NoRule
    BY <1>2, <1>13 DEF ProcessRuleSection
  <2>2. depth' > 0
    <3>1. Types'
      BY ReadLineTypes
    <3>2. depth' \in Int
      BY <3>1 DEF Types, PlaceOK
    <3>3. depth' > 0 \/ depth' > 1
      BY <1>13
    <3> QED BY <3>2, <3>3
  <2> QED BY <1>6, <1>13, <2>1, <2>2
<1>14. CASE ProcessRule(key, value) \/ Ignored
  BY <1>2, <1>14 DEF ProcessRule, Ignored
<1> QED BY <1>1, <1>7, <1>8, <1>9, <1>10, <1>11, <1>12, <1>13, <1>14, ProcessWhen

-----------------------------------------------------------------------------
Guarded ==
    /\ Safe /\ UndefinedNeedsMisfit
    /\ outcome = "reading" /\ Proper => BlocksBefore /\ ReadUnder /\ Made

LEMMA InitGuarded == Init => Guarded
<1> SUFFICES ASSUME Init PROVE Guarded
  OBVIOUS
<1>1. at = 0 /\ DOMAIN health = {} /\ path[0] = "" /\ outcome = "reading"
  <2>1. 0 \in 0..MaxDepth
    <3>1. MaxDepth \in Nat
      BY FactoryAssumption
    <3> QED BY <3>1
  <2> QED BY <2>1 DEF Init, Empty
<1>2. TypeHeads = {}
  <2>1. 1..0 = {}
    OBVIOUS
  <2> QED BY <1>1, <2>1 DEF TypeHeads, Lines, Read
<1>3. BlocksBefore /\ ReadUnder /\ Made
  BY <1>1, <1>2 DEF BlocksBefore, ReadUnder, Made, TypesOf
<1> QED BY <1>1, <1>3, InitTypes, InitNested, InitGuided
        DEF Guarded, Safe, UndefinedNeedsMisfit

LEMMA GuardedInductive == Guarded /\ [Next]_vars => Guarded'
<1> SUFFICES ASSUME Guarded, [Next]_vars PROVE Guarded'
  OBVIOUS
<1>1. Safe' /\ Types /\ Nested /\ Rooted /\ Guided /\ Types'
  BY SafeInductive DEF Guarded, Safe
<1>2. CASE ReadLine
  <2>1. outcome = "reading"
    BY <1>2 DEF ReadLine
  <2>2. ASSUME Proper'
        PROVE  /\ ProperLine(at + 1)
               /\ InInterface /\ InATest /\ InRule /\ InShare
               /\ BlocksBefore /\ ReadUnder /\ Made
    BY <1>1, <1>2, <2>1, <2>2, NextHeads DEF Guided, Guarded
  <2>3. ASSUME outcome' = "reading", Proper'
        PROVE  BlocksBefore' /\ ReadUnder' /\ Made'
    <3>1. depth' \in Nat
      <4>1. depth' \in 0..MaxDepth /\ MaxDepth \in Nat
        BY <1>1, <2>3, PlaceType DEF Types, PlaceOK
      <4> QED BY <4>1
    <3>2. outcome' # "undefined"
      BY <2>3
    <3> QED BY <1>1, <1>2, <2>2, <2>3, <3>1, <3>2, BlocksNext, ReadUnderNext, MadeNext
  <2>4. UndefinedNeedsMisfit'
    <3>1. CASE Proper' /\ outcome' = "undefined"
      BY <1>1, <1>2, <2>2, <3>1, MisfitStep
    <3>2. CASE ~(Proper' /\ outcome' = "undefined")
      BY <3>2 DEF UndefinedNeedsMisfit
    <3> QED BY <3>1, <3>2
  <2> QED BY <1>1, <2>3, <2>4 DEF Guarded
<1>3. CASE EndOfFile
  <2>1. outcome' # "reading" /\ outcome' # "undefined"
    BY <1>3 DEF EndOfFile
  <2> QED BY <1>1, <2>1 DEF Guarded, UndefinedNeedsMisfit
<1>4. CASE UNCHANGED vars
  <2>1. /\ file' = file /\ at' = at /\ outcome' = outcome /\ depth' = depth
        /\ path' = path /\ number' = number /\ test_iter' = test_iter
        /\ health' = health
    BY <1>4 DEF vars, iters, data
  <2>2. Open' = Open
    BY <2>1, OpenSame
  <2>3. \A k : Where(k)' = Where(k)
    BY <2>1, LinesKept
  <2>4. /\ Proper' <=> Proper
        /\ TypeHeads' = TypeHeads
        /\ \A i : TypesOf(i)' = TypesOf(i)
    BY <2>1, LinesStay
  <2>5. \A k : Heads(k)' = Heads(k)
    BY <2>1, HeadsKept
  <2>6. \A k : Num(k)' = Num(k)
    BY <2>1, HeadsKept
  <2>7. \A k : Name(k)' = Name(k)
    BY <2>1, LinesKept
  <2>8. \A k : NameOf(k, 2)' = NameOf(k, 2)
    BY <2>1, HeadsKept
  <2>9. \A k : NumOf(k, 3)' = NumOf(k, 3)
    BY <2>1, HeadsKept
  <2>10. \A k : Given(k)' = Given(k)
    BY <2>4, <2>5, <2>9 DEF Given
  <2>11. BlocksBefore => BlocksBefore'
    BY <2>1, <2>4, <2>5 DEF BlocksBefore
  <2>12. Made => Made'
    <3>1. \A i, n, t : MadeBy(i, n, t)' <=> MadeBy(i, n, t)
      BY <2>4, <2>10 DEF MadeBy
    <3> QED BY <2>1, <2>4, <2>7, <2>10, <3>1 DEF Made
  <2>13. ReadUnder => ReadUnder'
    <3>1. PICK h, g : h = Open[at][3] /\ g = Open[at][4]
      OBVIOUS
    <3>2. NumberIn(Open[at][3])' = NumberIn(h)
      <4>1. (Num(Open[at][3]))' = Num(h)
        BY <2>1, <2>2, <3>1 DEF Num, Name
      <4> QED BY <2>1, <2>2, <2>4, <2>5, <3>1, <4>1 DEF NumberIn
    <3>3. Given(Open[at][4])' = Given(g)
      <4>1. Given(Open[at][4])' = Given(g)'
        BY <2>1, <2>2, <3>1 DEF Given, NumOf, Num, Name, Heads
      <4> QED BY <2>10, <4>1
    <3>4. Heads(Open[at][4])' = Heads(g)
      <4>1. Heads(Open[at][4])' = Heads(g)'
        BY <2>1, <2>2, <3>1 DEF Heads
      <4> QED BY <2>5, <4>1
    <3> QED BY <2>1, <2>2, <2>4, <3>1, <3>2, <3>3, <3>4 DEF ReadUnder
  <2>14. UndefinedNeedsMisfit'
    <3>1. /\ RuleHeads' = RuleHeads
          /\ Lines(InType, TestSettings)' = Lines(InType, TestSettings)
      BY <2>1, <2>3 DEF RuleHeads, Lines, Read
    <3>2. Illegal' = Illegal
      BY <2>6, <3>1 DEF Illegal
    <3>3. \A k : Before(k)' = Before(k)
      BY <3>1, <3>2 DEF Before
    <3> DEFINE made(k) == {t \in TypesOf(NameOf(k, 2)) : Given(t) = Given(Heads(k)[4])}
               bad(k) == made(k) # {} /\ ~Fits(file[k].key, Name(Min(made(k))))
    <3>4. \A k : made(k)' = made(k)
      <4> TAKE k
      <4>1. TypesOf(NameOf(k, 2))' = TypesOf(NameOf(k, 2))
        BY <2>4, <2>7, <2>8 DEF TypesOf
      <4>2. Given(Heads(k)[4])' = Given(Heads(k)[4])
        <5>1. PICK g : g = Heads(k)[4]
          OBVIOUS
        <5>2. Given(Heads(k)[4])' = Given(g)'
          BY <2>2, <5>1 DEF Given, NumOf, Num, Name, Heads
        <5> QED BY <2>10, <5>1, <5>2
      <4> QED BY <2>10, <4>1, <4>2
    <3>5. \A k : bad(k)' <=> bad(k)
      <4> TAKE k
      <4>1. Name(Min(made(k)))' = Name(Min(made(k)))
        <5>1. PICK m : m = made(k)
          OBVIOUS
        <5>2. Min(made(k))' = Min(m)
          BY <3>4, <5>1 DEF Min
        <5> HIDE DEF made
        <5> QED BY <2>1, <5>1, <5>2 DEF Name
      <4> HIDE DEF made
      <4> QED BY <2>1, <3>4, <4>1
    <3>6. UndefinedNeedsMisfit <=>
            (Proper /\ outcome = "undefined" =>
               \/ \E k \in Illegal : Before(k) = {}
               \/ \E k \in Lines(InType, TestSettings) : bad(k))
      BY DEF UndefinedNeedsMisfit
    <3>7. UndefinedNeedsMisfit' <=>
            (Proper' /\ outcome' = "undefined" =>
               \/ \E k \in Illegal' : Before(k)' = {}
               \/ \E k \in Lines(InType, TestSettings)' : bad(k)')
      BY DEF UndefinedNeedsMisfit
    <3> HIDE DEF bad
    <3> QED BY <2>1, <2>4, <3>1, <3>2, <3>3, <3>5, <3>6, <3>7 DEF Guarded
  <2> QED BY <1>1, <2>1, <2>4, <2>11, <2>12, <2>13, <2>14 DEF Guarded
<1> QED BY <1>2, <1>3, <1>4 DEF Next

(* In a file whose blocks stand where they belong no iterator is used      *)
(* unset, and no test cast to a type it is not of, unless the first rule   *)
(* has an illegal number or a setting does not fit the type of the very    *)
(* test it is read for: the first known type that its interface gives      *)
(* under the number of its block, or under the 0 that the brace closing an *)
(* earlier type of the block leaves.                                       *)
THEOREM MisfitTheorem == Spec => []UndefinedNeedsMisfit
<1>1. Guarded => UndefinedNeedsMisfit
  BY DEF Guarded
<1> QED BY <1>1, InitGuarded, GuardedInductive, PTL DEF Spec

-----------------------------------------------------------------------------
(* The settings that the lines R of a rule say.                            *)
Spot(k)    == <<Section(k), file[k].key>>
Switch(k)  == <<Section(k), "on">>
Switches(k) == Section(k) \in Flags \cup {"limit"}
IsTaken(k) == Accepted(Section(k), file[k].key, Name(k))
OnOf(R)    == {Switch(k) : k \in {x \in R : Switches(x)}}
TakenOf(R) == {k \in R : IsTaken(k)}
SettingsFrom(R) ==
    [s \in OnOf(R) \cup {Spot(k) : k \in TakenOf(R)} |->
        IF s \in OnOf(R) THEN "true"
        ELSE Name(Max({k \in TakenOf(R) : Spot(k) = s}))]

LEMMA TakenKeys ==
    ASSUME NEW k, IsTaken(k)
    PROVE  \A x : Spot(k) # Switch(x)
<1>1. file[k].key # "on"
  <2> DEFINE section == Section(k)
             key == file[k].key
  <2>1. Accepted(section, key, Name(k))
    BY DEF IsTaken
  <2> HIDE DEF section, key
  <2>2. CASE section \in {"source", "destination"}
    BY <2>1, <2>2 DEF Accepted, EndPoint, key
  <2>3. CASE section \in {"inbound-interface", "protocol"}
    BY <2>1, <2>3 DEF Accepted, key
  <2>4. CASE section = "limit"
    BY <2>1, <2>4 DEF Accepted, key
  <2>5. CASE section \notin {"source", "destination", "inbound-interface",
                              "protocol", "limit"}
    BY <2>1, <2>5 DEF Accepted
  <2> QED BY <2>2, <2>3, <2>4, <2>5
<1> QED BY <1>1 DEF Spot, Switch

LEMMA RuleSettingsNext ==
    ASSUME NEW R, R \subseteq Nat, NEW u \in Nat, \A k \in R : k < u
    PROVE  SettingsFrom(R \cup {u}) =
             RuleSettings(SettingsFrom(R), Section(u), file[u].key, Name(u))
<1> DEFINE Q == R \cup {u}
           F == SettingsFrom(R)
           G == SettingsFrom(Q)
           last(S, s) == Name(Max({k \in TakenOf(S) : Spot(k) = s}))
<1>1. OnOf(Q) = OnOf(R) \cup (IF Switches(u) THEN {Switch(u)} ELSE {})
  BY DEF OnOf
<1>2. TakenOf(Q) = TakenOf(R) \cup (IF IsTaken(u) THEN {u} ELSE {})
  BY DEF TakenOf
<1>3. \A k \in TakenOf(Q) : Spot(k) \notin OnOf(Q)
  BY TakenKeys DEF TakenOf, OnOf
<1>4. /\ DOMAIN F = OnOf(R) \cup {Spot(k) : k \in TakenOf(R)}
      /\ \A s \in DOMAIN F : F[s] = IF s \in OnOf(R) THEN "true" ELSE last(R, s)
  BY DEF SettingsFrom
<1>5. G = [s \in OnOf(Q) \cup {Spot(k) : k \in TakenOf(Q)} |->
             IF s \in OnOf(Q) THEN "true" ELSE last(Q, s)]
  BY DEF SettingsFrom
<1>6. ASSUME IsTaken(u) PROVE last(Q, Spot(u)) = Name(u)
  <2> DEFINE S == {k \in TakenOf(Q) : Spot(k) = Spot(u)}
  <2>1. \A k \in Q : k \in Nat /\ k <= u
    OBVIOUS
  <2>2. S \subseteq Nat /\ u \in S /\ \A k \in S : k <= u
    BY <1>2, <1>6, <2>1 DEF TakenOf
  <2> HIDE DEF S
  <2>3. Max(S) = u
    BY <2>2, MaxIs
  <2> QED BY <2>3 DEF S
<1>7. ASSUME NEW s, ~(IsTaken(u) /\ s = Spot(u)) PROVE last(Q, s) = last(R, s)
  <2>1. {k \in TakenOf(Q) : Spot(k) = s} = {k \in TakenOf(R) : Spot(k) = s}
    BY <1>2, <1>7
  <2> QED BY <2>1
<1> HIDE DEF Q, F, G, last
<1> DEFINE D == DOMAIN F \cup (IF Switches(u) THEN {Switch(u)} ELSE {})
           now(s) == IF IsTaken(u) /\ s = Spot(u) THEN Name(u)
                    ELSE IF Switches(u) /\ s = Switch(u) THEN "true" ELSE F[s]
           E == IF IsTaken(u) THEN D \cup {Spot(u)} ELSE D
<1>8. OnOf(Q) \cup {Spot(k) : k \in TakenOf(Q)} = E
  BY <1>1, <1>2, <1>4
<1>9. ASSUME NEW s \in E
      PROVE  (IF s \in OnOf(Q) THEN "true" ELSE last(Q, s)) = now(s)
  <2>1. CASE IsTaken(u) /\ s = Spot(u)
    <3>1. s \notin OnOf(Q)
      BY <1>2, <1>3, <2>1
    <3> QED BY <1>6, <2>1, <3>1
  <2>2. CASE ~(IsTaken(u) /\ s = Spot(u)) /\ Switches(u) /\ s = Switch(u)
    BY <1>1, <2>2
  <2>3. CASE ~(IsTaken(u) /\ s = Spot(u)) /\ ~(Switches(u) /\ s = Switch(u))
    <3>1. s \in DOMAIN F /\ (s \in OnOf(Q) <=> s \in OnOf(R))
      BY <1>1, <2>3
    <3> QED BY <1>4, <1>7, <2>3, <3>1
  <2> QED BY <2>1, <2>2, <2>3
<1>10. G = [s \in E |-> now(s)]
  BY <1>5, <1>8, <1>9
<1>11. RuleSettings(F, Section(u), file[u].key, Name(u)) = [s \in E |-> now(s)]
  <2> DEFINE on == IF Switches(u) THEN Assigned(F, Switch(u), "true") ELSE F
  <2>0. F = [s \in DOMAIN F |-> F[s]]
    BY DEF F, SettingsFrom
  <2>1. on = [s \in D |-> IF Switches(u) /\ s = Switch(u) THEN "true" ELSE F[s]]
    <3>1. CASE Switches(u)
      BY <3>1 DEF Assigned
    <3>2. CASE ~Switches(u)
      BY <2>0, <3>2
    <3> QED BY <3>1, <3>2
  <2>2. RuleSettings(F, Section(u), file[u].key, Name(u)) =
           IF IsTaken(u) THEN Assigned(on, Spot(u), Name(u)) ELSE on
    BY DEF RuleSettings, IsTaken, Switches, Switch, Spot
  <2> HIDE DEF on, D
  <2>3. CASE IsTaken(u)
    BY <2>1, <2>2, <2>3 DEF Assigned
  <2>4. CASE ~IsTaken(u)
    BY <2>1, <2>2, <2>4
  <2> QED BY <2>3, <2>4
<1> QED BY <1>10, <1>11 DEF F, G, Q

LEMMA SettingsFromNothing == SettingsFrom({}) = Empty
<1>1. OnOf({}) = {} /\ TakenOf({}) = {}
  BY DEF OnOf, TakenOf
<1>2. {Spot(k) : k \in {}} = {}
  OBVIOUS
<1> QED BY <1>1, <1>2 DEF SettingsFrom, Empty

LEMMA SettingsFromKept ==
    ASSUME file' = file, NEW R
    PROVE  SettingsFrom(R)' = SettingsFrom(R)
<1>1. Open' = Open
  BY OpenSame
<1> QED BY <1>1 DEF SettingsFrom, OnOf, TakenOf, IsTaken, Switches, Switch, Spot,
             Section, Where, Heads, Name


-----------------------------------------------------------------------------
(* The interfaces and weights that the lines R of a rule say; R is closed  *)
(* if the blocks its weights are in are of interfaces it says.             *)
IsShare(k)  == Where(k) = <<"rule">> /\ file[k].key = "interface"
IsWeight(k) ==
    Where(k) = <<"rule", "interface">> /\ file[k].key = "weight" /\ Num(k) > 0
SharesOf(R) == {Name(k) : k \in {x \in R : IsShare(x)}}
WeightsOf(R, i) == {k \in R : IsWeight(k) /\ NameOf(k, 2) = i}
DistFrom(R) ==
    [i \in SharesOf(R) |-> IF WeightsOf(R, i) = {} THEN 0
                           ELSE Num(Max(WeightsOf(R, i)))]
Closed(R) == \A k \in R : IsWeight(k) => NameOf(k, 2) \in SharesOf(R)

LEMMA ShareOrWeight ==
    ASSUME NEW k
    PROVE  ~(IsShare(k) /\ IsWeight(k))
<1>1. <<"rule">> # <<"rule", "interface">>
  OBVIOUS
<1> QED BY <1>1 DEF IsShare, IsWeight

LEMMA DistOfShare ==
    ASSUME NEW R, NEW u, Closed(R), IsShare(u)
    PROVE  /\ DistFrom(R \cup {u}) = Inserted(DistFrom(R), Name(u), 0)
           /\ Closed(R \cup {u})
<1> DEFINE Q == R \cup {u}
           v == Name(u)
           F == DistFrom(R)
<1>1. ~IsWeight(u)
  BY ShareOrWeight
<1>2. SharesOf(Q) = SharesOf(R) \cup {v}
  BY DEF SharesOf
<1>3. \A i : WeightsOf(Q, i) = WeightsOf(R, i)
  BY <1>1 DEF WeightsOf
<1>4. v \notin SharesOf(R) => WeightsOf(R, v) = {}
  BY DEF Closed, WeightsOf
<1>5. /\ DOMAIN F = SharesOf(R)
      /\ \A i \in SharesOf(R) :
            F[i] = IF WeightsOf(R, i) = {} THEN 0 ELSE Num(Max(WeightsOf(R, i)))
      /\ F = [i \in DOMAIN F |-> F[i]]
  BY DEF DistFrom
<1>6. DistFrom(Q) = [i \in SharesOf(Q) |-> IF WeightsOf(R, i) = {} THEN 0
                                           ELSE Num(Max(WeightsOf(R, i)))]
  BY <1>3 DEF DistFrom
<1>7. Closed(Q)
  BY <1>1, <1>2 DEF Closed
<1> HIDE DEF F, v, Q
<1>8. CASE v \in SharesOf(R)
  <2>1. SharesOf(Q) = DOMAIN F
    BY <1>2, <1>5, <1>8
  <2>2. DistFrom(Q) = F
    BY <1>5, <1>6, <2>1
  <2> QED BY <1>5, <1>7, <1>8, <2>2 DEF Inserted, F, v, Q
<1>9. CASE v \notin SharesOf(R)
  <2>1. DistFrom(Q) = [i \in DOMAIN F \cup {v} |-> IF i = v THEN 0 ELSE F[i]]
    BY <1>2, <1>4, <1>5, <1>6, <1>9
  <2>2. Inserted(F, v, 0) = [i \in DOMAIN F \cup {v} |-> IF i = v THEN 0 ELSE F[i]]
    BY <1>5, <1>9 DEF Inserted, Assigned
  <2> QED BY <1>7, <2>1, <2>2 DEF F, v, Q
<1> QED BY <1>8, <1>9

LEMMA DistOfWeight ==
    ASSUME NEW R, R \subseteq Nat, NEW u \in Nat, \A k \in R : k < u,
           Closed(R), IsWeight(u), NameOf(u, 2) \in SharesOf(R)
    PROVE  /\ DistFrom(R \cup {u}) = [DistFrom(R) EXCEPT ![NameOf(u, 2)] = Num(u)]
           /\ Closed(R \cup {u})
<1> DEFINE Q == R \cup {u}
           v == NameOf(u, 2)
           F == DistFrom(R)
<1>1. ~IsShare(u)
  BY ShareOrWeight
<1>2. SharesOf(Q) = SharesOf(R)
  BY <1>1 DEF SharesOf
<1>3. \A i : i # v => WeightsOf(Q, i) = WeightsOf(R, i)
  BY DEF WeightsOf
<1>4. WeightsOf(Q, v) # {} /\ Max(WeightsOf(Q, v)) = u
  <2> DEFINE S == WeightsOf(Q, v)
  <2>1. \A k \in Q : k \in Nat /\ k <= u
    OBVIOUS
  <2>2. S \subseteq Nat /\ u \in S /\ \A k \in S : k <= u
    BY <2>1 DEF WeightsOf
  <2> HIDE DEF S
  <2>3. Max(S) = u /\ S # {}
    BY <2>2, MaxIs
  <2> QED BY <2>3 DEF S
<1>5. /\ DOMAIN F = SharesOf(R)
      /\ \A i \in SharesOf(R) :
            F[i] = IF WeightsOf(R, i) = {} THEN 0 ELSE Num(Max(WeightsOf(R, i)))
  BY DEF DistFrom
<1>6. DistFrom(Q) = [i \in SharesOf(R) |-> IF WeightsOf(Q, i) = {} THEN 0
                                           ELSE Num(Max(WeightsOf(Q, i)))]
  BY <1>2 DEF DistFrom
<1>7. Closed(Q)
  BY <1>2 DEF Closed
<1>10. v \in SharesOf(R)
  OBVIOUS
<1> HIDE DEF F, v, Q
<1>8. DistFrom(Q) = [i \in DOMAIN F |-> IF i = v THEN Num(u) ELSE F[i]]
  BY <1>3, <1>4, <1>5, <1>6
<1>9. [F EXCEPT ![v] = Num(u)] = [i \in DOMAIN F |-> IF i = v THEN Num(u) ELSE F[i]]
  OBVIOUS
<1> QED BY <1>7, <1>8, <1>9 DEF F, v, Q

LEMMA DistOfOther ==
    ASSUME NEW R, NEW u, Closed(R), ~IsShare(u), ~IsWeight(u)
    PROVE  DistFrom(R \cup {u}) = DistFrom(R) /\ Closed(R \cup {u})
<1>1. SharesOf(R \cup {u}) = SharesOf(R)
  BY DEF SharesOf
<1>2. \A i : WeightsOf(R \cup {u}, i) = WeightsOf(R, i)
  BY DEF WeightsOf
<1> QED BY <1>1, <1>2 DEF DistFrom, Closed

LEMMA DistFromNothing == DistFrom({}) = Empty /\ Closed({})
<1>1. SharesOf({}) = {}
  BY DEF SharesOf
<1> QED BY <1>1 DEF DistFrom, Empty, Closed

LEMMA DistFromKept ==
    ASSUME file' = file, NEW R
    PROVE  DistFrom(R)' = DistFrom(R) /\ (Closed(R)' <=> Closed(R))
<1>1. Open' = Open
  BY OpenSame
<1>2. \A k : Where(k)' = Where(k)
  BY LinesKept
<1>3. \A k : Name(k)' = Name(k)
  BY LinesKept
<1>4. \A k : Num(k)' = Num(k)
  BY HeadsKept
<1>5. \A k : NameOf(k, 2)' = NameOf(k, 2)
  BY HeadsKept
<1>6. \A k : IsShare(k)' <=> IsShare(k)
  BY <1>2 DEF IsShare
<1>7. \A k : IsWeight(k)' <=> IsWeight(k)
  BY <1>2, <1>4 DEF IsWeight
<1>8. SharesOf(R)' = SharesOf(R)
  BY <1>3, <1>6 DEF SharesOf
<1>9. \A i : WeightsOf(R, i)' = WeightsOf(R, i)
  BY <1>5, <1>7 DEF WeightsOf
<1>10. ASSUME NEW i PROVE (Num(Max(WeightsOf(R, i))))' = Num(Max(WeightsOf(R, i)))
  BY <1>9 DEF Num, Name
<1>11. DistFrom(R)' = DistFrom(R)
  BY <1>8, <1>9, <1>10 DEF DistFrom
<1>12. Closed(R)' <=> Closed(R)
  BY <1>5, <1>7, <1>8 DEF Closed
<1> QED BY <1>11, <1>12


-----------------------------------------------------------------------------
(* Where the lines of a rule stand. *)
RuleBlocks == {"source", "destination", "limit", "interface"}

LEMMA RulePlaces ==
    ASSUME NEW w, NEW c, w # <<>>, w[1] = "rule"
    PROVE  /\ [where |-> w, key |-> c] \in Headings =>
                 w = <<"rule">> /\ c \in RuleBlocks
           /\ [where |-> w, key |-> c] \in Settings =>
                 \/ w = <<"rule">> /\ c \in {"inbound-interface", "protocol"} \cup Flags
                 \/ \E s \in RuleBlocks : /\ w = <<"rule", s>>
                                          /\ s = "interface" => c = "weight"
<1>1. ASSUME NEW A, NEW B, [where |-> w, key |-> c] \in [where : A, key : B]
      PROVE  w \in A /\ c \in B
  BY <1>1
<1>2. /\ w \notin {<<>>} /\ w \notin {<<"health">>} /\ w \notin {InIface}
      /\ w \notin {InTest} /\ w \notin {InType}
  <2>1. <<"health">>[1] = "health" /\ InIface[1] = "health"
    BY DEF InIface
  <2> QED BY <2>1, LongPlaces
<1>3. ASSUME [where |-> w, key |-> c] \in Headings
      PROVE  w = <<"rule">> /\ c \in RuleBlocks
  BY <1>1, <1>2, <1>3 DEF Headings, RuleBlocks
<1>4. ASSUME [where |-> w, key |-> c] \in Settings
      PROVE  \/ w = <<"rule">> /\ c \in {"inbound-interface", "protocol"} \cup Flags
             \/ w \in {<<"rule", "source">>, <<"rule", "destination">>}
             \/ w = <<"rule", "limit">>
             \/ w = <<"rule", "interface">> /\ c = "weight"
  BY <1>1, <1>2, <1>4 DEF Settings
<1>5. ASSUME [where |-> w, key |-> c] \in Settings
      PROVE  \/ w = <<"rule">> /\ c \in {"inbound-interface", "protocol"} \cup Flags
             \/ \E s \in RuleBlocks : /\ w = <<"rule", s>>
                                      /\ s = "interface" => c = "weight"
  BY <1>4, <1>5 DEF RuleBlocks
<1> QED BY <1>3, <1>5

LEMMA RuleDepths ==
    ASSUME NEW d \in Nat
    PROVE  /\ d = 1 => d # 0 /\ d >= 1 /\ ~(d >= 2) /\ d + 1 = 2
           /\ d = 2 => d # 1 /\ d # 0 /\ d >= 1 /\ d >= 2 /\ d <= 2 /\ d - 1 = 1
           /\ d >= 1 => d # 0 /\ 1 \in 1..d
           /\ d >= 1 /\ d <= 2 => d = 1 \/ d = 2
           /\ d >= 1 /\ d <= 2 /\ d # 1 => d = 2
           /\ 1 > 0 /\ 2 > 1 /\ ~(1 > 1) /\ 2 > 0 /\ ~(0 > 0) /\ ~(0 > 1)
           /\ 1 # 2 /\ 1 - 1 = 0 /\ 1 <= 2 /\ 1 + 1 = 2
  OBVIOUS

LEMMA ShortPlaces ==
    /\ ~(Len(<<"rule">>) > 1)
    /\ \A s : Len(<<"rule", s>>) > 1 /\ <<"rule", s>>[2] = s
<1>1. Len(<<"rule">>) = 1
  OBVIOUS
<1>2. \A s : Len(<<"rule", s>>) = 2 /\ <<"rule", s>>[2] = s
  OBVIOUS
<1> QED BY <1>1, <1>2

LEMMA InRuleLine ==
    ASSUME Types, Nested, ReadLine, ProperLine(at + 1), path[0] = "rule",
           depth >= 1, file[at + 1].brace # "}"
    PROVE  LET u == at + 1
               c == file[u].key
           IN  /\ Where(u) # <<>> /\ Where(u)[1] = "rule"
               /\ \/ /\ depth = 1 /\ Where(u) = <<"rule">> /\ Section(u) = c
                     /\ c \in RuleBlocks \cup Sections
                     /\ file[u].brace = "{" <=> c \in RuleBlocks
                  \/ /\ depth = 2 /\ Where(u) = <<"rule", path[1]>>
                     /\ Section(u) = path[1] /\ path[1] \in RuleBlocks
                     /\ path[1] = "interface" => c = "weight"
                     /\ file[u].brace = ""
<1> DEFINE u == at + 1
           c == file[u].key
           w == Where(u)
           line == [where |-> w, key |-> c]
<1>1. /\ outcome = "reading" /\ at < Len(file) /\ depth \in Nat
      /\ file[u].brace \in {"", "{", "}"}
  BY Reading
<1>2. /\ w \in Seq(Keys) /\ Len(w) = depth
      /\ \A j \in 1..depth : w[j] = path[j - 1]
  BY <1>1, PlaceIs
<1>3. w # <<>> /\ w[1] = "rule"
  <2> HIDE DEF w
  <2>1. 1 \in 1..depth /\ 1 - 1 = 0 /\ Len(w) # 0
    BY <1>1, <1>2, RuleDepths, Zenon
  <2>2. w # <<>>
    BY <2>1
  <2> QED BY <1>2, <2>1, <2>2
<1>4. /\ \A a : w = <<a>> => depth = 1
      /\ \A a, b : w = <<a, b>> => depth = 2 /\ path[1] = b
  BY <1>1, PlaceOf
<1>5. /\ file[u].brace = "{" => line \in Headings
      /\ file[u].brace = "" => line \in Settings
  BY <1>1 DEF ProperLine
<1>6. /\ w = <<"rule">> => Section(u) = c
      /\ \A s : w = <<"rule", s>> => Section(u) = s
  <2>1. ASSUME w = <<"rule">> PROVE Section(u) = c
    <3>1. ~(Len(w) > 1)
      BY <2>1, ShortPlaces, Zenon
    <3> QED BY <3>1 DEF Section, w
  <2>2. ASSUME NEW s, w = <<"rule", s>> PROVE Section(u) = s
    <3>1. Len(w) > 1 /\ w[2] = s
      BY <2>2, ShortPlaces, Zenon
    <3> QED BY <3>1 DEF Section, w
  <2> QED BY <2>1, <2>2
<1> HIDE DEF u, c, w
<1>7. CASE file[u].brace = "{"
  <2>1. w = <<"rule">> /\ c \in RuleBlocks
    BY <1>3, <1>5, <1>7, RulePlaces
  <2> QED BY <1>3, <1>4, <1>6, <1>7, <2>1 DEF u, c, w
<1>8. CASE file[u].brace = ""
  <2>1. \/ w = <<"rule">> /\ c \in {"inbound-interface", "protocol"} \cup Flags
        \/ \E s \in RuleBlocks : /\ w = <<"rule", s>>
                                 /\ s = "interface" => c = "weight"
    BY <1>3, <1>5, <1>8, RulePlaces
  <2>2. CASE w = <<"rule">> /\ c \in {"inbound-interface", "protocol"} \cup Flags
    <3>1. c \in Sections /\ c \notin RuleBlocks
      BY <2>2 DEF Sections, Flags, RuleBlocks
    <3> QED BY <1>3, <1>4, <1>6, <1>8, <2>2, <3>1 DEF u, c, w
  <2>3. CASE \E s \in RuleBlocks : /\ w = <<"rule", s>>
                                   /\ s = "interface" => c = "weight"
    <3>1. PICK s \in RuleBlocks : /\ w = <<"rule", s>>
                                  /\ s = "interface" => c = "weight"
      BY <2>3
    <3>2. depth = 2 /\ path[1] = s /\ Section(u) = s
      BY <1>4, <1>6, <3>1
    <3> QED BY <1>3, <1>8, <3>1, <3>2 DEF u, c, w
  <2> QED BY <2>1, <2>2, <2>3
<1> QED BY <1>1, <1>7, <1>8 DEF u

LEMMA RuleLineDoes ==
    ASSUME Types, Nested, ReadLine, ProperLine(at + 1), path[0] = "rule",
           depth >= 1, file[at + 1].brace # "}"
    PROVE  LET u == at + 1
               c == file[u].key
           IN  /\ path'[0] = "rule"
               /\ IF Section(u) = "interface"
                  THEN ProcessRuleInterface(c, Name(u))
                  ELSE ProcessRuleSection(Section(u), c, Name(u))
<1> DEFINE u == at + 1
           c == file[u].key
           s == Section(u)
<1>1. /\ outcome = "reading" /\ at < Len(file) /\ depth \in Nat
      /\ file[u].brace \in {"", "{", "}"}
      /\ Process(path', depth', c, Name(u))
      /\ file[u].brace = "{" => depth' = depth + 1
      /\ file[u].brace = ""  => depth' = depth
      /\ depth # 0 => path'[0] = path[0]
      /\ depth # 1 => path'[1] = path[1]
      /\ file[u].brace # "}" => path'[depth] = file[u].key
  BY Reading
<1>2. \/ /\ depth = 1 /\ s = c /\ c \in RuleBlocks \cup Sections
         /\ file[u].brace = "{" <=> c \in RuleBlocks
      \/ /\ depth = 2 /\ s = path[1] /\ path[1] \in RuleBlocks
         /\ file[u].brace = ""
  BY InRuleLine
<1>3. path'[0] = "rule"
  BY <1>1, RuleDepths
<1>4. /\ path'[1] = s
      /\ \/ depth' = 2 /\ s \in RuleBlocks
         \/ depth' = 1 /\ s \in Sections
  <2> HIDE DEF s, c, u
  <2>1. CASE depth = 2
    BY <1>1, <1>2, <2>1, RuleDepths
  <2>2. CASE depth = 1 /\ file[u].brace = "{"
    <3>1. depth' = 2
      BY <1>1, <2>2, RuleDepths
    <3> QED BY <1>1, <1>2, <2>2, <3>1, RuleDepths DEF c
  <2>3. CASE depth = 1 /\ file[u].brace # "{"
    <3>1. depth' = 1 /\ file[u].brace = ""
      <4>1. file[u].brace = ""
        <5>1. file[u].brace # "}"
          BY DEF u
        <5> QED BY <1>1, <2>3, <5>1, Zenon
      <4> QED BY <1>1, <2>3, <4>1, Zenon
    <3>2. file[u].brace # "}" /\ path'[1] = c
      BY <1>1, <2>3, <3>1 DEF c
    <3>3. s = c /\ c \in RuleBlocks \cup Sections /\ c \notin RuleBlocks
      BY <1>1, <1>2, <2>3, RuleDepths
    <3> QED BY <3>1, <3>2, <3>3
  <2> QED BY <1>2, <2>1, <2>2, <2>3
<1> HIDE DEF u, c, s
<1>5. ProcessRuleLine(depth', s, c, Name(u))
  BY <1>1, <1>3, <1>4 DEF Process
<1>6. IF s = "interface" THEN ProcessRuleInterface(c, Name(u))
      ELSE ProcessRuleSection(s, c, Name(u))
  <2>1. /\ "interface" \notin Sections
        /\ "source" \in Sections /\ "destination" \in Sections
    BY DEF Sections, Flags
  <2>2. CASE depth' = 2 /\ s \in RuleBlocks
    <3>1. ProcessRuleLine(2, s, c, Name(u)) /\ 2 > 1 /\ 2 > 0
      BY <1>5, <2>2, RuleDepths
    <3> QED BY <2>1, <2>2, <3>1 DEF ProcessRuleLine, RuleBlocks
  <2>3. CASE depth' = 1 /\ s \in Sections
    <3>1. ProcessRuleLine(1, s, c, Name(u)) /\ ~(1 > 1) /\ 1 > 0
      BY <1>5, <2>3, RuleDepths
    <3> QED BY <2>1, <2>3, <3>1 DEF ProcessRuleLine
  <2> QED BY <1>4, <2>2, <2>3
<1> QED BY <1>3, <1>6 DEF u, c, s

(* Any other line but a heading of a rule leaves the rules alone.          *)
LEMMA OutsideRules ==
    ASSUME Types, Nested, Rooted, ReadLine, ProperLine(at + 1),
           outcome' # "undefined",
           path[0] = "rule" => depth <= 2,
           path[0] = "rule" /\ depth = 2 => path[1] \in RuleBlocks,
           path[0] = "rule" /\ depth >= 1 => file[at + 1].brace = "}",
           ~Stands(at + 1, <<>>, {"rule"})
    PROVE  rules' = rules /\ rule_iter' = rule_iter
<1> DEFINE u == at + 1
           c == file[u].key
<1>1. /\ outcome = "reading" /\ at < Len(file) /\ depth \in Nat
      /\ Process(path', depth', c, Name(u))
      /\ path' \in [0..MaxDepth -> Keys]
      /\ file[u].brace \in {"", "{", "}"}
      /\ file[u].brace = "}" => depth' = depth - 1
      /\ depth # 0 => path'[0] = path[0]
      /\ depth # 1 => path'[1] = path[1]
      /\ file[u].brace # "}" => path'[depth] = file[u].key
      /\ file[u].brace = "}" => path'[depth] = ""
  BY Reading, AfterLine DEF ReadLine
<1>2. ~Undefined
  BY DEF Undefined
<1>3. file[u].brace = "}" => c = ""
  BY <1>1 DEF ProperLine
<1>4. ASSUME path'[0] = "rule"
      PROVE  /\ c = ""
             /\ path'[1] = "" \/ (path'[1] \in RuleBlocks /\ depth' = 1)
  <2>1. depth # 0
    <3> SUFFICES ASSUME depth = 0 PROVE FALSE
      OBVIOUS
    <3>1. file[u].brace # "}" /\ c = "rule"
      BY <1>1, <1>4
    <3>2. Where(u) = <<>>
      <4>1. ~(0 = 2)
        OBVIOUS
      <4> QED BY <1>1, <3>1, <4>1, ProperKeys
    <3> QED BY <3>1, <3>2 DEF Stands
  <2>2. path[0] = "rule" /\ depth >= 1 /\ depth <= 2
    BY <1>1, <1>4, <2>1, Depths
  <2>3. file[u].brace = "}" /\ c = ""
    BY <1>3, <2>2
  <2>4. path'[1] = "" \/ (path'[1] \in RuleBlocks /\ depth' = 1)
    <3>0. path[0] = "rule" /\ depth = 2 => path[1] \in RuleBlocks
      OBVIOUS
    <3> HIDE DEF u, c
    <3>1. CASE depth = 1
      BY <1>1, <2>3, <3>1, Zenon
    <3>2. CASE depth = 2
      <4>1. path'[1] = path[1]
        BY <1>1, <3>2, RuleDepths, Zenon
      <4>2. depth' = 1
        BY <1>1, <2>3, <3>2, RuleDepths, Zenon
      <4> QED BY <2>2, <3>0, <3>2, <4>1, <4>2, Zenon
    <3> QED BY <1>1, <2>2, <3>1, <3>2, RuleDepths, Zenon
  <2> QED BY <2>3, <2>4
<1> HIDE DEF u, c
<1>5. /\ "" \notin Sections \cup {"limit"} /\ "" # "interface"
      /\ "interface" \notin Sections /\ "limit" \notin Sections
      /\ "source" \notin Flags /\ "destination" \notin Flags
      /\ "" \notin EndPoint
  BY DEF Sections, Flags, EndPoint
<1>6. CASE path'[0] # "rule"
  <2>1. CASE \E g \in {"true", Name(u)} : ProcessGlobal(path'[0], g)
    BY <2>1 DEF ProcessGlobal, iters
  <2>2. CASE ProcessHealth(Name(u))
    BY <2>2 DEF ProcessHealth, NewInterface, iters, data
  <2>3. CASE ProcessHealthInterface(c, Name(u))
    BY <1>2, <2>3 DEF ProcessHealthInterface, Ignored, iters, data
  <2>4. CASE ProcessHealthRule(Name(u)) \/ Ignored
    BY <2>4 DEF ProcessHealthRule, Ignored, iters, data
  <2>5. CASE ProcessType(Name(u))
    BY <1>2, <2>5 DEF ProcessType
  <2>6. CASE ProcessTestSetting(c, Name(u))
    BY <1>2, <2>6 DEF ProcessTestSetting, Ignored, iters, data
  <2> QED BY <1>1, <1>6, <2>1, <2>2, <2>3, <2>4, <2>5, <2>6, ProcessWhen
<1>7. CASE path'[0] = "rule"
  <2>1. ProcessRuleLine(depth', path'[1], "", Name(u))
    BY <1>1, <1>4, <1>7 DEF Process
  <2>2. CASE ProcessRule("", Name(u))
    BY <2>2 DEF ProcessRule
  <2>3. CASE path'[1] \in {"source", "destination"}
             /\ ProcessRuleSection(path'[1], "", Name(u))
    <3> DEFINE s == path'[1]
               old == rules[rule_iter].settings
    <3>1. ~Accepted(s, "", Name(u)) /\ s \notin Flags \cup {"limit"}
      BY <1>5, <2>3 DEF Accepted
    <3>2. RuleSettings(old, s, "", Name(u)) = old
      BY <3>1 DEF RuleSettings
    <3>3. CASE rule_iter = NoRule
      BY <2>3, <3>1, <3>3 DEF ProcessRuleSection, Ignored, iters, data
    <3>4. CASE rule_iter # NoRule
      <4>1. /\ rules' = [rules EXCEPT ![rule_iter].settings =
                           RuleSettings(@, s, "", Name(u))]
            /\ rule_iter' = rule_iter
        BY <2>3, <3>4 DEF ProcessRuleSection, iters
      <4>2. rules' = [rules EXCEPT ![rule_iter].settings = old]
        BY <3>2, <4>1
      <4>3. rule_iter \in DOMAIN rules /\ rules \in Maps(Nat, Rule)
        BY <3>4 DEF Types, DataOK, Rules
      <4>4. rules \in [DOMAIN rules -> Rule] /\ rules[rule_iter] \in Rule
        BY <4>3, MapsType
      <4>5. [rules[rule_iter] EXCEPT !.settings = old] = rules[rule_iter]
        BY <4>4 DEF Rule
      <4>6. rules' = [rules EXCEPT ![rule_iter] = rules[rule_iter]]
        BY <4>2, <4>5
      <4> QED BY <4>1, <4>4, <4>6
    <3> QED BY <3>3, <3>4
  <2>4. CASE path'[1] = ""
    BY <1>5, <2>1, <2>2, <2>4 DEF ProcessRuleLine
  <2>5. CASE path'[1] \in RuleBlocks /\ depth' = 1
    <3>1. ProcessRuleLine(1, path'[1], "", Name(u)) /\ ~(1 > 1)
      BY <2>1, <2>5, RuleDepths
    <3> QED BY <1>5, <2>2, <2>3, <2>5, <3>1 DEF ProcessRuleLine, RuleBlocks
  <2> QED BY <1>4, <1>7, <2>4, <2>5
<1> QED BY <1>6, <1>7


-----------------------------------------------------------------------------
(* The rules with a legal number, and those that one without spills into.  *)
Legal == RuleHeads \ Illegal
IsLast(h, S) == h \in S /\ \A g \in S : g <= h
Spills(n) == \E k \in Illegal : \E h \in Before(k) : IsLast(h, Before(k)) /\ Num(h) = n

(* The iterator is to the last rule with a legal number.                   *)
AtLastRule ==
    \/ Legal = {} /\ rule_iter = NoRule
    \/ \E h \in Legal : IsLast(h, Legal) /\ rule_iter = Num(h)

(* In a rule of a proper file its heading is the last, and in a block of   *)
(* an interface the iterator is to that of the rule the other is to.       *)
InBlock ==
    path[0] = "rule" /\ depth >= 1 =>
        /\ depth <= 2 /\ IsLast(Open[at][1], RuleHeads)
        /\ depth = 2 =>
              /\ path[1] \in RuleBlocks
              /\ path[1] = "interface" =>
                    rule_iface_iter = <<rule_iter, Name(Open[at][2])>>

IsOfRule(k, n) ==
    file[k].brace # "}" /\ Where(k) # <<>> /\ Where(k)[1] = "rule" /\ NumOf(k, 1) = n

LEMMA RuleLinesAre ==
    ASSUME Types, NEW n
    PROVE  RuleLines(n) \subseteq Nat /\ \A k \in RuleLines(n) : k < at + 1
<1>1. at \in Nat
  BY PlaceType
<1>2. \A k \in 1..at : k \in Nat /\ k < at + 1
  BY <1>1
<1> QED BY <1>2 DEF RuleLines, Read

LEMMA RuleLinesNext ==
    ASSUME Types, Nested, ReadLine, NEW n
    PROVE  LET u == at + 1
               mine == /\ path[0] = "rule" /\ depth >= 1
                       /\ file[u].brace # "}" /\ NumOf(u, 1) = n
           IN  RuleLines(n)' = IF mine THEN RuleLines(n) \cup {u} ELSE RuleLines(n)
<1> DEFINE u == at + 1
           w == Where(u)
<1>1. /\ outcome = "reading" /\ at < Len(file) /\ at \in Nat /\ at' = u
      /\ file' = file /\ depth \in Nat
  BY Reading
<1>2. 1..at' = (1..at) \cup {u}
  BY <1>1
<1>3. RuleLines(n) = {k \in 1..at : IsOfRule(k, n)}
  BY DEF RuleLines, Read, IsOfRule
<1>4. RuleLines(n)' = {k \in 1..at' : IsOfRule(k, n)'}
  BY DEF RuleLines, Read, IsOfRule
<1>5. ASSUME NEW k PROVE IsOfRule(k, n)' <=> IsOfRule(k, n)
  <2>1. Where(k)' = Where(k)
    BY <1>1, LinesKept
  <2>2. NumOf(k, 1)' = NumOf(k, 1)
    BY <1>1, HeadsKept
  <2> HIDE DEF Where, NumOf
  <2> QED BY <1>1, <2>1, <2>2 DEF IsOfRule
<1>6. w # <<>> /\ w[1] = "rule" <=> path[0] = "rule" /\ depth >= 1
  <2>1. w \in Seq(Keys) /\ Len(w) = depth /\ \A j \in 1..depth : w[j] = path[j - 1]
    BY <1>1, PlaceIs
  <2> HIDE DEF w
  <2>2. w = <<>> <=> depth = 0
    BY <2>1
  <2>3. depth >= 1 => w[1] = path[0]
    <3>1. depth >= 1 => 1 \in 1..depth /\ 1 - 1 = 0
      BY <1>1, RuleDepths
    <3> QED BY <2>1, <3>1
  <2>4. depth >= 1 <=> depth # 0
    BY <1>1, Depths
  <2> QED BY <2>2, <2>3, <2>4
<1> HIDE DEF u
<1>7. RuleLines(n)' = RuleLines(n) \cup {k \in {u} : IsOfRule(k, n)}
  BY <1>2, <1>3, <1>4, <1>5
<1>8. IsOfRule(u, n) <=> /\ path[0] = "rule" /\ depth >= 1
                         /\ file[u].brace # "}" /\ NumOf(u, 1) = n
  BY <1>6 DEF IsOfRule
<1> QED BY <1>7, <1>8 DEF u

(* A heading of a rule follows all there are; it may be a legal one.       *)
LEMMA LegalNext ==
    ASSUME Types, ReadLine
    PROVE  LET u == at + 1
               heads == Stands(u, <<>>, {"rule"})
           IN  /\ RuleHeads' = IF heads THEN RuleHeads \cup {u} ELSE RuleHeads
               /\ Illegal' = IF heads /\ Num(u) = 0 THEN Illegal \cup {u} ELSE Illegal
               /\ Legal' = IF heads /\ Num(u) # 0 THEN Legal \cup {u} ELSE Legal
               /\ RuleHeads \subseteq Nat /\ \A k \in RuleHeads : k < u
               /\ u \in Nat
<1> DEFINE u == at + 1
<1>1. at \in Nat /\ file' = file
  BY PlaceType DEF ReadLine
<1>2. RuleHeads' = RuleHeads \cup {k \in {u} : Stands(k, <<>>, {"rule"})}
  BY NextLines DEF RuleHeads
<1>3. \A k : Num(k)' = Num(k)
  BY <1>1, HeadsKept
<1>4. \A k \in RuleHeads : k \in Nat /\ k < u
  BY LinesAre DEF RuleHeads
<1>5. u \in Nat /\ \A k \in RuleHeads : k # u
  <2>1. u \in Nat /\ ~(u < u)
    BY <1>1
  <2> QED BY <1>4, <2>1
<1>6. Illegal' = {k \in RuleHeads' : Num(k) = 0}
  BY <1>3 DEF Illegal
<1>7. Legal' = {k \in RuleHeads' : Num(k) # 0}
  BY <1>6 DEF Legal
<1> HIDE DEF u
<1>8. RuleHeads' = IF Stands(u, <<>>, {"rule"}) THEN RuleHeads \cup {u} ELSE RuleHeads
  BY <1>2
<1>9. Illegal' = IF Stands(u, <<>>, {"rule"}) /\ Num(u) = 0
                 THEN Illegal \cup {u} ELSE Illegal
  BY <1>6, <1>8 DEF Illegal
<1>10. Legal' = IF Stands(u, <<>>, {"rule"}) /\ Num(u) # 0
                THEN Legal \cup {u} ELSE Legal
  BY <1>7, <1>8 DEF Illegal, Legal
<1> QED BY <1>4, <1>5, <1>8, <1>9, <1>10 DEF u

(* What has spilled stays so: nothing comes to stand before a line.        *)
LEMMA SpillsNext ==
    ASSUME Types, ReadLine, NEW n, Spills(n)
    PROVE  Spills(n)'
<1>0. PICK u \in Nat : u = at + 1
  BY NextLine
<1>1. /\ Illegal \subseteq Illegal' /\ Legal' \subseteq Legal \cup {u} /\ Legal \subseteq Legal'
      /\ RuleHeads \subseteq Nat /\ \A k \in RuleHeads : k < u
  BY <1>0, LegalNext
<1>2. PICK k \in Illegal : \E h \in Before(k) : IsLast(h, Before(k)) /\ Num(h) = n
  BY DEF Spills
<1>3. PICK h \in Before(k) : IsLast(h, Before(k)) /\ Num(h) = n
  BY <1>2
<1>4. k \in Nat /\ ~(u < k)
  <2>1. k \in Nat /\ k < u
    BY <1>1 DEF Illegal
  <2> QED BY <2>1
<1>5. Before(k)' = Before(k)
  <2>1. Before(k)' = {x \in Legal' : x < k} /\ Before(k) = {x \in Legal : x < k}
    BY DEF Before, Legal
  <2> QED BY <1>1, <1>4, <2>1
<1>6. Num(h)' = Num(h)
  BY HeadsKept DEF ReadLine
<1>7. IsLast(h, Before(k))' <=> IsLast(h, Before(k))
  BY <1>5 DEF IsLast
<1> QED BY <1>1, <1>2, <1>3, <1>5, <1>6, <1>7 DEF Spills


-----------------------------------------------------------------------------
(* What a line in a rule does to the rule, the iterator to which stays.    *)
LEMMA ShareKind ==
    ASSUME Types, Nested, ReadLine, ProperLine(at + 1), path[0] = "rule",
           depth >= 1, file[at + 1].brace # "}"
    PROVE  LET u == at + 1
               c == file[u].key
           IN  /\ IsShare(u) <=> Section(u) = "interface" /\ c = "interface"
               /\ IsWeight(u) <=>
                     Section(u) = "interface" /\ c = "weight" /\ Num(u) > 0
               /\ IsWeight(u) => depth = 2 /\ path[1] = "interface"
               /\ Section(u) = "interface" => c \in {"interface", "weight"}
<1> DEFINE u == at + 1
           c == file[u].key
           w == Where(u)
<1>1. \/ /\ depth = 1 /\ w = <<"rule">> /\ Section(u) = c
         /\ c \in RuleBlocks \cup Sections
      \/ /\ depth = 2 /\ w = <<"rule", path[1]>> /\ Section(u) = path[1]
         /\ path[1] = "interface" => c = "weight"
  BY InRuleLine
<1>2. /\ \A s : <<"rule">> # <<"rule", s>>
      /\ \A s : <<"rule", s>> = <<"rule", "interface">> <=> s = "interface"
  OBVIOUS
<1>3. "weight" \notin RuleBlocks \cup Sections
  BY DEF RuleBlocks, Sections, Flags
<1> HIDE DEF u, c, w
<1>4. CASE depth = 1 /\ w = <<"rule">> /\ Section(u) = c /\ c \in RuleBlocks \cup Sections
  BY <1>2, <1>3, <1>4 DEF IsShare, IsWeight, u, c, w
<1>5. CASE /\ depth = 2 /\ w = <<"rule", path[1]>> /\ Section(u) = path[1]
           /\ path[1] = "interface" => c = "weight"
  BY <1>2, <1>5 DEF IsShare, IsWeight, u, c, w
<1> QED BY <1>1, <1>4, <1>5 DEF u, c

LEMMA NotASetting ==
    ASSUME NEW old, NEW key, NEW value
    PROVE  RuleSettings(old, "interface", key, value) = old
<1>1. "interface" \notin Flags \cup {"limit"} /\ ~Accepted("interface", key, value)
  BY DEF Flags, Accepted
<1> QED BY <1>1 DEF RuleSettings

LEMMA RuleLineGives ==
    ASSUME Types, Nested, ReadLine, ProperLine(at + 1), InBlock,
           path[0] = "rule", depth >= 1, file[at + 1].brace # "}",
           outcome' # "undefined", NoRule \notin DOMAIN rules
    PROVE  LET u == at + 1
               n == rule_iter
               old == rules[n]
           IN  /\ DOMAIN rules' = DOMAIN rules /\ rule_iter' = n
               /\ \A m \in DOMAIN rules : m # n => rules'[m] = rules[m]
               /\ n \in DOMAIN rules =>
                    /\ rules'[n].settings =
                         RuleSettings(old.settings, Section(u), file[u].key, Name(u))
                    /\ rules'[n].dist =
                         IF IsShare(u) THEN Inserted(old.dist, Name(u), 0)
                         ELSE IF IsWeight(u)
                         THEN [old.dist EXCEPT ![NameOf(u, 2)] = Num(u)]
                         ELSE old.dist
                    /\ IsWeight(u) => NameOf(u, 2) \in DOMAIN old.dist
               /\ /\ IsShare(u) => rule_iface_iter' = <<n, Name(u)>>
                  /\ ~IsShare(u) => rule_iface_iter' = rule_iface_iter
<1> DEFINE u == at + 1
           n == rule_iter
           old == rules[n]
           c == file[u].key
           s == Section(u)
<1>1. /\ outcome = "reading" /\ at < Len(file) /\ Name(u) \in Values
  BY Reading
<1>2. /\ IsShare(u) <=> s = "interface" /\ c = "interface"
      /\ IsWeight(u) <=> s = "interface" /\ c = "weight" /\ Num(u) > 0
      /\ IsWeight(u) => depth = 2 /\ path[1] = "interface"
      /\ s = "interface" => c \in {"interface", "weight"}
  BY ShareKind
<1>3. IF s = "interface" THEN ProcessRuleInterface(c, Name(u))
      ELSE ProcessRuleSection(s, c, Name(u))
  BY RuleLineDoes
<1>4. IsWeight(u) => rule_iface_iter = <<n, NameOf(u, 2)>>
  <2>1. Heads(u) = Open[at]
    BY <1>1, WhereIs
  <2> QED BY <1>2, <2>1 DEF InBlock, NameOf
<1>5. ~Undefined
  BY DEF Undefined
<1>6. /\ rules \in [DOMAIN rules -> Rule]
      /\ n \in DOMAIN rules \cup {NoRule}
      /\ rule_iface_iter # Unset =>
            /\ rule_iface_iter[1] \in DOMAIN rules
            /\ rule_iface_iter[2] \in DOMAIN rules[rule_iface_iter[1]].dist
  <2>1. rules \in Maps(Nat, Rule)
    BY DEF Types, DataOK, Rules
  <2> QED BY <2>1, MapsType DEF Types, DataOK
<1>7. \A m \in DOMAIN rules : rules[m] \in Rule
  BY <1>6
<1> HIDE DEF u, c, s, n
<1>8. CASE s = "interface" /\ c = "interface"
  <2>0. ~IsWeight(u)
    BY <1>2, <1>8
  <2>1. /\ n # NoRule
        /\ rules' = [rules EXCEPT ![n].dist = Inserted(@, Name(u), 0)]
        /\ rule_iface_iter' = <<n, Name(u)>> /\ rule_iter' = n
    BY <1>3, <1>5, <1>8 DEF ProcessRuleInterface, n
  <2>2. n \in DOMAIN rules /\ old \in Rule
    BY <1>6, <1>7, <2>1
  <2>3. RuleSettings(old.settings, s, c, Name(u)) = old.settings
    BY <1>8, NotASetting
  <2>4. /\ DOMAIN rules' = DOMAIN rules
        /\ \A m \in DOMAIN rules : m # n => rules'[m] = rules[m]
        /\ rules'[n].settings = old.settings
        /\ rules'[n].dist = Inserted(old.dist, Name(u), 0)
    BY <1>6, <2>1, <2>2 DEF Rule
  <2> QED BY <1>2, <1>8, <2>0, <2>1, <2>3, <2>4 DEF u, n, s, c
<1>9. CASE s = "interface" /\ c = "weight"
  <2>0. ~IsShare(u)
    BY <1>2, <1>9
  <2>1. RuleSettings(old.settings, s, c, Name(u)) = old.settings
    BY <1>9, NotASetting
  <2>2. CASE Num(u) > 0
    <3>1. IsWeight(u)
      BY <1>2, <1>9, <2>2
    <3>2. /\ rule_iface_iter # Unset
          /\ rules' = [rules EXCEPT
               ![rule_iface_iter[1]].dist[rule_iface_iter[2]] = Num(u)]
          /\ rule_iface_iter' = rule_iface_iter /\ rule_iter' = n
      BY <1>3, <1>5, <1>9, <2>2 DEF ProcessRuleInterface, n, Num, iters
    <3> DEFINE i == NameOf(u, 2)
    <3> HIDE DEF i
    <3>3. rule_iface_iter = <<n, i>>
      BY <1>4, <3>1 DEF i
    <3>4. n \in DOMAIN rules /\ old \in Rule /\ i \in DOMAIN old.dist
      BY <1>6, <1>7, <3>2, <3>3
    <3>5. rules' = [rules EXCEPT ![n].dist[i] = Num(u)]
      BY <3>2, <3>3
    <3>6. /\ DOMAIN rules' = DOMAIN rules
          /\ \A m \in DOMAIN rules : m # n => rules'[m] = rules[m]
          /\ rules'[n].settings = old.settings
          /\ rules'[n].dist = [old.dist EXCEPT ![i] = Num(u)]
      BY <1>6, <3>4, <3>5 DEF Rule
    <3> QED BY <2>0, <2>1, <3>1, <3>2, <3>4, <3>6 DEF u, n, s, c, i
  <2>3. CASE ~(Num(u) > 0)
    <3>1. ~IsWeight(u)
      BY <1>2, <2>3
    <3>2. rules' = rules /\ rule_iter' = n /\ rule_iface_iter' = rule_iface_iter
      BY <1>3, <1>9, <2>3 DEF ProcessRuleInterface, Ignored, n, Num, iters, data
    <3> QED BY <2>0, <2>1, <3>1, <3>2 DEF u, n, s, c
  <2> QED BY <2>2, <2>3
<1>10. CASE s # "interface"
  <2>0. ~IsShare(u) /\ ~IsWeight(u)
    BY <1>2, <1>10
  <2> DEFINE new == RuleSettings(old.settings, s, c, Name(u))
  <2>1. CASE n = NoRule
    <3>1. rules' = rules /\ rule_iter' = n /\ rule_iface_iter' = rule_iface_iter
      BY <1>3, <1>5, <1>10, <2>1 DEF ProcessRuleSection, Ignored, n, iters, data
    <3>2. n \notin DOMAIN rules
      BY <2>1
    <3> QED BY <2>0, <3>1, <3>2 DEF u, n, s, c
  <2>2. CASE n # NoRule
    <3>1. /\ rules' = [rules EXCEPT ![n].settings = RuleSettings(@, s, c, Name(u))]
          /\ rule_iter' = n /\ rule_iface_iter' = rule_iface_iter
      BY <1>3, <1>10, <2>2 DEF ProcessRuleSection, n, iters
    <3>2. n \in DOMAIN rules /\ old \in Rule
      BY <1>6, <1>7, <2>2
    <3>3. rules' = [rules EXCEPT ![n].settings = new]
      BY <3>1
    <3> HIDE DEF new
    <3>4. /\ DOMAIN rules' = DOMAIN rules
          /\ \A m \in DOMAIN rules : m # n => rules'[m] = rules[m]
          /\ rules'[n].settings = new
          /\ rules'[n].dist = old.dist
      BY <1>6, <3>2, <3>3 DEF Rule
    <3> QED BY <2>0, <3>1, <3>4 DEF u, n, s, c, new
  <2> QED BY <2>1, <2>2
<1> QED BY <1>2, <1>8, <1>9, <1>10


-----------------------------------------------------------------------------
(* The iterators stay with the rules.                                      *)
LEMMA BlockPlaces ==
    ASSUME InBlock, depth \in Nat, path[0] = "rule"
    PROVE  depth <= 2 /\ (depth = 2 => path[1] \in RuleBlocks)
<1>1. depth >= 1 \/ (depth <= 2 /\ depth # 2)
  OBVIOUS
<1> QED BY <1>1 DEF InBlock

LEMMA LastRuleNext ==
    ASSUME Types, Nested, Rooted, ReadLine, ProperLine(at + 1), InBlock,
           AtLastRule, outcome' # "undefined", NoRule \notin DOMAIN rules
    PROVE  AtLastRule'
<1>0. PICK u \in Nat : u = at + 1
  BY NextLine
<1> DEFINE heads == Stands(u, <<>>, {"rule"})
<1>1. /\ Legal' = IF heads /\ Num(u) # 0 THEN Legal \cup {u} ELSE Legal
      /\ Legal \subseteq RuleHeads
      /\ RuleHeads \subseteq Nat /\ \A k \in RuleHeads : k < u
  <2>1. Legal \subseteq RuleHeads
    BY DEF Legal
  <2> QED BY <1>0, <2>1, LegalNext
<1>2. \A k : Num(k)' = Num(k)
  BY HeadsKept DEF ReadLine
<1>3. \A h : IsLast(h, Legal)' <=> IsLast(h, Legal')
  BY DEF IsLast
<1>4. CASE heads
  <2>1. ProcessRule("rule", Name(u))
    BY <1>0, <1>4, RuleHeadIs DEF Stands
  <2>2. CASE Num(u) = 0
    <3>1. rule_iter' = rule_iter
      BY <2>1, <2>2 DEF ProcessRule, Num
    <3> QED BY <1>1, <1>2, <1>3, <2>2, <3>1 DEF AtLastRule
  <2>3. CASE Num(u) # 0
    <3>1. rule_iter' = Num(u)
      BY <2>1, <2>3 DEF ProcessRule, Num
    <3>2. Legal' = Legal \cup {u}
      BY <1>1, <1>4, <2>3
    <3>3. \A g \in Legal' : g <= u
      BY <1>1, <3>2
    <3>4. IsLast(u, Legal')
      BY <3>2, <3>3 DEF IsLast
    <3> QED BY <1>2, <1>3, <3>1, <3>2, <3>4 DEF AtLastRule
  <2> QED BY <2>2, <2>3
<1>5. CASE ~heads
  <2>1. rule_iter' = rule_iter
    <3>1. CASE path[0] = "rule" /\ depth >= 1 /\ file[u].brace # "}"
      BY <1>0, <3>1, RuleLineGives
    <3>2. CASE ~(path[0] = "rule" /\ depth >= 1 /\ file[u].brace # "}")
      <4>1. depth \in Nat
        BY Reading
      <4>2. path[0] = "rule" => depth <= 2 /\ (depth = 2 => path[1] \in RuleBlocks)
        BY <4>1, BlockPlaces
      <4> QED BY <1>0, <1>5, <3>2, <4>2, OutsideRules
    <3> QED BY <3>1, <3>2
  <2> QED BY <1>1, <1>2, <1>3, <1>5, <2>1 DEF AtLastRule
<1> QED BY <1>4, <1>5

(* In a rule its lines do not open others. *)
LEMMA NoHeadInside ==
    ASSUME Types, Nested, ReadLine, depth # 0
    PROVE  ~Stands(at + 1, <<>>, {"rule"}) /\ RuleHeads' = RuleHeads
<1>1. outcome = "reading" /\ at < Len(file)
  BY Reading
<1>2. ~Stands(at + 1, <<>>, {"rule"})
  <2> SUFFICES ASSUME Where(at + 1) = <<>> PROVE FALSE
    BY DEF Stands
  <2> QED BY <1>1, PlaceOf
<1> QED BY <1>2, LegalNext

LEMMA InBlockDepths ==
    ASSUME NEW d \in Nat, NEW e
    PROVE  /\ d >= 1 => d # 0 /\ 1 \in 1..d
           /\ d >= 1 /\ d <= 2 => d = 1 \/ d = 2
           /\ d = 1 /\ e = d + 1 => e = 2 /\ d + 1 = 2
           /\ d = 2 /\ e = d - 1 => e = 1
           /\ d = 1 /\ e = d - 1 => ~(e >= 1)
           /\ d = 0 /\ e = d + 1 => e = 1 /\ d + 1 = 1
           /\ d = 0 /\ e = d => ~(e >= 1)
           /\ d = 0 /\ e = d - 1 => ~(e >= 1)
           /\ d = 2 => 2 \in 1..d
           /\ 1 <= 1 /\ 1 <= 2 /\ 2 <= 2 /\ 1 # 2 /\ 1 # 0 /\ 2 # 1 /\ 2 # 0
           /\ d = 0 \/ d >= 1
           /\ 0 # 2
  OBVIOUS

LEMMA InBlockNext ==
    ASSUME Types, Nested, Rooted, ReadLine, ProperLine(at + 1), InBlock,
           outcome' # "undefined", NoRule \notin DOMAIN rules
    PROVE  InBlock'
<1> SUFFICES ASSUME path'[0] = "rule", depth' >= 1
             PROVE  /\ depth' <= 2 /\ IsLast(Open[at][1], RuleHeads)'
                    /\ depth' = 2 =>
                          /\ path'[1] \in RuleBlocks
                          /\ path'[1] = "interface" =>
                                rule_iface_iter' = <<rule_iter', Name(Open[at][2])'>>
  BY DEF InBlock
<1>0. PICK u \in Nat : u = at + 1
  BY NextLine
<1> DEFINE c == file[u].key
           b == file[u].brace
<1>1. /\ outcome = "reading" /\ at < Len(file) /\ depth \in Nat
      /\ file' = file /\ at' = u /\ b \in {"", "{", "}"}
      /\ b = "{" => depth' = depth + 1
      /\ b = "}" => depth' = depth - 1
      /\ b = ""  => depth' = depth
      /\ depth # 0 => path'[0] = path[0]
      /\ depth # 1 => path'[1] = path[1]
      /\ b # "}" => path'[depth] = c
  BY <1>0, Reading
<1>2. /\ \A j \in 1..depth : j <= depth' => Open[u][j] = Open[at][j]
      /\ b = "{" => Open[u][depth + 1] = u
  BY <1>0, OpenNext
<1>3. Open' = Open
  BY <1>1, OpenSame
<1>4. /\ IsLast(Open[at][1], RuleHeads)' <=> IsLast(Open[u][1], RuleHeads')
      /\ Name(Open[at][2])' = Name(Open[u][2])
  BY <1>1, <1>3 DEF IsLast, Name
<1>5. CASE depth = 0
  <2>1. b = "{" /\ depth' = 1
    BY <1>1, <1>5, InBlockDepths
  <2>2. c = "rule" /\ Open[u][1] = u
    BY <1>1, <1>2, <1>5, <2>1, InBlockDepths
  <2>3. Stands(u, <<>>, {"rule"})
    <3>1. Where(u) = <<>>
      BY <1>0, <1>1, <1>5, <2>2, InBlockDepths, ProperKeys
    <3> QED BY <2>1, <2>2, <3>1 DEF Stands
  <2>4. /\ RuleHeads' = RuleHeads \cup {u}
        /\ RuleHeads \subseteq Nat /\ \A k \in RuleHeads : k < u
    BY <1>0, <2>3, LegalNext
  <2>5. \A g \in RuleHeads' : g <= u
    BY <2>4
  <2>6. IsLast(u, RuleHeads')
    BY <2>4, <2>5 DEF IsLast
  <2> QED BY <1>1, <1>4, <2>1, <2>2, <2>6, InBlockDepths
<1>6. CASE depth >= 1
  <2>1. /\ path[0] = "rule" /\ depth # 0
        /\ depth = 1 \/ depth = 2
        /\ IsLast(Open[at][1], RuleHeads)
        /\ depth = 2 => /\ path[1] \in RuleBlocks
                        /\ path[1] = "interface" =>
                              rule_iface_iter = <<rule_iter, Name(Open[at][2])>>
    <3>1. depth # 0
      BY <1>1, <1>6, InBlockDepths
    <3>2. path[0] = "rule"
      BY <1>1, <3>1
    <3> QED BY <1>1, <1>6, <3>1, <3>2, InBlockDepths DEF InBlock
  <2>2. RuleHeads' = RuleHeads
    BY <2>1, NoHeadInside
  <2>3. Open[u][1] = Open[at][1]
    BY <1>1, <1>2, <1>6, InBlockDepths
  <2>4. IsLast(Open[at][1], RuleHeads)'
    BY <1>4, <2>1, <2>2, <2>3
  <2> HIDE DEF c, b
  <2>5. CASE b = "}"
    <3>1. depth' = 1
      BY <1>1, <2>1, <2>5, InBlockDepths
    <3> QED BY <1>1, <2>4, <3>1, InBlockDepths
  <2>6. CASE b # "}"
    <3>1. \/ /\ depth = 1 /\ Section(u) = c
             /\ c \in RuleBlocks \cup Sections
             /\ b = "{" <=> c \in RuleBlocks
          \/ /\ depth = 2 /\ Section(u) = path[1] /\ b = ""
             /\ path[1] = "interface" => c = "weight"
      BY <1>0, <1>6, <2>1, <2>6, InRuleLine DEF c, b
    <3>2. /\ IsShare(u) <=> Section(u) = "interface" /\ c = "interface"
          /\ IsShare(u) => rule_iface_iter' = <<rule_iter, Name(u)>>
          /\ ~IsShare(u) => rule_iface_iter' = rule_iface_iter
          /\ rule_iter' = rule_iter
      BY <1>0, <1>6, <2>1, <2>6, ShareKind, RuleLineGives DEF c, b
    <3>3. CASE depth = 1 /\ b = "{"
      <4>1. depth' = 2 /\ Open[u][2] = u
        BY <1>1, <1>2, <3>3, InBlockDepths
      <4>2. path'[1] = c /\ c \in RuleBlocks /\ Section(u) = c
        BY <1>1, <2>6, <3>1, <3>3, InBlockDepths
      <4> QED BY <1>1, <1>4, <2>4, <3>2, <4>1, <4>2, InBlockDepths
    <3>4. CASE depth = 1 /\ b = ""
      <4>1. depth' = 1
        BY <1>1, <3>4
      <4> QED BY <1>1, <2>4, <4>1, InBlockDepths
    <3>5. CASE depth = 2
      <4>1. depth' = 2 /\ path'[1] = path[1]
        BY <1>1, <3>1, <3>5, InBlockDepths
      <4>2. Open[u][2] = Open[at][2]
        BY <1>1, <1>2, <3>5, <4>1, InBlockDepths
      <4>3. ~IsShare(u)
        BY <3>1, <3>2, <3>5, InBlockDepths
      <4> QED BY <1>1, <1>4, <2>1, <2>4, <3>2, <3>5, <4>1, <4>2, <4>3, InBlockDepths
    <3> QED BY <1>1, <2>1, <2>6, <3>3, <3>4, <3>5
  <2> QED BY <2>5, <2>6
<1> QED BY <1>1, <1>5, <1>6, InBlockDepths


-----------------------------------------------------------------------------
(* What is recorded of each rule is what its lines say, but for a rule     *)
(* another spilled into; the lines of a rule are of one there is.          *)
RuleRecorded(n) ==
    \A R : R = RuleLines(n) =>
        /\ rules[n].settings = SettingsFrom(R) /\ rules[n].dist = DistFrom(R)
        /\ Closed(R)

RulesRecorded ==
    Proper /\ outcome # "undefined" =>
        /\ DOMAIN rules = {Num(k) : k \in Legal}
        /\ \A n \in DOMAIN rules : Spills(n) \/ RuleRecorded(n)
        /\ \A n : n \in DOMAIN rules \/ n = 0 \/ RuleLines(n) = {}

LEMMA NoRuleZero ==
    ASSUME DOMAIN rules = {Num(k) : k \in Legal}
    PROVE  NoRule \notin DOMAIN rules
<1>1. \A k \in Legal : Num(k) # 0
  BY DEF Legal, Illegal
<1> QED BY <1>1 DEF NoRule

(* Within a rule with a legal number the iterator is to it, and within     *)
(* another to one that this spills into.                                   *)
LEMMA WhoseLine ==
    ASSUME Types, Nested, ReadLine, InBlock, AtLastRule, path[0] = "rule",
           depth >= 1
    PROVE  \/ NumOf(at + 1, 1) # 0 /\ rule_iter = NumOf(at + 1, 1)
              /\ NumOf(at + 1, 1) \in {Num(k) : k \in Legal}
           \/ NumOf(at + 1, 1) = 0 /\ (rule_iter = NoRule \/ Spills(rule_iter))
<1> DEFINE g == Open[at][1]
<1>1. outcome = "reading" /\ at < Len(file) /\ NumOf(at + 1, 1) = Num(g)
  <2>1. outcome = "reading" /\ at < Len(file)
    BY Reading
  <2>2. Heads(at + 1) = Open[at]
    BY <2>1, WhereIs
  <2> QED BY <2>1, <2>2 DEF NumOf
<1>2. IsLast(g, RuleHeads)
  BY DEF InBlock
<1>3. RuleHeads \subseteq Nat
  BY LegalNext
<1> HIDE DEF g
<1>4. CASE Num(g) # 0
  <2>1. g \in Legal /\ IsLast(g, Legal)
    BY <1>2, <1>4 DEF Legal, Illegal, IsLast
  <2>2. \A h : IsLast(h, Legal) => h = g
    <3> SUFFICES ASSUME NEW h, IsLast(h, Legal) PROVE h = g
      OBVIOUS
    <3>1. h \in Legal /\ h <= g /\ g <= h
      BY <2>1 DEF IsLast
    <3>2. h \in Nat /\ g \in Nat
      BY <1>3, <2>1, <3>1 DEF Legal
    <3> QED BY <3>1, <3>2
  <2>3. rule_iter = Num(g)
    BY <2>1, <2>2 DEF AtLastRule
  <2> QED BY <1>1, <1>4, <2>1, <2>3
<1>5. CASE Num(g) = 0
  <2>1. g \in Illegal
    BY <1>2, <1>5 DEF IsLast, Illegal
  <2>2. ASSUME NEW h \in Legal, IsLast(h, Legal), rule_iter = Num(h)
        PROVE  Spills(rule_iter)
    <3>1. \A x \in Legal : x < g
      <4> SUFFICES ASSUME NEW x \in Legal PROVE x < g
        OBVIOUS
      <4>1. x \in RuleHeads /\ x <= g /\ x # g
        BY <1>2, <2>1 DEF Legal, IsLast
      <4>2. x \in Nat /\ g \in Nat
        BY <1>2, <1>3, <4>1 DEF IsLast
      <4> QED BY <4>1, <4>2
    <3>2. Before(g) = Legal
      BY <3>1 DEF Before, Legal
    <3> QED BY <2>1, <2>2, <3>2 DEF Spills
  <2> QED BY <1>1, <1>5, <2>2 DEF AtLastRule, NoRule
<1> QED BY <1>4, <1>5

LEMMA LineOfRule ==
    ASSUME Types, Nested, Rooted, ReadLine, ProperLine(at + 1), InBlock, AtLastRule,
           outcome' # "undefined", Proper, RulesRecorded,
           path[0] = "rule", depth >= 1, file[at + 1].brace # "}"
    PROVE  /\ DOMAIN rules' = DOMAIN rules /\ Legal' = Legal
           /\ \A n \in DOMAIN rules :
                 \/ Spills(n)
                 \/ \A R : R = RuleLines(n)' =>
                       /\ rules'[n].settings = SettingsFrom(R)
                       /\ rules'[n].dist = DistFrom(R) /\ Closed(R)
           /\ \A n : n \in DOMAIN rules \/ n = 0 \/ RuleLines(n)' = {}
<1>0. PICK u \in Nat : u = at + 1
  BY NextLine
<1> DEFINE m == rule_iter
           o == NumOf(u, 1)
<1>1. outcome = "reading" /\ depth \in Nat
  BY Reading
<1>2. /\ DOMAIN rules = {Num(k) : k \in Legal}
      /\ \A n \in DOMAIN rules : Spills(n) \/ RuleRecorded(n)
      /\ \A n : n \in DOMAIN rules \/ n = 0 \/ RuleLines(n) = {}
      /\ NoRule \notin DOMAIN rules
  BY <1>1, NoRuleZero DEF RulesRecorded
<1>3. /\ DOMAIN rules' = DOMAIN rules
      /\ \A n \in DOMAIN rules : n # m => rules'[n] = rules[n]
      /\ m \in DOMAIN rules =>
           /\ rules'[m].settings =
                RuleSettings(rules[m].settings, Section(u), file[u].key, Name(u))
           /\ rules'[m].dist =
                IF IsShare(u) THEN Inserted(rules[m].dist, Name(u), 0)
                ELSE IF IsWeight(u)
                THEN [rules[m].dist EXCEPT ![NameOf(u, 2)] = Num(u)]
                ELSE rules[m].dist
           /\ IsWeight(u) => NameOf(u, 2) \in DOMAIN rules[m].dist
  BY <1>0, <1>2, RuleLineGives
<1>4. Legal' = Legal
  <2>1. RuleHeads' = RuleHeads /\ ~Stands(u, <<>>, {"rule"})
    BY <1>0, <1>1, NoHeadInside, Depths
  <2> QED BY <1>0, <2>1, LegalNext
<1>5. \/ o # 0 /\ m = o /\ o \in DOMAIN rules
      \/ o = 0 /\ (m = NoRule \/ Spills(m))
  BY <1>0, <1>2, WhoseLine
<1>6. \A n : RuleLines(n)' = IF o = n THEN RuleLines(n) \cup {u} ELSE RuleLines(n)
  BY <1>0, RuleLinesNext
<1> HIDE DEF m, o
<1>7. ASSUME NEW n \in DOMAIN rules, ~Spills(n), NEW Q, Q = RuleLines(n)'
      PROVE  /\ rules'[n].settings = SettingsFrom(Q)
             /\ rules'[n].dist = DistFrom(Q) /\ Closed(Q)
  <2> DEFINE R == RuleLines(n)
  <2>1. /\ rules[n].settings = SettingsFrom(R) /\ rules[n].dist = DistFrom(R)
        /\ Closed(R)
    BY <1>2, <1>7 DEF RuleRecorded
  <2>2. R \subseteq Nat /\ \A k \in R : k < u
    BY <1>0, RuleLinesAre
  <2> HIDE DEF R
  <2>3. CASE n # m
    <3>1. o # n
      <4>1. n # 0
        BY <1>2 DEF NoRule
      <4> QED BY <1>5, <2>3, <4>1
    <3> QED BY <1>3, <1>6, <1>7, <2>1, <2>3, <3>1 DEF R
  <2>4. CASE n = m
    <3>1. o = n
      BY <1>2, <1>5, <1>7, <2>4
    <3>2. Q = R \cup {u}
      BY <1>6, <1>7, <3>1 DEF R
    <3>3. SettingsFrom(R \cup {u}) =
             RuleSettings(SettingsFrom(R), Section(u), file[u].key, Name(u))
      BY <2>2, RuleSettingsNext
    <3>4. rules'[n].settings = SettingsFrom(Q)
      BY <1>3, <2>1, <2>4, <3>2, <3>3
    <3>5. CASE IsShare(u)
      <4>1. /\ DistFrom(R \cup {u}) = Inserted(DistFrom(R), Name(u), 0)
            /\ Closed(R \cup {u})
        BY <2>1, <3>5, DistOfShare
      <4>2. rules'[n].dist = Inserted(rules[n].dist, Name(u), 0)
        BY <1>3, <2>4, <3>5
      <4> QED BY <2>1, <3>2, <3>4, <4>1, <4>2
    <3>6. CASE ~IsShare(u) /\ IsWeight(u)
      <4>1. NameOf(u, 2) \in SharesOf(R)
        <5>1. NameOf(u, 2) \in DOMAIN DistFrom(R)
          BY <1>3, <2>1, <2>4, <3>6
        <5> QED BY <5>1 DEF DistFrom
      <4>2. /\ DistFrom(R \cup {u}) = [DistFrom(R) EXCEPT ![NameOf(u, 2)] = Num(u)]
            /\ Closed(R \cup {u})
        BY <2>1, <2>2, <3>6, <4>1, DistOfWeight
      <4>3. rules'[n].dist = [rules[n].dist EXCEPT ![NameOf(u, 2)] = Num(u)]
        BY <1>3, <2>4, <3>6
      <4> QED BY <2>1, <3>2, <3>4, <4>2, <4>3
    <3>7. CASE ~IsShare(u) /\ ~IsWeight(u)
      <4>1. DistFrom(R \cup {u}) = DistFrom(R) /\ Closed(R \cup {u})
        BY <2>1, <3>7, DistOfOther
      <4>2. rules'[n].dist = rules[n].dist
        BY <1>3, <2>4, <3>7
      <4> QED BY <2>1, <3>2, <3>4, <4>1, <4>2
    <3> QED BY <3>5, <3>6, <3>7
  <2> QED BY <2>3, <2>4
<1>8. ASSUME NEW n, n \notin DOMAIN rules, n # 0 PROVE RuleLines(n)' = {}
  <2>1. o # n
    BY <1>5, <1>8
  <2> QED BY <1>2, <1>6, <1>8, <2>1
<1> QED BY <1>3, <1>4, <1>7, <1>8


-----------------------------------------------------------------------------
LEMMA NoLineOfRule ==
    ASSUME Types, Nested, Rooted, ReadLine, ProperLine(at + 1), InBlock,
           outcome' # "undefined", Proper, RulesRecorded,
           ~(path[0] = "rule" /\ depth >= 1 /\ file[at + 1].brace # "}")
    PROVE  /\ DOMAIN rules' = {Num(k) : k \in Legal'}
           /\ \A n \in DOMAIN rules' :
                 \/ Spills(n)
                 \/ \A R : R = RuleLines(n)' =>
                       /\ rules'[n].settings = SettingsFrom(R)
                       /\ rules'[n].dist = DistFrom(R) /\ Closed(R)
           /\ \A n : n \in DOMAIN rules' \/ n = 0 \/ RuleLines(n)' = {}
<1>0. PICK u \in Nat : u = at + 1
  BY NextLine
<1>1. outcome = "reading" /\ depth \in Nat
  BY Reading
<1>2. /\ DOMAIN rules = {Num(k) : k \in Legal}
      /\ \A n \in DOMAIN rules : Spills(n) \/ RuleRecorded(n)
      /\ \A n : n \in DOMAIN rules \/ n = 0 \/ RuleLines(n) = {}
  BY <1>1 DEF RulesRecorded
<1>3. \A n : RuleLines(n)' = RuleLines(n)
  BY RuleLinesNext
<1>4. Legal' = IF Stands(u, <<>>, {"rule"}) /\ Num(u) # 0 THEN Legal \cup {u} ELSE Legal
  BY <1>0, LegalNext
<1>5. CASE ~Stands(u, <<>>, {"rule"})
  <2>1. path[0] = "rule" => depth <= 2 /\ (depth = 2 => path[1] \in RuleBlocks)
    BY <1>1, BlockPlaces
  <2>2. rules' = rules
    BY <1>0, <1>5, <2>1, OutsideRules
  <2> QED BY <1>2, <1>3, <1>4, <1>5, <2>2 DEF RuleRecorded
<1>6. CASE Stands(u, <<>>, {"rule"})
  <2>1. ProcessRule("rule", Name(u))
    BY <1>0, <1>6, RuleHeadIs DEF Stands
  <2>2. CASE Num(u) = 0
    <3>1. rules' = rules
      BY <2>1, <2>2 DEF ProcessRule, Num
    <3> QED BY <1>2, <1>3, <1>4, <2>2, <3>1 DEF RuleRecorded
  <2>3. CASE Num(u) # 0
    <3> DEFINE e == [settings |-> Empty, dist |-> Empty]
    <3>1. rules' = Inserted(rules, Num(u), e)
      BY <2>1, <2>3 DEF ProcessRule, Num
    <3> HIDE DEF e
    <3>2. /\ DOMAIN rules' = DOMAIN rules \cup {Num(u)}
          /\ \A n \in DOMAIN rules : rules'[n] = rules[n]
          /\ Num(u) \notin DOMAIN rules => rules'[Num(u)] = e
      <4>1. CASE Num(u) \in DOMAIN rules
        BY <3>1, <4>1 DEF Inserted
      <4>2. CASE Num(u) \notin DOMAIN rules
        BY <3>1, <4>2 DEF Inserted, Assigned
      <4> QED BY <4>1, <4>2
    <3>3. DOMAIN rules' = {Num(k) : k \in Legal'}
      BY <1>2, <1>4, <1>6, <2>3, <3>2
    <3>4. ASSUME NEW n \in DOMAIN rules', ~Spills(n), NEW R, R = RuleLines(n)'
          PROVE  /\ rules'[n].settings = SettingsFrom(R)
                 /\ rules'[n].dist = DistFrom(R) /\ Closed(R)
      <4>1. CASE n \in DOMAIN rules
        BY <1>2, <1>3, <3>2, <3>4, <4>1 DEF RuleRecorded
      <4>2. CASE n \notin DOMAIN rules
        <5>1. n = Num(u) /\ rules'[n] = e
          BY <3>2, <3>4, <4>2
        <5>2. R = {}
          BY <1>2, <1>3, <2>3, <3>4, <4>2, <5>1
        <5>3. e.settings = Empty /\ e.dist = Empty
          BY DEF e
        <5> QED BY <5>1, <5>2, <5>3, SettingsFromNothing, DistFromNothing
      <4> QED BY <4>1, <4>2
    <3> QED BY <1>2, <1>3, <3>2, <3>3, <3>4
  <2> QED BY <2>2, <2>3
<1> QED BY <1>5, <1>6

LEMMA ReadLineRules ==
    ASSUME Types, Nested, Rooted, ReadLine, RulesRecorded,
           Proper' => ProperLine(at + 1) /\ Proper /\ InBlock /\ AtLastRule
    PROVE  RulesRecorded'
<1> SUFFICES ASSUME Proper', outcome' # "undefined"
             PROVE  /\ DOMAIN rules' = {Num(k) : k \in Legal}'
                    /\ \A n \in DOMAIN rules' : Spills(n)' \/ RuleRecorded(n)'
                    /\ \A n : n \in DOMAIN rules' \/ n = 0 \/ RuleLines(n)' = {}
  BY DEF RulesRecorded
<1>1. file' = file /\ outcome = "reading"
  BY Reading
<1>2. \A k : Num(k)' = Num(k)
  BY <1>1, HeadsKept
<1>3. /\ DOMAIN rules' = {Num(k) : k \in Legal'}
      /\ \A n \in DOMAIN rules' :
            \/ Spills(n)
            \/ \A R : R = RuleLines(n)' =>
                  /\ rules'[n].settings = SettingsFrom(R)
                  /\ rules'[n].dist = DistFrom(R) /\ Closed(R)
      /\ \A n : n \in DOMAIN rules' \/ n = 0 \/ RuleLines(n)' = {}
  <2>1. CASE path[0] = "rule" /\ depth >= 1 /\ file[at + 1].brace # "}"
    <3>1. DOMAIN rules = {Num(k) : k \in Legal}
      BY <1>1 DEF RulesRecorded
    <3> QED BY <2>1, <3>1, LineOfRule
  <2>2. CASE ~(path[0] = "rule" /\ depth >= 1 /\ file[at + 1].brace # "}")
    BY <2>2, NoLineOfRule
  <2> QED BY <2>1, <2>2
<1>4. {Num(k) : k \in Legal}' = {Num(k) : k \in Legal'}
  BY <1>2
<1>5. ASSUME NEW n \in DOMAIN rules' PROVE Spills(n)' \/ RuleRecorded(n)'
  <2>1. CASE Spills(n)
    BY <2>1, SpillsNext
  <2>2. CASE ~Spills(n)
    <3> SUFFICES ASSUME NEW R, R = RuleLines(n)'
                 PROVE  /\ rules'[n].settings = SettingsFrom(R)'
                        /\ rules'[n].dist = DistFrom(R)' /\ Closed(R)'
      BY DEF RuleRecorded
    <3>1. SettingsFrom(R)' = SettingsFrom(R)
      BY <1>1, SettingsFromKept
    <3>2. DistFrom(R)' = DistFrom(R) /\ (Closed(R)' <=> Closed(R))
      BY <1>1, DistFromKept
    <3>3. /\ rules'[n].settings = SettingsFrom(R)
          /\ rules'[n].dist = DistFrom(R) /\ Closed(R)
      BY <1>3, <2>2
    <3> QED BY <3>1, <3>2, <3>3
  <2> QED BY <2>1, <2>2
<1> QED BY <1>3, <1>4, <1>5

(* Nothing the rules are of has changed. *)
LEMMA RulesStay ==
    ASSUME file' = file, at' = at, depth' = depth
    PROVE  /\ Proper' <=> Proper
           /\ RuleHeads' = RuleHeads /\ Legal' = Legal
           /\ \A k : Num(k)' = Num(k)
           /\ \A n : Spills(n)' <=> Spills(n)
           /\ \A n : RuleLines(n)' = RuleLines(n)
<1>1. \A k : Where(k)' = Where(k)
  BY LinesKept
<1>2. \A k : Num(k)' = Num(k)
  BY HeadsKept
<1>3. \A k : NumOf(k, 1)' = NumOf(k, 1)
  BY HeadsKept
<1>4. Proper' <=> Proper
  BY LinesStay
<1>5. RuleHeads' = RuleHeads
  BY <1>1 DEF RuleHeads, Lines, Read
<1>6. Illegal' = Illegal
  BY <1>2, <1>5 DEF Illegal
<1>7. Legal' = Legal
  BY <1>5, <1>6 DEF Legal
<1>8. \A k : Before(k)' = Before(k)
  BY <1>5, <1>6 DEF Before
<1>9. \A h, k : IsLast(h, Before(k))' <=> IsLast(h, Before(k))
  BY <1>8 DEF IsLast
<1>10. \A n : Spills(n)' <=> Spills(n)
  BY <1>2, <1>6, <1>8, <1>9 DEF Spills
<1>11. \A n : RuleLines(n)' = RuleLines(n)
  BY <1>1, <1>3 DEF RuleLines, Read
<1> QED BY <1>2, <1>4, <1>5, <1>7, <1>10, <1>11

LEMMA OtherRules ==
    ASSUME RulesRecorded, EndOfFile \/ UNCHANGED vars
    PROVE  RulesRecorded'
<1>1. /\ file' = file /\ at' = at /\ depth' = depth /\ rules' = rules
      /\ outcome' # "undefined" => outcome # "undefined"
  BY DEF EndOfFile, vars, data
<1>2. /\ Proper' <=> Proper
      /\ Legal' = Legal
      /\ \A k : Num(k)' = Num(k)
      /\ \A n : Spills(n)' <=> Spills(n)
      /\ \A n : RuleLines(n)' = RuleLines(n)
  BY <1>1, RulesStay
<1>3. \A R : SettingsFrom(R)' = SettingsFrom(R)
  BY <1>1, SettingsFromKept
<1>4. \A R : DistFrom(R)' = DistFrom(R)
  BY <1>1, DistFromKept
<1>5. \A R : Closed(R)' <=> Closed(R)
  BY <1>1, DistFromKept
<1>6. \A n : RuleRecorded(n)' <=> RuleRecorded(n)
  BY <1>1, <1>2, <1>3, <1>4, <1>5 DEF RuleRecorded
<1> QED BY <1>1, <1>2, <1>6 DEF RulesRecorded

-----------------------------------------------------------------------------
Ruled ==
    /\ Safe /\ RulesRecorded
    /\ outcome = "reading" /\ Proper => InBlock /\ AtLastRule

LEMMA InitRuled == Init => RulesRecorded /\ InBlock /\ AtLastRule
<1> SUFFICES ASSUME Init PROVE RulesRecorded /\ InBlock /\ AtLastRule
  OBVIOUS
<1>1. depth = 0 /\ at = 0 /\ DOMAIN rules = {} /\ rule_iter = NoRule
  BY DEF Init, Empty
<1>2. ~(0 >= 1) /\ 1..0 = {}
  OBVIOUS
<1>3. Legal = {} /\ \A n : RuleLines(n) = {}
  BY <1>1, <1>2 DEF Legal, RuleHeads, Lines, RuleLines, Read
<1>4. {Num(k) : k \in {}} = {}
  OBVIOUS
<1> QED BY <1>1, <1>2, <1>3, <1>4 DEF RulesRecorded, InBlock, AtLastRule

LEMMA RuledInductive == Ruled /\ [Next]_vars => Ruled'
<1> SUFFICES ASSUME Ruled, [Next]_vars PROVE Ruled'
  OBVIOUS
<1>1. Safe' /\ Types /\ Nested /\ Rooted /\ RulesRecorded
  BY SafeInductive DEF Ruled, Safe
<1>2. CASE ReadLine
  <2>1. outcome = "reading"
    BY <1>2 DEF ReadLine
  <2>2. ASSUME Proper'
        PROVE  ProperLine(at + 1) /\ Proper /\ InBlock /\ AtLastRule
    BY <1>1, <1>2, <2>1, <2>2, NextHeads DEF Ruled
  <2>3. RulesRecorded'
    BY <1>1, <1>2, <2>2, ReadLineRules
  <2>4. ASSUME outcome' = "reading", Proper' PROVE InBlock' /\ AtLastRule'
    <3>1. NoRule \notin DOMAIN rules
      BY <1>1, <2>1, <2>2, <2>4, NoRuleZero DEF RulesRecorded
    <3>2. outcome' # "undefined"
      BY <2>4
    <3> QED BY <1>1, <1>2, <2>2, <2>4, <3>1, <3>2, InBlockNext, LastRuleNext
  <2> QED BY <1>1, <2>3, <2>4 DEF Ruled
<1>3. CASE EndOfFile
  <2>1. outcome' # "reading"
    BY <1>3 DEF EndOfFile
  <2> QED BY <1>1, <1>3, <2>1, OtherRules DEF Ruled
<1>4. CASE UNCHANGED vars
  <2>1. /\ file' = file /\ at' = at /\ depth' = depth /\ outcome' = outcome
        /\ path' = path /\ rule_iter' = rule_iter
        /\ rule_iface_iter' = rule_iface_iter
    BY <1>4 DEF vars, iters
  <2>2. /\ Proper' <=> Proper
        /\ RuleHeads' = RuleHeads /\ Legal' = Legal
        /\ \A k : Num(k)' = Num(k)
    BY <2>1, RulesStay
  <2>3. Open' = Open
    BY <2>1, OpenSame
  <2>4. (Name(Open[at][2]))' = Name(Open[at][2])
    BY <2>1, <2>3 DEF Name
  <2>5. IsLast(Open[at][1], RuleHeads)' <=> IsLast(Open[at][1], RuleHeads)
    BY <2>1, <2>2, <2>3 DEF IsLast
  <2>6. InBlock' <=> InBlock
    BY <2>1, <2>4, <2>5 DEF InBlock
  <2>7. \A h : IsLast(h, Legal)' <=> IsLast(h, Legal)
    BY <2>2 DEF IsLast
  <2>8. AtLastRule' <=> AtLastRule
    BY <2>1, <2>2, <2>7 DEF AtLastRule
  <2> QED BY <1>1, <1>4, <2>1, <2>2, <2>6, <2>8, OtherRules DEF Ruled
<1> QED BY <1>2, <1>3, <1>4 DEF Next

LEMMA RuledGives == Ruled => RulesAsWritten
<1> SUFFICES ASSUME Ruled, Proper, outcome # "undefined"
             PROVE  /\ DOMAIN rules = {Num(k) : k \in RuleHeads \ Illegal}
                    /\ \A n \in DOMAIN rules :
                          \/ \E k \in Illegal : Before(k) # {} /\ Num(Max(Before(k))) = n
                          \/ /\ rules[n].settings = SettingsMeant(n)
                             /\ rules[n].dist = DistMeant(n)
  BY DEF RulesAsWritten
<1>1. /\ DOMAIN rules = {Num(k) : k \in Legal}
      /\ \A n \in DOMAIN rules : Spills(n) \/ RuleRecorded(n)
  BY DEF Ruled, RulesRecorded
<1>2. ASSUME NEW n, Spills(n)
      PROVE  \E k \in Illegal : Before(k) # {} /\ Num(Max(Before(k))) = n
  <2>1. PICK k \in Illegal : \E h \in Before(k) : IsLast(h, Before(k)) /\ Num(h) = n
    BY <1>2 DEF Spills
  <2>2. PICK h \in Before(k) : IsLast(h, Before(k)) /\ Num(h) = n
    BY <2>1
  <2>3. Before(k) \subseteq Nat
    BY LinesAre DEF Before, RuleHeads, Ruled, Safe
  <2>4. Max(Before(k)) = h
    BY <2>2, <2>3, MaxIs DEF IsLast
  <2> QED BY <2>2, <2>4
<1>3. ASSUME NEW n \in DOMAIN rules, RuleRecorded(n)
      PROVE  rules[n].settings = SettingsMeant(n) /\ rules[n].dist = DistMeant(n)
  <2> DEFINE R == RuleLines(n)
  <2>1. rules[n].settings = SettingsFrom(R) /\ rules[n].dist = DistFrom(R)
    BY <1>3 DEF RuleRecorded
  <2>2. SettingsFrom(R) = SettingsMeant(n)
    BY DEF SettingsFrom, SettingsMeant, OnOf, TakenOf, Switches, Switch, Spot, IsTaken
  <2>3. {Name(k) : k \in Lines(<<"rule">>, {"interface"}) \cap RuleLines(n)} = SharesOf(R)
    <3>1. \A k \in R : k \in Lines(<<"rule">>, {"interface"}) <=> IsShare(k)
      BY DEF RuleLines, Lines, IsShare
    <3> QED BY <3>1 DEF SharesOf
  <2>4. \A i : WeightsOf(R, i) =
           {k \in RuleLines(n) :
              /\ Where(k) = <<"rule", "interface">> /\ NameOf(k, 2) = i
              /\ file[k].key = "weight" /\ Num(k) > 0}
    BY DEF WeightsOf, IsWeight
  <2>5. DistFrom(R) = DistMeant(n)
    BY <2>3, <2>4 DEF DistFrom, DistMeant
  <2> QED BY <2>1, <2>2, <2>5
<1> QED BY <1>1, <1>2, <1>3 DEF Legal

(* In a file whose blocks stand where they belong there is a rule for      *)
(* every legal rule number, and it has at every line the settings and the  *)
(* weights that its own blocks say, unless a rule with an illegal number   *)
(* follows it: the iterator stays and the settings of that one spill in.   *)
THEOREM RulesTheorem == Spec => []RulesAsWritten
<1>1. Init => Ruled
  BY InitTypes, InitNested, InitGuided, InitRuled DEF Ruled, Safe
<1> QED BY <1>1, RuledInductive, RuledGives, PTL DEF Spec
=============================================================================
