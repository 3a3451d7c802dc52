--------------------------- MODULE LBDataFactory ---------------------------
(***************************************************************************)
(* LBDataFactory::load reads wlb.conf line by line and keeps, beside the   *)
(* data it builds, iterators into it: the interface, test and rule that    *)
(* the next settings are for.                                              *)
(*                                                                         *)
(* A line is a heading (key value "{"), a setting (key value) or a closing *)
(* brace; comments, blank lines and the splitting into words are gone.     *)
(* Settings are recorded as key and value where the code assigns fields;   *)
(* fields never assigned keep the defaults of their class.                 *)
(***************************************************************************)
EXTENDS Integers, Sequences, FiniteSets, FiniteSetsExt, SequencesExt

CONSTANTS
    Files,      \* the files explored, sequences of lines
    MaxDepth,   \* the last index of path (31)
    Lower,      \* tolower on the values, a function
    Number      \* strtoul on the values, a function: 0 for a word

Values == DOMAIN Lower
Brace  == {"", "{", "}"}

(* Values the code compares with. *)
Known  == [type     |-> {"ping", "udp", "user-defined"},
           protocol |-> {"all", "icmp", "udp", "tcp"},
           period   |-> {"second", "minute", "hour"}]

ASSUME FactoryAssumption ==
    /\ MaxDepth \in Nat \ {0}
    /\ Lower \in [Values -> Values] /\ Number \in [Values -> Nat]
    /\ \A v \in Values : Lower[Lower[v]] = Lower[v]
    /\ "" \in Values /\ Lower[""] = "" /\ Number[""] = 0
    /\ \A f \in Files :
          /\ f \in Seq(Range(f))
          /\ \A k \in DOMAIN f : /\ f[k].value \in Values /\ f[k].brace \in Brace
                                 /\ f[k].key = "" => f[k].value = ""

VARIABLES
    file,       \* the file read
    at,         \* lines read so far
    outcome,    \* "reading", "loaded", "failed", or "undefined": an iterator
                \* or a cast the language gives no meaning to was used
    depth,      \* braces open
    path,       \* the keys on the way to this line
    index,      \* _interface_index
    number,     \* _current_test_rule_number
    health_iter, test_iter, rule_iter, rule_iface_iter,
    globals,    \* the top-level settings
    health,     \* _iface_health_coll
    rules       \* _lb_rule_coll

iters == <<health_iter, test_iter, rule_iter, rule_iface_iter>>
data  == <<globals, health, rules>>
vars  == <<file, at, outcome, depth, path, index, number, iters, data>>

(* Iterators that were never assigned, to an interface, to a rule, and to  *)
(* one of the entries of either.                                           *)
NoIface == ""
NoRule  == 0
Unset   == <<>>

(* Map::insert leaves an entry there is; assignment replaces it. *)
Assigned(f, k, v) ==
    [x \in DOMAIN f \cup {k} |-> IF x = k THEN v ELSE f[x]]
Inserted(f, k, v) == IF k \in DOMAIN f THEN f ELSE Assigned(f, k, v)

Empty == [x \in {} |-> ""]

Init ==
    /\ file \in Files
    /\ at = 0
    /\ outcome = "reading"
    /\ depth = 0
    /\ path = [d \in 0..MaxDepth |-> ""]
    /\ index = 0
    /\ number = 0
    /\ health_iter = NoIface /\ test_iter = Unset
    /\ rule_iter = NoRule /\ rule_iface_iter = Unset
    /\ globals = Empty /\ health = Empty /\ rules = Empty

-----------------------------------------------------------------------------
(* An action of the parser that cannot be given a meaning. *)
Undefined ==
    outcome' = "undefined" /\ UNCHANGED <<index, number, iters, data>>

(* The check of the depth after the line, which ends the reading, and one  *)
(* that forgets a brace too many.                                          *)
BadDepthAbove(d) == d > MaxDepth
BadDepth(d) == d > MaxDepth \/ d < 0

Goes == outcome' = IF BadDepth(depth') THEN "failed" ELSE "reading"

Ignored == Goes /\ UNCHANGED <<index, number, iters, data>>

(* process_disablesourcenat, _enablelocaltraffic, _stickyinboundconnec-    *)
(* tions, _flushconntrack and _hook.                                       *)
ProcessGlobal(key, value) ==
    /\ Goes
    /\ globals' = Assigned(globals, key, value)
    /\ UNCHANGED <<index, number, iters, health, rules>>

(* process_health: the interface is looked up under the word "interface",  *)
(* never found, so a repeated one takes a number of its own; what is       *)
(* inserted first stays.  The slips: the iterator moves only for a new     *)
(* interface; the index does not.                                          *)
NewInterface(value, n) ==
    /\ health' = Inserted(health, value,
                          [index |-> n, settings |-> Empty, tests |-> Empty])
    /\ UNCHANGED <<number, test_iter, rule_iter, rule_iface_iter, globals,
                   rules>>

ProcessHealthIfNew(value) ==
    /\ Goes
    /\ IF value = "" THEN UNCHANGED <<index, number, iters, data>>
       ELSE /\ index' = index + 1
            /\ NewInterface(value, index')
            /\ health_iter' = IF value \in DOMAIN health THEN health_iter
                              ELSE value

ProcessHealthOneIndex(value) ==
    /\ Goes
    /\ IF value = "" THEN UNCHANGED <<index, number, iters, data>>
       ELSE /\ index' = 1
            /\ NewInterface(value, index')
            /\ health_iter' = value

ProcessHealth(value) ==
    /\ Goes
    /\ IF value = "" THEN UNCHANGED <<index, number, iters, data>>
       ELSE /\ index' = index + 1
            /\ NewInterface(value, index')
            /\ health_iter' = value

(* process_health_interface: thresholds must be positive. *)
HealthSetting(key, value) ==
    \/ key = "nexthop"
    \/ key \in {"success-ct", "failure-ct"} /\ Number[value] > 0

ProcessHealthInterface(key, value) ==
    IF ~HealthSetting(key, value) THEN Ignored
    ELSE IF health_iter = NoIface THEN Undefined
    ELSE /\ Goes
         /\ health' = [health EXCEPT ![health_iter].settings =
                         Assigned(@, key, value)]
         /\ UNCHANGED <<index, number, iters, globals, rules>>

(* process_health_interface_rule, for every line at this depth: the brace  *)
(* that closes a test sets the number to 0.                                *)
ProcessHealthRule(value) ==
    /\ Goes
    /\ number' = Number[value]
    /\ UNCHANGED <<index, iters, data>>

(* process_health_interface_rule_type.  An iterator to a test is the       *)
(* interface and the number; with no such test it is end().  The slip      *)
(* looks the test up only for a type it knows.                             *)
ProcessTypeIfKnown(value) ==
    IF health_iter = NoIface THEN Undefined
    ELSE IF value \notin Known.type THEN Ignored
    ELSE /\ Goes
         /\ health' = [health EXCEPT ![health_iter].tests =
                         Inserted(@, number, [type |-> value, settings |-> Empty])]
         /\ test_iter' = <<health_iter, number>>
         /\ UNCHANGED <<index, number, health_iter, rule_iter,
                        rule_iface_iter, globals, rules>>

ProcessType(value) ==
    IF health_iter = NoIface THEN Undefined
    ELSE /\ Goes
         /\ health' =
              IF value \notin Known.type THEN health
              ELSE [health EXCEPT ![health_iter].tests =
                      Inserted(@, number,
                               [type |-> value, settings |-> Empty])]
         /\ test_iter' = <<health_iter, number>>
         /\ UNCHANGED <<index, number, health_iter, rule_iter,
                        rule_iface_iter, globals, rules>>

(* The settings of a test, and the type an object must have for them. *)
TestSettings == {"target", "resp-time", "ttl", "port", "test-script"}
Fits(key, type) ==
    /\ key \in {"ttl", "port"} => type = "udp"
    /\ key = "test-script" => type = "user-defined"

(* process_health_interface_rule_type_target, _resptime, _udp and _user:   *)
(* the iterator is compared with the end() of the current interface, and   *)
(* the test is cast to the type the key belongs to.                        *)
ProcessTestSetting(key, value) ==
    IF health_iter = NoIface \/ test_iter = Unset THEN Undefined
    ELSE LET i == test_iter[1]
             n == test_iter[2]
             exists == n \in DOMAIN health[i].tests
         IN IF ~exists /\ i = health_iter THEN Ignored
            ELSE IF ~exists \/ ~Fits(key, health[i].tests[n].type)
            THEN Undefined
            ELSE /\ Goes
                 /\ health' = [health EXCEPT ![i].tests[n].settings =
                                 Assigned(@, key, value)]
                 /\ UNCHANGED <<index, number, iters, globals, rules>>

(* The branch for "health" in LBDataFactory::process. *)
ProcessHealthLine(d, key, value) ==
    IF d = 2 /\ key = "interface" THEN ProcessHealth(value)
    ELSE IF d = 2 THEN ProcessHealthInterface(key, value)
    ELSE IF d = 3 THEN ProcessHealthRule(value)
    ELSE IF d = 4 /\ key = "type" THEN ProcessType(value)
    ELSE IF d = 4 /\ key \in TestSettings THEN ProcessTestSetting(key, value)
    ELSE Ignored

-----------------------------------------------------------------------------
(* process_rule: an illegal number leaves _rule_iter where it was.         *)
ProcessRule(key, value) ==
    /\ Goes
    /\ IF key = "" \/ Number[value] = 0
       THEN UNCHANGED <<rules, rule_iter>>
       ELSE /\ rules' = Inserted(rules, Number[value],
                                 [settings |-> Empty, dist |-> Empty])
            /\ rule_iter' = Number[value]
    /\ UNCHANGED <<index, number, health_iter, test_iter, rule_iface_iter,
                   globals, health>>

(* Which lines of a section of a rule are recorded, and with which value.  *)
(* Every line of a limit section turns the limit on.                       *)
Flags == {"exclude", "failover", "per-packet-balancing"}
EndPoint == {"address", "port-ipt", "port"}
Accepted(section, key, value) ==
    CASE section \in {"source", "destination"} -> key \in EndPoint
      [] section = "inbound-interface" -> key = section
      [] section = "protocol" -> key = section /\ value \in Known.protocol
      [] section = "limit" -> \/ key \in {"burst", "rate", "threshold"}
                              \/ key = "period" /\ value \in Known.period
      [] OTHER -> FALSE

RuleSettings(old, section, key, value) ==
    LET on == IF section \in Flags \cup {"limit"}
              THEN Assigned(old, <<section, "on">>, "true") ELSE old
    IN  IF Accepted(section, key, value)
        THEN Assigned(on, <<section, key>>, value) ELSE on

(* process_rule_source, _destination, _inbound_interface, _protocol,       *)
(* _exclude, _failover, _enablesourcebasedrouting and _limit: _rule_iter   *)
(* is compared with end(), which it never is, and not with nothing.        *)
ProcessRuleSection(section, key, value) ==
    IF rule_iter = NoRule
    THEN /\ IF Accepted(section, key, value) \/ section \in Flags \cup {"limit"}
            THEN Undefined ELSE Ignored
    ELSE /\ Goes
         /\ rules' = [rules EXCEPT ![rule_iter].settings =
                        RuleSettings(@, section, key, value)]
         /\ UNCHANGED <<index, number, iters, globals, health>>

(* process_rule_interface. *)
ProcessRuleInterface(key, value) ==
    IF key = "interface"
    THEN IF rule_iter = NoRule THEN Undefined
         ELSE /\ Goes
              /\ rules' = [rules EXCEPT ![rule_iter].dist =
                             Inserted(@, value, 0)]
              /\ rule_iface_iter' = <<rule_iter, value>>
              /\ UNCHANGED <<index, number, health_iter, test_iter, rule_iter,
                             globals, health>>
    ELSE IF key = "weight" /\ Number[value] > 0
    THEN IF rule_iface_iter = Unset THEN Undefined
         ELSE /\ Goes
              /\ rules' = [rules EXCEPT
                   ![rule_iface_iter[1]].dist[rule_iface_iter[2]] =
                     Number[value]]
              /\ UNCHANGED <<index, number, iters, globals, health>>
    ELSE Ignored

Sections == {"source", "destination", "inbound-interface", "protocol"} \cup Flags

(* The branch for "rule" in LBDataFactory::process. *)
ProcessRuleLine(d, section, key, value) ==
    IF d > 1 /\ section = "interface" THEN ProcessRuleInterface(key, value)
    ELSE IF (d > 0 /\ section \in Sections) \/ (d > 1 /\ section = "limit")
    THEN ProcessRuleSection(section, key, value)
    ELSE ProcessRule(key, value)

Process(p, d, key, value) ==
    CASE p[0] \in {"disable-source-nat", "enable-local-traffic",
                   "flush-conntrack"} -> ProcessGlobal(p[0], "true")
      [] p[0] = "sticky-connections" /\ value = "inbound" ->
            ProcessGlobal(p[0], value)
      [] p[0] = "hook" /\ value # "" -> ProcessGlobal(p[0], value)
      [] p[0] = "health" -> ProcessHealthLine(d, key, value)
      [] p[0] = "rule" -> ProcessRuleLine(d, p[1], key, value)
      [] OTHER -> Ignored

-----------------------------------------------------------------------------
(* The words of a line: the path, and the depth after its brace.  The slip *)
(* leaves the key of a closed block in the path.                           *)
PathKept(line) ==
    IF line.brace = "}" THEN path ELSE [path EXCEPT ![depth] = line.key]
PathAfter(line) ==
    [path EXCEPT ![depth] = IF line.brace = "}" THEN "" ELSE line.key]
DepthAfter(line) ==
    CASE line.brace = "{" -> depth + 1
      [] line.brace = "}" -> depth - 1
      [] OTHER -> depth

(* One turn of the loop in load. *)
ReadLine ==
    /\ outcome = "reading" /\ at < Len(file)
    /\ LET line == file[at + 1] IN
       /\ at' = at + 1
       /\ path' = PathAfter(line)
       /\ depth' = DepthAfter(line)
       /\ Process(path', depth', line.key, Lower[line.value])
    /\ UNCHANGED file

(* The end of load: an interface without tests is given a ping, unless a   *)
(* brace is missing; the data is used all the same (set_conf).             *)
EndOfFile ==
    /\ outcome = "reading" /\ at = Len(file)
    /\ IF depth # 0 THEN outcome' = "failed" /\ UNCHANGED health
       ELSE /\ outcome' = "loaded"
            /\ health' = [i \in DOMAIN health |->
                 IF DOMAIN health[i].tests # {} THEN health[i]
                 ELSE [health[i] EXCEPT !.tests =
                         Assigned(@, 1, [type |-> "ping", settings |-> Empty])]]
    /\ UNCHANGED <<file, at, depth, path, index, number, iters, globals, rules>>

Next == ReadLine \/ EndOfFile

Spec == Init /\ [][Next]_vars

-----------------------------------------------------------------------------
(* What the lines read so far say, from the way the braces enclose them    *)
(* and without an iterator.                                                *)
Read == 1..at

(* The headings of the blocks open after k lines. *)
Open[k \in Nat] ==
    IF k = 0 THEN <<>>
    ELSE LET outer == Open[k - 1] IN
         CASE file[k].brace = "{" -> Append(outer, k)
           [] file[k].brace = "}" /\ outer # <<>> -> Front(outer)
           [] OTHER -> outer

Heads(k)  == Open[k - 1]
Where(k)  == [j \in DOMAIN Heads(k) |-> file[Heads(k)[j]].key]
Name(k)   == Lower[file[k].value]
Num(k)    == Number[Name(k)]
NameOf(k, j) == Name(Heads(k)[j])
NumOf(k, j)  == Num(Heads(k)[j])

Lines(where, keys) ==
    {k \in Read : file[k].brace # "}" /\ file[k].key \in keys /\ Where(k) = where}

(* The last value given to each key by the lines K. *)
LastOf(K) ==
    [key \in {file[k].key : k \in K} |->
        Name(Max({k \in K : file[k].key = key}))]

InIface == <<"health", "interface">>
InTest  == InIface \o <<"rule">>
InType  == InTest \o <<"type">>

(* The headings and settings wlb.conf is made of, by where they stand. *)
Headings ==
    [where : {<<>>}, key : {"health", "rule"}]
    \cup [where : {<<"health">>}, key : {"interface"}]
    \cup [where : {InIface}, key : {"rule"}]
    \cup [where : {InTest}, key : {"type"}]
    \cup [where : {<<"rule">>},
          key : {"source", "destination", "limit", "interface"}]
Settings ==
    [where : {<<>>}, key : {"hook", "disable-source-nat", "flush-conntrack",
                            "enable-local-traffic", "sticky-connections"}]
    \cup [where : {InIface}, key : {"nexthop", "success-ct", "failure-ct"}]
    \cup [where : {InType}, key : TestSettings]
    \cup [where : {<<"rule">>}, key : {"inbound-interface", "protocol"} \cup Flags]
    \cup [where : {<<"rule", "source">>, <<"rule", "destination">>},
          key : EndPoint]
    \cup [where : {<<"rule", "limit">>},
          key : {"burst", "rate", "period", "threshold"}]
    \cup [where : {<<"rule", "interface">>}, key : {"weight"}]

(* Headings and settings stand where they belong, every block of an        *)
(* interface says which, and a closing brace stands alone.                 *)
ProperLine(k) ==
    LET line == [where |-> Where(k), key |-> file[k].key]
    IN  CASE file[k].brace = "{" -> /\ line \in Headings
                                    /\ line.where = <<"health">> => Name(k) # ""
          [] file[k].brace = ""  -> line \in Settings
          [] file[k].brace = "}" -> file[k].key = ""

Proper == depth >= 0 /\ \A k \in Read : ProperLine(k)

IfaceHeads == Lines(<<"health">>, {"interface"})
TypeHeads  == Lines(InTest, {"type"})
RuleHeads  == Lines(<<>>, {"rule"})

(* The first known type test n of interface i is given makes it, and the   *)
(* settings from there on are its settings.                                *)
TypesOf(i) == {k \in TypeHeads : NameOf(k, 2) = i /\ Name(k) \in Known.type}
TestLines(i, n) ==
    {k \in Lines(InType, TestSettings) : NameOf(k, 2) = i /\ NumOf(k, 3) = n}

TestsMeant(i) ==
    LET first(n) == Min({k \in TypesOf(i) : NumOf(k, 3) = n})
    IN  IF TypesOf(i) = {} /\ outcome = "loaded"
        THEN [n \in {1} |-> [type |-> "ping", settings |-> Empty]]
        ELSE [n \in {NumOf(k, 3) : k \in TypesOf(i)} |->
               [type |-> Name(first(n)),
                settings |-> LastOf({k \in TestLines(i, n) : k > first(n)})]]

HealthMeant(i) ==
    LastOf({k \in Lines(InIface, {"nexthop", "success-ct", "failure-ct"}) :
              NameOf(k, 2) = i /\ HealthSetting(file[k].key, Name(k))})

(* The lines of rule n, and the section each belongs to. *)
RuleLines(n) ==
    {k \in Read : /\ file[k].brace # "}" /\ Where(k) # <<>>
                  /\ Where(k)[1] = "rule" /\ NumOf(k, 1) = n}
Section(k) == IF Len(Where(k)) > 1 THEN Where(k)[2] ELSE file[k].key

SettingsMeant(n) ==
    LET taken == {k \in RuleLines(n) :
                    Accepted(Section(k), file[k].key, Name(k))}
        on == {<<Section(k), "on">> : k \in {x \in RuleLines(n) :
                  Section(x) \in Flags \cup {"limit"}}}
    IN  [s \in on \cup {<<Section(k), file[k].key>> : k \in taken} |->
           IF s \in on THEN "true"
           ELSE Name(Max({k \in taken : <<Section(k), file[k].key>> = s}))]

DistMeant(n) ==
    LET weights(i) == {k \in RuleLines(n) :
            /\ Where(k) = <<"rule", "interface">> /\ NameOf(k, 2) = i
            /\ file[k].key = "weight" /\ Num(k) > 0}
    IN  [i \in {Name(k) : k \in Lines(<<"rule">>, {"interface"}) \cap RuleLines(n)}
           |-> IF weights(i) = {} THEN 0 ELSE Num(Max(weights(i)))]

Illegal == {k \in RuleHeads : Num(k) = 0}
Before(k) == {h \in RuleHeads \ Illegal : h < k}

-----------------------------------------------------------------------------
TypeOK ==
    /\ outcome \in {"reading", "loaded", "failed", "undefined"}
    /\ outcome = "reading" => depth \in 0..MaxDepth
    /\ index \in Nat /\ number \in Nat
    /\ health_iter \in DOMAIN health \cup {NoIface}
    /\ rule_iter \in DOMAIN rules \cup {NoRule}
    /\ test_iter # Unset => test_iter[1] \in DOMAIN health
    /\ rule_iface_iter # Unset =>
          /\ rule_iface_iter[1] \in DOMAIN rules
          /\ rule_iface_iter[2] \in DOMAIN rules[rule_iface_iter[1]].dist
    /\ \A i \in DOMAIN health :
          \A n \in DOMAIN health[i].tests :
             health[i].tests[n].type \in Known.type

(* Whatever line the file ends after, and whether load succeeds or not,    *)
(* every interface has the thresholds, next hop and tests that the lines   *)
(* of its own blocks give it (the values in lower case): the iterators and *)
(* the test number, which the closing brace of a test resets, never credit *)
(* a line to another interface or test.  Every block of a test has one     *)
(* type.                                                                   *)
HealthAsWritten ==
    Proper /\ outcome # "undefined" =>
        /\ DOMAIN health = {Name(k) : k \in IfaceHeads}
        /\ \A i \in DOMAIN health :
              /\ health[i].settings = HealthMeant(i)
              /\ (\A x, y \in TypeHeads : x # y => Heads(x)[3] # Heads(y)[3])
                    => health[i].tests = TestsMeant(i)

(* There is a rule for every legal rule number, and every rule has the     *)
(* settings and weights of its own blocks, except for one that a rule with *)
(* an illegal number follows: into that one its settings spill.            *)
RulesAsWritten ==
    Proper /\ outcome # "undefined" =>
        /\ DOMAIN rules = {Num(k) : k \in RuleHeads \ Illegal}
        /\ \A n \in DOMAIN rules :
              \/ \E k \in Illegal : Before(k) # {} /\ Num(Max(Before(k))) = n
              \/ /\ rules[n].settings = SettingsMeant(n)
                 /\ rules[n].dist = DistMeant(n)

(* Two interfaces never share the index their mark, table and chains are   *)
(* named after, in no file however its lines are mangled; and unless they  *)
(* are, the indices follow the order of the file although a repeated       *)
(* interface takes one it does not use.                                    *)
IndexPerInterface ==
    \A i, j \in DOMAIN health : i # j =>
        /\ health[i].index # health[j].index
        /\ Proper =>
             (health[i].index < health[j].index <=>
                Min({k \in IfaceHeads : Name(k) = i})
                  < Min({k \in IfaceHeads : Name(k) = j}))

(* The number the type heading t is read under: that of its block, or the  *)
(* 0 that the brace closing another type of the block leaves.              *)
Given(t) ==
    IF \E x \in TypeHeads : x < t /\ Heads(x)[3] = Heads(t)[3]
    THEN 0 ELSE NumOf(t, 3)

(* As long as blocks stand where they belong the parser uses no unset      *)
(* iterator and no wrong cast, unless the first rule has an illegal number *)
(* or a setting does not fit the type its very test was made of: the first *)
(* known type that its interface gives under the number it is read under.  *)
UndefinedNeedsMisfit ==
    Proper /\ outcome = "undefined" =>
        \/ \E k \in Illegal : Before(k) = {}
        \/ \E k \in Lines(InType, TestSettings) :
              LET made == {t \in TypesOf(NameOf(k, 2)) :
                             Given(t) = Given(Heads(k)[4])}
              IN  made # {} /\ ~Fits(file[k].key, Name(Min(made)))
=============================================================================
