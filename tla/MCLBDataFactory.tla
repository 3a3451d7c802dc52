-------------------------- MODULE MCLBDataFactory --------------------------
(* LBDataFactory for TLC: files with every kind of section, with sections  *)
(* repeated and settings rejected, and each of some with one line lost or  *)
(* doubled.                                                                *)
EXTENDS LBDataFactory

MCValues == {"", "0", "1", "2", "10", "eth0", "Eth1", "eth1", "ping", "udp",
             "user-defined", "http", "inbound", "tcp", "x", "hour"}
MCLower  == [v \in MCValues |-> IF v = "Eth1" THEN "eth1" ELSE v]
MCNumber == [v \in MCValues |->
    CASE v = "1" -> 1 [] v = "2" -> 2 [] v = "10" -> 10 [] OTHER -> 0]

Set(k, v) == <<[key |-> k, value |-> v, brace |-> ""]>>
Block(k, v, body) ==
    <<[key |-> k, value |-> v, brace |-> "{"]>> \o body
    \o <<[key |-> "", value |-> "", brace |-> "}"]>>

(* The bodies of interfaces and rules. *)
Test(n, type, body) == Block("rule", n, Block("type", type, body))
IfaceBodies ==
    {<<>>,
     Set("failure-ct", "2") \o Set("nexthop", "x") \o Set("failure-ct", "0"),
     Test("10", "ping", Set("target", "x")) \o
       Test("2", "udp", Set("ttl", "1") \o Set("resp-time", "2")),
     Test("10", "user-defined", Set("test-script", "x")) \o Set("success-ct", "2"),
     Test("10", "http", Set("target", "1")) \o Test("1", "ping", <<>>),
     Test("1", "ping", Set("ttl", "1")),
     Block("rule", "10", Block("type", "ping", Set("target", "x")) \o
                         Block("type", "udp", Set("port", "2"))),
     Block("rule", "10", Block("type", "udp", <<>>) \o Block("type", "ping", <<>>)) \o
       Block("rule", "2", Block("type", "udp", <<>>) \o
                          Block("type", "udp", Set("ttl", "1")))}
RuleBodies ==
    {Set("exclude", ""),
     Block("interface", "eth0", Set("weight", "2")) \o
       Block("interface", "Eth1", Set("weight", "0")),
     Block("source", "", Set("address", "x") \o Set("port", "1")) \o
       Block("interface", "eth1", Set("weight", "10")) \o Set("failover", ""),
     Set("protocol", "tcp") \o Set("inbound-interface", "eth0") \o
       Set("protocol", "x"),
     Block("limit", "", Set("rate", "1") \o Set("period", "hour")) \o
       Block("destination", "", Set("port-ipt", "2"))}

Health(a, b, x, y) ==
    Block("health", "", Block("interface", a, x) \o Block("interface", b, y))

HealthFiles ==
    {Set("disable-source-nat", "") \o Health("eth0", b, x, y) \o
       Set("sticky-connections", "inbound") :
       b \in {"eth0", "Eth1"}, x \in IfaceBodies, y \in IfaceBodies}
RuleFiles ==
    {Health("Eth1", "eth0", <<>>, <<>>) \o Block("rule", n, x) \o
       Block("rule", m, y) \o Set("hook", "x") :
       n \in {"0", "1"}, m \in {"0", "1", "2"}, x \in RuleBodies, y \in RuleBodies}

(* An interface and a rule come back after another one.                    *)
ReturnFiles ==
    {Block("health", "", Block("interface", "eth0", x) \o
        Block("interface", "eth1", y) \o Block("interface", "eth0", y)) \o
       Block("rule", "1", z) \o Block("rule", "2", z) \o Block("rule", "1", w) :
       x \in {b \in IfaceBodies : Len(b) = 3}, y \in {b \in IfaceBodies : Len(b) = 6},
       z \in {b \in RuleBodies : Len(b) < 4}, w \in RuleBodies}

(* Both sections in one file, and what becomes of it when a line is lost   *)
(* or comes twice.                                                         *)
Whole ==
    {Health("eth0", "eth1", x, y) \o Block("rule", "1", z) \o
       Block("rule", "2", z) :
       x \in {b \in IfaceBodies : Len(b) > 7}, y \in {b \in IfaceBodies : Len(b) = 3},
       z \in {b \in RuleBodies : Len(b) > 5}}
Mangled ==
    UNION {{RemoveAt(f, k), InsertAt(f, k, f[k])} : <<f, k>> \in
             {<<g, l>> \in Whole \X (1..60) : l <= Len(g)}}

MCFiles == HealthFiles \cup RuleFiles \cup ReturnFiles \cup Whole \cup Mangled
=============================================================================
