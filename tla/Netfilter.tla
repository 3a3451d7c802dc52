------------------------------ MODULE Netfilter ------------------------------
(***************************************************************************)
(* The part of the kernel that wan_lb configures with iptables-nft, nft    *)
(* and ip: chains of rules in the mangle and nat tables, the policy rules  *)
(* that send a mark to a table, the tables with a default route.  External *)
(* code, modelled from the commands of lbdecision.cc.                      *)
(*                                                                         *)
(* A rule is its target, a chain or a verdict: what a packet must match is *)
(* left out.  A name is a pair of a word and a number.                     *)
(***************************************************************************)
EXTENDS Integers, Sequences, FiniteSets, SequencesExt

PREROUTING == <<"PREROUTING", 0>>
OUTPUT     == <<"OUTPUT", 0>>
HOOK       == <<"VYOS_PRE_SNAT_HOOK", 0>>
PRE        == <<"WANLOADBALANCE_PRE", 0>>
OUT        == <<"WANLOADBALANCE_OUT", 0>>
NAT        == <<"WANLOADBALANCE", 0>>
ISP(i)     == <<"ISP", i>>
INBOUND(i) == <<"ISP_IN", i>>
PreLimit(r) == <<"WANLOADBALANCE_PRE_LIMIT", r>>
OutLimit(r) == <<"WANLOADBALANCE_OUT_LIMIT", r>>

ACCEPT      == <<"ACCEPT", 0>>
RESTORE     == <<"restore-mark", 0>>
CONNMARK(i) == <<"CONNMARK", i>>
MARK(i)     == <<"MARK", i>>
SNAT(i)     == <<"SNAT", i>>
Verdicts    == {"ACCEPT", "restore-mark", "CONNMARK", "MARK", "SNAT"}

(* The kernel before wan_lb was ever started. *)
Bare == [chains |-> [c \in {PREROUTING, OUTPUT, HOOK} |-> <<>>],
         rules  |-> {},
         routes |-> {}]

-----------------------------------------------------------------------------
(* Commands: op, the chain or table it is about, the target of its rule.   *)
Command(op, about, to) == [op |-> op, about |-> about, to |-> to]

New(c)       == Command("new", c, ACCEPT)
Flush(c)     == Command("flush", c, ACCEPT)
Delete(c)    == Command("delete", c, ACCEPT)
Add(c, t)    == Command("add", c, t)
Insert(c, t) == Command("insert", c, t)
RemoveRule(c, t) == Command("remove", c, t)
RouteReplace(i) == Command("route replace", <<"table", i>>, ACCEPT)
RouteFlush(i)   == Command("route flush", <<"table", i>>, ACCEPT)
RuleAdd(i)      == Command("rule add", <<"table", i>>, ACCEPT)
RuleDelete(i)   == Command("rule delete", <<"table", i>>, ACCEPT)

Exists(k, c) == c \in DOMAIN k.chains
Jumps(k, c, t) == Exists(k, c) /\ Contains(k.chains[c], t)
Referenced(k, c) == \E b \in DOMAIN k.chains : Jumps(k, b, c)
IsTarget(k, t) == t[1] \in Verdicts \/ Exists(k, t)

WithChains(k, f) == [k EXCEPT !.chains = f]
WithRules(k, c, rs) == WithChains(k, [k.chains EXCEPT ![c] = rs])

(* The kernel after a command; one that fails changes nothing. *)
Executed(k, cmd) ==
    LET c == cmd.about  t == cmd.to IN
    CASE cmd.op = "new" /\ ~Exists(k, c) ->
            WithChains(k, [b \in DOMAIN k.chains \cup {c} |->
                              IF b = c THEN <<>> ELSE k.chains[b]])
      [] cmd.op = "flush" /\ Exists(k, c) -> WithRules(k, c, <<>>)
      [] cmd.op = "delete" /\ Exists(k, c) /\ ~Referenced(k, c)
                           /\ k.chains[c] = <<>> ->
            WithChains(k, [b \in DOMAIN k.chains \ {c} |-> k.chains[b]])
      [] cmd.op = "add" /\ Exists(k, c) /\ IsTarget(k, t) ->
            WithRules(k, c, Append(k.chains[c], t))
      [] cmd.op = "insert" /\ Exists(k, c) /\ IsTarget(k, t) ->
            WithRules(k, c, <<t>> \o k.chains[c])
      [] cmd.op = "remove" /\ Exists(k, c) ->
            WithRules(k, c, RemoveFirst(k.chains[c], t))
      [] cmd.op = "route replace" -> [k EXCEPT !.routes = @ \cup {c[2]}]
      [] cmd.op = "route flush"   -> [k EXCEPT !.routes = @ \ {c[2]}]
      [] cmd.op = "rule add"      -> [k EXCEPT !.rules = @ \cup {c[2]}]
      [] cmd.op = "rule delete"   -> [k EXCEPT !.rules = @ \ {c[2]}]
      [] OTHER -> k

(* The kernel after a sequence of commands. *)
ExecutedAll(k, cmds) == FoldLeft(Executed, k, cmds)

(* How many rules of a chain jump to t. *)
JumpCount(k, c, t) ==
    Cardinality({n \in DOMAIN k.chains[c] : k.chains[c][n] = t})
=============================================================================
