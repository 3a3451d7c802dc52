----------------------------- MODULE LBCommands -----------------------------
(***************************************************************************)
(* The sequences of commands LBDecision::init, run and shutdown execute,   *)
(* for a configuration [nat, local, sticky, rules]:                        *)
(*   nat     ~ _disable_source_nat     local   _enable_local_traffic       *)
(*   sticky  _sticky_inbound_connections                                   *)
(*   rules   _lb_rule_coll, [exclude, limit, source_based] each; every     *)
(*           rule lists every interface.                                   *)
(* Hooks and the flushing of conntrack are not commands about these chains *)
(* and left out.                                                           *)
(***************************************************************************)
EXTENDS Netfilter

CONSTANTS NumIfaces     \* the interfaces are 1..NumIfaces, in map order

ASSUME NumIfacesAssumption == NumIfaces \in Nat \ {0}

Ifaces == 1..NumIfaces

If(b, cmds) == IF b THEN cmds ELSE <<>>
Each(n, Cmds(_)) == FlattenSeq([i \in 1..n |-> Cmds(i)])

-----------------------------------------------------------------------------
(* LBDecision::init.  The slip inserts the jump without removing an old    *)
(* one.                                                                    *)
HookChainAgain(base, c) ==
    <<New(c), Flush(c), Add(c, ACCEPT), Insert(base, c)>>

HookChain(base, c) ==
    <<New(c), Flush(c), Add(c, ACCEPT), RemoveRule(base, c), Insert(base, c)>>

(* One interface; the slip hopes for no rule of an earlier run. *)
InitIfaceNoFlush(cfg, i) ==
    <<New(ISP(i)), Add(ISP(i), CONNMARK(i)), Add(ISP(i), MARK(i)),
      Add(ISP(i), ACCEPT)>>
    \o If(cfg.sticky, <<New(INBOUND(i)), Flush(INBOUND(i)),
                        Add(INBOUND(i), CONNMARK(i)),
                        Insert(PREROUTING, INBOUND(i))>>)
    \o <<RouteReplace(i), RuleDelete(i), RuleAdd(i)>>
    \o If(cfg.nat, <<Add(NAT, SNAT(i))>>)

InitIface(cfg, i) ==
    <<New(ISP(i)), Flush(ISP(i)), Add(ISP(i), CONNMARK(i)),
      Add(ISP(i), MARK(i)), Add(ISP(i), ACCEPT)>>
    \o If(cfg.sticky, <<New(INBOUND(i)), Flush(INBOUND(i)),
                        Add(INBOUND(i), CONNMARK(i)),
                        Insert(PREROUTING, INBOUND(i))>>)
    \o <<RouteReplace(i), RuleDelete(i), RuleAdd(i)>>
    \o If(cfg.nat, <<Add(NAT, SNAT(i))>>)

InitCmds(cfg) ==
    If(cfg.nat, <<New(NAT), Flush(NAT), Flush(HOOK), Insert(HOOK, NAT)>>)
    \o HookChain(PREROUTING, PRE)
    \o If(cfg.local, HookChain(OUTPUT, OUT))
    \o Each(NumIfaces, LAMBDA i : InitIface(cfg, i))

-----------------------------------------------------------------------------
(* update_paths, for addresses and gateways that stay: what is missing of  *)
(* the active interfaces.                                                  *)
PathCmds(k, cfg, active) ==
    Each(NumIfaces, LAMBDA i :
        If(i \in active,
           If(i \notin k.routes, <<RouteReplace(i)>>)
           \o If(cfg.nat /\ ~Jumps(k, NAT, SNAT(i)), <<Add(NAT, SNAT(i))>>)))

(* Commands for prerouting, and those for local traffic that follow them.  *)
Both(cfg, pre, out) == pre \o If(cfg.local, out)

(* The rules of one rule for the active interfaces, which get_new_weights  *)
(* keeps.  The last one takes what the others left.                        *)
BalanceCmds(cfg, r, active) ==
    LET rule == cfg.rules[r]
        pre  == IF rule.limit THEN PreLimit(r) ELSE PRE
        out  == IF rule.limit THEN OutLimit(r) ELSE OUT
        last(i) == \A j \in active : j <= i
        To(c, i) == <<Add(c, ISP(i))>>
                    \o If(last(i) /\ rule.limit /\ rule.source_based,
                          <<Add(c, ACCEPT)>>)
    IN  If(rule.limit,
           Both(cfg, <<New(pre), Flush(pre), Add(PRE, pre)>>,
                     <<New(out), Flush(out), Add(OUT, out)>>))
        \o Each(NumIfaces, LAMBDA i :
                If(i \in active, Both(cfg, To(pre, i), To(out, i))))
        \o Both(cfg, <<Add(PRE, RESTORE)>>, <<Add(OUT, RESTORE)>>)

RuleCmds(cfg, r, active) ==
    IF cfg.rules[r].exclude
    THEN Both(cfg, <<Add(PRE, ACCEPT)>>, <<Add(OUT, ACCEPT)>>)
    ELSE If(active # {}, BalanceCmds(cfg, r, active))

(* The slip does not empty the chains first. *)
FlushNothing(cfg) ==
    If(cfg.local, <<Add(OUT, ACCEPT), Add(OUT, ACCEPT), Add(OUT, ACCEPT)>>)

FlushCmds(cfg) ==
    Both(cfg, <<Flush(PRE)>>,
         <<Flush(OUT), Add(OUT, ACCEPT), Add(OUT, ACCEPT), Add(OUT, ACCEPT)>>)

(* LBDecision::run when the state of an interface changed. *)
RunCmds(cfg, active) ==
    FlushCmds(cfg)
    \o Each(Len(cfg.rules), LAMBDA r : RuleCmds(cfg, r, active))

-----------------------------------------------------------------------------
(* LBDecision::shutdown.  The slip deletes the chain before the jump to it.*)
UnhookChainLate(base, c) == <<Flush(c), Delete(c), RemoveRule(base, c)>>

UnhookChain(base, c) == <<RemoveRule(base, c), Flush(c), Delete(c)>>

ShutdownIface(cfg, i) ==
    <<RuleDelete(i), RouteFlush(i), Flush(ISP(i)), Delete(ISP(i))>>
    \o If(cfg.sticky, <<RemoveRule(PREROUTING, INBOUND(i)), Flush(INBOUND(i)),
                        Delete(INBOUND(i))>>)

ShutdownIfaces(cfg) == Each(NumIfaces, LAMBDA i : ShutdownIface(cfg, i))

ShutdownChains(cfg) ==
    UnhookChain(PREROUTING, PRE)
    \o If(cfg.local, UnhookChain(OUTPUT, OUT))
    \o Each(Len(cfg.rules), LAMBDA r :
            If(cfg.rules[r].limit,
               Both(cfg, <<Flush(PreLimit(r)), Delete(PreLimit(r))>>,
                         <<Flush(OutLimit(r)), Delete(OutLimit(r))>>)))
    \o <<Flush(NAT), Delete(NAT), Flush(HOOK)>>

(* The slip takes the policy rules away while packets are still marked. *)
ShutdownIfacesFirst(cfg) == ShutdownIfaces(cfg) \o ShutdownChains(cfg)

ShutdownCmds(cfg) == ShutdownChains(cfg) \o ShutdownIfaces(cfg)
=============================================================================
