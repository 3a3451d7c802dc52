--------------------------- MODULE LBLifecycleInv ---------------------------
(***************************************************************************)
(* What the proofs about LBLifecycle say of kernels, commands and lists of *)
(* commands, and the invariants they are for: IInv for the types and the   *)
(* jumps of the balancing chains, PileInv for those of inbound connections,*)
(* MInv for the marks, FInv for the rules in force and CInv for what an    *)
(* orderly end leaves.                                                     *)
(***************************************************************************)
EXTENDS LBLifecycle

(* Names of chains and targets, commands, and states of the kernel.        *)
Words == {"PREROUTING", "OUTPUT", "VYOS_PRE_SNAT_HOOK", "WANLOADBALANCE_PRE",
          "WANLOADBALANCE_OUT", "WANLOADBALANCE", "ISP", "ISP_IN",
          "WANLOADBALANCE_PRE_LIMIT", "WANLOADBALANCE_OUT_LIMIT", "ACCEPT",
          "restore-mark", "CONNMARK", "MARK", "SNAT", "table"}
Ops   == {"new", "flush", "delete", "add", "insert", "remove", "route replace",
          "route flush", "rule add", "rule delete"}
Names    == Words \X Int
Commands == [op : Ops, about : Names, to : Names]
Kernels  == [chains : UNION {[D -> Seq(Names)] : D \in SUBSET Names},
             rules : SUBSET Int, routes : SUBSET Int]

-----------------------------------------------------------------------------
(* How often t is in s.                                                    *)
Count(s, t) == Cardinality({n \in DOMAIN s : s[n] = t})

-----------------------------------------------------------------------------
(* The rules of a chain after a command about it.                          *)
NewRules(rs, cmd) ==
    CASE cmd.op = "flush"  -> <<>>
      [] cmd.op = "add"    -> Append(rs, cmd.to)
      [] cmd.op = "insert" -> <<cmd.to>> \o rs
      [] cmd.op = "remove" -> RemoveFirst(rs, cmd.to)
      [] OTHER -> rs

NewPolicy(rules, cmd) ==
    CASE cmd.op = "rule add"    -> rules \cup {cmd.about[2]}
      [] cmd.op = "rule delete" -> rules \ {cmd.about[2]}
      [] OTHER -> rules

(* What a command may do to the chains and what it surely does.            *)
Effect(k, cmd, e) ==
    /\ \A b \in DOMAIN k.chains :
          b \in DOMAIN e.chains \/ (cmd.op = "delete" /\ b = cmd.about)
    /\ \A b \in DOMAIN e.chains :
          \/ /\ b \in DOMAIN k.chains
             /\ \/ e.chains[b] = k.chains[b]
                \/ b = cmd.about /\ e.chains[b] = NewRules(k.chains[b], cmd)
          \/ /\ b \notin DOMAIN k.chains /\ cmd.op = "new" /\ b = cmd.about
             /\ e.chains[b] = <<>>
    /\ cmd.about \in DOMAIN k.chains /\ cmd.op \in {"flush", "remove"} =>
          e.chains[cmd.about] = NewRules(k.chains[cmd.about], cmd)
    /\ e.rules = NewPolicy(k.rules, cmd)

-----------------------------------------------------------------------------
(* The commands of init, run and shutdown.                                 *)
LimitChains == {PreLimit(r) : r \in Nat} \cup {OutLimit(r) : r \in Nat}
Balanced    == {PRE, OUT} \cup LimitChains

SetupCmds(i) ==
    {New(ISP(i)), Flush(ISP(i)), Add(ISP(i), CONNMARK(i)), Add(ISP(i), MARK(i)),
     Add(ISP(i), ACCEPT), New(INBOUND(i)), Flush(INBOUND(i)),
     Add(INBOUND(i), CONNMARK(i)), Insert(PREROUTING, INBOUND(i)),
     RouteReplace(i), RuleDelete(i), RuleAdd(i), Add(NAT, SNAT(i))}
HookSet(base, c) ==
    {New(c), Flush(c), Add(c, ACCEPT), RemoveRule(base, c), Insert(base, c)}
InitSet == {New(NAT), Flush(NAT), Flush(HOOK), Insert(HOOK, NAT)}
           \cup HookSet(PREROUTING, PRE) \cup HookSet(OUTPUT, OUT)
           \cup UNION {SetupCmds(i) : i \in Ifaces}

PathSet == {RouteReplace(i) : i \in Ifaces} \cup {Add(NAT, SNAT(i)) : i \in Ifaces}
RunSet == {New(c) : c \in LimitChains} \cup {Flush(c) : c \in Balanced}
          \cup {Add(c, t) : c \in Balanced,
                            t \in {ACCEPT, RESTORE} \cup LimitChains
                                  \cup {ISP(i) : i \in Ifaces}}
          \cup PathSet

CleanCmds(i) ==
    {RuleDelete(i), RouteFlush(i), Flush(ISP(i)), Delete(ISP(i)),
     RemoveRule(PREROUTING, INBOUND(i)), Flush(INBOUND(i)), Delete(INBOUND(i))}
UnhookSet == {RemoveRule(PREROUTING, PRE), RemoveRule(OUTPUT, OUT),
              Flush(PRE), Delete(PRE), Flush(OUT), Delete(OUT),
              Flush(NAT), Delete(NAT), Flush(HOOK)}
             \cup {Flush(c) : c \in LimitChains} \cup {Delete(c) : c \in LimitChains}
EndSet == UnhookSet \cup UNION {CleanCmds(i) : i \in Ifaces}

-----------------------------------------------------------------------------
(* The jumps of the base chains to the chains of the daemon.               *)
Hooks == {<<PREROUTING, PRE>>, <<OUTPUT, OUT>>}
HookCmds == {Insert(h[1], h[2]) : h \in Hooks}

(* A command that adds no such jump and deletes no base chain.             *)
Spares(cmd, h) ==
    /\ ~(cmd.op \in {"add", "insert"} /\ cmd.about = h[1] /\ cmd.to = h[2])
    /\ ~(cmd.op = "delete" /\ cmd.about = h[1])
Quiet == {cmd \in Commands : \A h \in Hooks : Spares(cmd, h)}

(* A jump is inserted only right after one has been removed.               *)
Preceded(s) ==
    \A n \in 2..Len(s) : \A h \in Hooks :
        s[n] = Insert(h[1], h[2]) => s[n - 1] = RemoveRule(h[1], h[2])
Orderly == {s \in Seq(Quiet \cup HookCmds) :
               Preceded(s) /\ (s # <<>> => s[1] \notin HookCmds)}

-----------------------------------------------------------------------------
(* The invariant.  Every signal overtakes one command at most.  No command *)
(* of run or shutdown hooks a chain, and init hooks one right after it has *)
(* removed a jump, which there is at most one more of than failed commands.*)
OrphansInv ==
    /\ IsFiniteSet(orphans)
    /\ Cardinality(orphans) <= IF proc \in Running THEN Cardinality(handling)
                               ELSE Cardinality(Signals)
TodoInv ==
    /\ proc = "init" => todo \in Seq(Quiet \cup HookCmds) /\ Preceded(todo)
    /\ proc # "init" => todo \in Seq(Quiet)
HookInv ==
    /\ kernel \in Kernels /\ orphans \subseteq Quiet
    /\ \A h \in Hooks :
          /\ h[1] \in DOMAIN kernel.chains
          /\ Count(kernel.chains[h[1]], h[2]) <= 1 + faults
          /\ todo # <<>> /\ todo[1] = Insert(h[1], h[2]) =>
                Count(kernel.chains[h[1]], h[2]) <= faults

BudgetInv == faults <= mishaps

IInv == TypeOK /\ OrphansInv /\ TodoInv /\ HookInv /\ BudgetInv

-----------------------------------------------------------------------------
(* A mark is set in the chain of its interface only, and that chain is     *)
(* reached through the daemon's chains only, by the words of the names.    *)
Fits(b, t) ==
    /\ b = PREROUTING => t = PRE \/ t[1] = "ISP_IN"
    /\ b = OUTPUT => t = OUT
    /\ b[1] = "ISP_IN" => t[1] = "CONNMARK"
    /\ b[1] \notin Verdicts
    /\ t[1] = "MARK" => b = ISP(t[2])

Adds(cmd, b, t) == cmd.op \in {"add", "insert"} /\ cmd.about = b /\ cmd.to = t
FitCmd(cmd) == cmd.op \in {"add", "insert"} => Fits(cmd.about, cmd.to)
Drops(cmd, i) == cmd.op = "rule delete" /\ cmd.about[2] = i

(* A command that cannot lead packets through chain h[2] to a mark.        *)
Tame(cmd, h) ==
    cmd.op \in {"add", "insert"} /\ cmd.about = h[2] => cmd.to[1] \in Verdicts

(* One that sets no mark, either.                                          *)
Mild(cmd) == cmd.op \in {"add", "insert"} => cmd.to[1] # "MARK"

Calm(h) == {cmd \in Commands : /\ cmd.op # "rule delete" /\ Mild(cmd)
                               /\ Spares(cmd, h) /\ Tame(cmd, h)}
Keeping == {cmd \in Commands : cmd.op # "rule delete"}

(* Commands that add no rule, and what adding one means.                   *)
Idle(cmd) == cmd.op \notin {"add", "insert"}

-----------------------------------------------------------------------------
(* A list that has a command, with only commands of C before it.           *)
First(s, cmd, C) ==
    \E n \in 1..Len(s) : s[n] = cmd /\ \A m \in 1..(n - 1) : s[m] \in C

(* One that ends with a policy rule for interface i, and one that takes no *)
(* such rule away.                                                         *)
NeverDrops(s, i) == \A n \in 1..Len(s) : ~Drops(s[n], i)
Ends(s, i) == \E n \in 1..Len(s) : /\ s[n] = RuleAdd(i)
                                   /\ \A m \in (n + 1)..Len(s) : ~Drops(s[m], i)

-----------------------------------------------------------------------------
(* What a kernel does to packets that pass a hook: no jump leads to the    *)
(* chain, the chain leads to no mark, or every mark set anywhere has its   *)
(* policy rule, which no pending command takes away.                       *)
Shape(k)       == \A b, t : Jumps(k, b, t) => Fits(b, t)
Unhooked(k, h) == ~Jumps(k, h[1], h[2])
Clear(k, h)    == \A t : Jumps(k, h[2], t) => t[1] \in Verdicts
Marks(k, i)    == Jumps(k, ISP(i), MARK(i))
Routed(k, S)   == \A i \in Ifaces : Marks(k, i) =>
                     i \in k.rules /\ \A cmd \in S : ~Drops(cmd, i)
Safe(k, S, h)  == \/ Unhooked(k, h)
                  \/ Clear(k, h) /\ S = {}
                  \/ Routed(k, S)

-----------------------------------------------------------------------------
(* The invariant.  What the lists and the kernel are made of; while no     *)
(* command has failed, what each phase of an instance keeps of the hooks   *)
(* it works on; and that every hook is safe that all instances worked on   *)
(* alike that may have left something.                                     *)
Feeds(h)  == h[2] = OUT => cfg.local
NoneLocal == \A c \in left : ~c.local
Alike(h)  == h[2] = OUT => (\A c \in left \cup {cfg} : c.local) \/ NoneLocal

ListsInv ==
    /\ proc = "init" => todo \in Seq(InitSet)
    /\ proc = "run" => todo \in Seq(RunSet)
    /\ proc = "ending" => todo \in Seq(EndSet)
    /\ orphans \subseteq RunSet \cup EndSet
    /\ Shape(kernel)

InitSafe(h) == Clear(kernel, h) \/ First(todo, Flush(h[2]), Calm(h))

EndSafe(h) ==
    \/ Unhooked(kernel, h)
    \/ /\ Ifaces \subseteq kernel.rules
       /\ \A cmd \in orphans : cmd.op # "rule delete"
       /\ First(todo, RemoveRule(h[1], h[2]), Keeping)

PhaseInv ==
    \A h \in Hooks : Feeds(h) =>
        (proc = "init" => InitSafe(h)) /\ (proc = "ending" => EndSafe(h))

PolicyInv ==
    /\ proc = "init" => \A i \in Ifaces :
          Ends(todo, i) \/ (i \in kernel.rules /\ NeverDrops(todo, i))
    /\ proc \in {"test", "apply", "run"} => Ifaces \subseteq kernel.rules

MarksInv ==
    \A i \in Ifaces : Marks(kernel, i) =>
        proc # "off" /\ (proc = "ending" => Contains(todo, Flush(ISP(i))))

LocalInv ==
    /\ NoneLocal /\ (proc \in {"off", "dead", "forked"} \/ ~cfg.local) =>
          Unhooked(kernel, <<OUTPUT, OUT>>)
    /\ ~cfg.local => \A n \in 1..Len(todo) : todo[n] # Insert(OUTPUT, OUT)
    /\ proc = "dead" => cfg \in left

SafeInv == \A h \in Hooks : Alike(h) => Safe(kernel, orphans, h)

RouteInv == PhaseInv /\ PolicyInv /\ MarksInv /\ LocalInv /\ SafeInv

MInv == IInv /\ ListsInv /\ (faults = 0 => RouteInv)

-----------------------------------------------------------------------------
(* The function a fold over a list of commands is defined by.              *)
FoldOf(k, s, n, f) ==
    f = [T \in SUBSET (1..n) |->
            IF T = {} THEN k ELSE Executed(f[T \ {Max(T)}], s[Max(T)])]

(* What a chain is after a command that deletes none: the command either   *)
(* rewrites it or, about another chain or to no target, leaves it alone.   *)
Rewrites(k, cmd, c) ==
    /\ c = cmd.about
    /\ \/ cmd.op \in {"flush", "remove"}
       \/ cmd.op \in {"add", "insert"} /\ IsTarget(k, cmd.to)

-----------------------------------------------------------------------------
(* The base chains, which other software fills too.                        *)
Base == {PREROUTING, OUTPUT, HOOK}

(* Kernel k has the chains of kernel w, with their rules but for those the *)
(* commands s are still to empty.                                          *)
Tracks(k, w, s) ==
    \A c \in DOMAIN w.chains \ Base :
        /\ Exists(k, c)
        /\ k.chains[c] = w.chains[c] \/ Contains(s, Flush(c))

(* A list that empties each chain it makes, for it may be there already,   *)
(* and one that adds rules only to targets there are, in w or by then.     *)
Fresh(s) ==
    \A n \in 1..Len(s) : s[n].op = "new" =>
        \E m \in (n + 1)..Len(s) : s[m] = Flush(s[n].about)
Grounded(w, s) ==
    \A n \in 1..Len(s) :
        s[n].op \in {"add", "insert"} /\ s[n].about \notin Base =>
            IsTarget(w, s[n].to) \/ \E m \in 1..(n - 1) : s[m] = New(s[n].to)

(* A list that takes no rule from chain b once it has added the jump to t, *)
(* where both chains are in D or made before.                              *)
Undoes(cmd, b) == cmd.about = b /\ cmd.op \in {"flush", "delete", "remove"}
Ready(D, s, n, c) == c \in D \/ \E m \in 1..(n - 1) : s[m] = New(c)
Lands(D, s, b, t) ==
    \E n \in 1..Len(s) :
        /\ s[n] \in {Add(b, t), Insert(b, t)}
        /\ \A m \in (n + 1)..Len(s) : ~Undoes(s[m], b)
        /\ Ready(D, s, n, b) /\ (t[1] \in Verdicts \/ Ready(D, s, n, t))

(* After the list there is a jump from b to t.                             *)
Settles(k, s, b, t) ==
    \/ Jumps(k, b, t) /\ \A n \in 1..Len(s) : ~Undoes(s[n], b)
    \/ Lands(DOMAIN k.chains, s, b, t)

(* After the list the jump to the nat chain is alone in its hook.          *)
Empties(D, s, empty) ==
    \E n \in 1..Len(s) :
        /\ s[n] = Insert(HOOK, NAT)
        /\ \A m \in (n + 1)..Len(s) : s[m].about # HOOK
        /\ Ready(D, s, n, NAT)
        /\ n = 1 => empty
        /\ n # 1 => s[n - 1] = Flush(HOOK)
Alone(k, s) ==
    \/ k.chains[HOOK] = <<NAT>> /\ \A n \in 1..Len(s) : s[n].about # HOOK
    \/ Empties(DOMAIN k.chains, s, k.chains[HOOK] = <<>>)

-----------------------------------------------------------------------------
(* A chain that commands only add to keeps what it has.                    *)
Adding(c) == {cmd \in Commands : /\ cmd.op # "delete"
                                 /\ cmd.about = c => cmd.op \in {"new", "add"}}

-----------------------------------------------------------------------------
SetupList(c) == FlattenSeq([i \in 1..NumIfaces |-> InitIface(c, i)])

(* The chains a run needs from init.                                       *)
Needed(c) == {PRE} \cup {ISP(i) : i \in Ifaces} \cup (IF c.local THEN {OUT} ELSE {})

-----------------------------------------------------------------------------
(* The chains a run rebuilds, the commands it does that with, and the      *)
(* lists of them that empty what they make and add what is there, in a     *)
(* kernel w that has the chains of init.                                   *)
Rebuilt(c) == LimitChains \cup {PRE} \cup (IF c.local THEN {OUT} ELSE {})
Aims == {ACCEPT, RESTORE} \cup {ISP(i) : i \in Ifaces}
Rebuilds(c) == {Flush(x) : x \in Rebuilt(c)} \cup {Add(x, t) : x \in Rebuilt(c), t \in Aims}
               \cup {New(PreLimit(r)) : r \in Nat \cap Limits(c)}
               \cup {Add(PRE, PreLimit(r)) : r \in Nat \cap Limits(c)}
               \cup (IF c.local THEN {New(OutLimit(r)) : r \in Nat \cap Limits(c)}
                                     \cup {Add(OUT, OutLimit(r)) : r \in Nat \cap Limits(c)}
                     ELSE {})
Rounds(c, w) == {s \in Seq(Rebuilds(c)) : Fresh(s) /\ Grounded(w, s)}

(* Those that make nothing.                                                *)
Plain(c) == {Flush(x) : x \in Rebuilt(c)} \cup {Add(x, t) : x \in Rebuilt(c), t \in Aims}

-----------------------------------------------------------------------------
(* No command takes a base chain away, or adds a policy rule or a route of *)
(* an interface there is not.                                              *)
Based(k) == /\ k \in Kernels /\ Base \subseteq DOMAIN k.chains
            /\ k.rules \subseteq Ifaces /\ k.routes \subseteq Ifaces
Harmless(cmd) ==
    /\ cmd.op = "delete" => cmd.about \notin Base
    /\ cmd.op \in {"rule add", "route replace"} => cmd.about[2] \in Ifaces

-----------------------------------------------------------------------------
(* The kernels an undisturbed init, and a run after it, would make.        *)
AfterInit(c)    == ExecutedAll(Bare, InitCmds(c))
AfterRun(c, up) == ExecutedAll(AfterInit(c), RunCmds(c, up))

(* While the commands s of init are still to come: the jumps and the       *)
(* policy will be in place, and the chains are those of a kernel w that    *)
(* the same commands take to AfterInit.                                    *)
Placing(k, c, s) ==
    /\ Settles(k, s, PREROUTING, PRE)
    /\ c.local => Settles(k, s, OUTPUT, OUT)
    /\ c.nat => Alone(k, s)
    /\ c.nat => \A i \in Ifaces : Settles(k, s, NAT, SNAT(i))
    /\ \A i \in Ifaces : i \in k.routes \/ Contains(s, RouteReplace(i))
    /\ \A i \in Ifaces : Ends(s, i) \/ (i \in k.rules /\ NeverDrops(s, i))
Follows(k, c, s, w) ==
    /\ ExecutedAll(w, s) = AfterInit(c) /\ Tracks(k, w, s)
    /\ DOMAIN w.chains \cap LimitChains = {}
    /\ \A x \in Needed(c) : x \in DOMAIN w.chains \/ Contains(s, New(x))
Building(k, c, s) ==
    /\ s \in Seq(InitSet) /\ Fresh(s) /\ Placing(k, c, s)
    /\ \E w \in Kernels : Follows(k, c, s, w)

(* Between runs: the jumps and the policy are in place, and the chains no  *)
(* run rebuilds are those of init.                                         *)
Standing(k, c) ==
    /\ Jumps(k, PREROUTING, PRE)
    /\ c.local => Jumps(k, OUTPUT, OUT)
    /\ c.nat => k.chains[HOOK] = <<NAT>>
    /\ c.nat => \A i \in Ifaces : Jumps(k, NAT, SNAT(i))
    /\ Ifaces \subseteq k.rules /\ Ifaces \subseteq k.routes
Shaped(k, c, w) ==
    /\ DOMAIN w.chains \cap LimitChains = {} /\ Needed(c) \subseteq DOMAIN w.chains
    /\ \A x \in DOMAIN w.chains \ Base :
          /\ Exists(k, x)
          /\ k.chains[x] = w.chains[x] \/ x \in Rebuilt(c)
Cycling(k, c) ==
    AfterInit(c) \in Kernels /\ Standing(k, c) /\ Shaped(k, c, AfterInit(c))

(* While the commands s of a run are still to come.                        *)
Matches(k, c, up, s, w) ==
    /\ ExecutedAll(w, s) = AfterRun(c, up)
    /\ Tracks(k, w, s) /\ Grounded(w, s) /\ Needed(c) \subseteq DOMAIN w.chains
Rebuilding(k, c, up, s) ==
    Fresh(s) /\ \E w \in Kernels : Matches(k, c, up, s, w)

-----------------------------------------------------------------------------
(* The invariant.                                                          *)
Cycle == {"test", "apply", "run"}
InitForce ==
    /\ proc = "init" => Building(kernel, cfg, todo)
    /\ proc \in Cycle => Cycling(kernel, cfg)
TestForce ==
    /\ proc \in Cycle /\ ~changed /\ "run" \notin botched =>
          Tracks(kernel, AfterRun(cfg, active), <<>>)
    /\ proc = "test" /\ changed => Tracks(kernel, AfterInit(cfg), <<>>)
RunForce ==
    /\ proc = "run" /\ ~changed => todo = <<>>
    /\ proc = "run" /\ changed => todo \in Seq(Rebuilds(cfg))
    /\ proc = "run" /\ changed /\ "run" \notin botched =>
          Rebuilding(kernel, cfg, active, todo)
FInv == /\ Based(kernel)
        /\ proc \in {"forked", "init"} => changed
        /\ "init" \notin botched => InitForce /\ TestForce /\ RunForce

-----------------------------------------------------------------------------
(* The chains an instance of configuration c makes, but for the nat chain, *)
(* and those instances of the configurations L made.                       *)
Fixed == {PREROUTING, OUTPUT, HOOK, NAT}
Owned(c) == {PRE} \cup {ISP(i) : i \in Ifaces}
            \cup (IF c.sticky THEN {INBOUND(i) : i \in Ifaces} ELSE {})
            \cup {PreLimit(r) : r \in Limits(c)}
            \cup (IF c.local THEN {OUT} \cup {OutLimit(r) : r \in Limits(c)} ELSE {})
OwnedBy(L) == UNION {Owned(d) : d \in L}

(* Where a rule with target t can be.                                      *)
Leads(b, t) ==
    /\ t[1] = "WANLOADBALANCE_PRE" => b = PREROUTING
    /\ t[1] = "WANLOADBALANCE_OUT" => b = OUTPUT
    /\ t[1] = "ISP_IN" => b = PREROUTING /\ t[2] \in Ifaces
    /\ t[1] = "WANLOADBALANCE_PRE_LIMIT" => b = PRE
    /\ t[1] = "WANLOADBALANCE_OUT_LIMIT" => b = OUT
    /\ t[1] = "ISP" => b[1] \in {"WANLOADBALANCE_PRE", "WANLOADBALANCE_OUT",
                                 "WANLOADBALANCE_PRE_LIMIT",
                                 "WANLOADBALANCE_OUT_LIMIT"}
Ways(k) == \A b, t : Jumps(k, b, t) => Leads(b, t)

(* The commands an instance of configuration c executes: no others of its  *)
(* chains, and no rules elsewhere.                                         *)
Proper(c) ==
    {cmd \in Commands :
        /\ cmd.op = "new" => cmd.about \in {NAT} \cup Owned(c)
        /\ cmd.op \in {"add", "insert"} =>
              Leads(cmd.about, cmd.to) /\ (cmd.to[1] = "ISP_IN" => c.sticky)}

-----------------------------------------------------------------------------
(* The commands but the deletion of a chain.                               *)
Keeps(x) == Commands \ {Delete(x)}

(* The chains of a rule with a limit.                                      *)
EndLimit(c, r) ==
    If(c.rules[r].limit,
       Both(c, <<Flush(PreLimit(r)), Delete(PreLimit(r))>>,
               <<Flush(OutLimit(r)), Delete(OutLimit(r))>>))

(* What shutdown removes of an interface, and in what order.               *)
Sweeps(z, c, i) ==
    /\ First(z, Flush(ISP(i)), Keeps(ISP(i))) /\ Contains(z, Delete(ISP(i)))
    /\ Contains(z, RuleDelete(i)) /\ Contains(z, RouteFlush(i))
    /\ c.sticky => /\ First(z, RemoveRule(PREROUTING, INBOUND(i)), Keeps(INBOUND(i)))
                   /\ First(z, Flush(INBOUND(i)), Keeps(INBOUND(i)))
                   /\ Contains(z, Delete(INBOUND(i)))

(* What shutdown removes of the balancing chains, and in what order.       *)
Caps(c) == {PreLimit(r) : r \in Limits(c)}
           \cup (IF c.local THEN {OutLimit(r) : r \in Limits(c)} ELSE {})
Clears(u, c) ==
    /\ First(u, RemoveRule(PREROUTING, PRE), Keeps(PRE))
    /\ First(u, Flush(PRE), Keeps(PRE)) /\ Contains(u, Delete(PRE))
    /\ c.local => /\ First(u, RemoveRule(OUTPUT, OUT), Keeps(OUT))
                  /\ First(u, Flush(OUT), Keeps(OUT)) /\ Contains(u, Delete(OUT))
    /\ \A x \in Caps(c) :
          /\ First(u, Flush(x), Keeps(x)) /\ Contains(u, Delete(x))
          /\ First(u, Flush(PRE), Keeps(x))
          /\ c.local => First(u, Flush(OUT), Keeps(x))
    /\ Contains(u, Flush(NAT)) /\ Contains(u, Flush(HOOK))

-----------------------------------------------------------------------------
(* What instances of the configurations L left of which nothing remains    *)
(* after the shutdown of an instance of configuration c: the chain of an   *)
(* interface, when the chains that may jump to it are those of c too; the  *)
(* chain of inbound connections, when no other instance can have hooked it.*)
Mates(c, L)    == \A d \in L : (d.local => c.local) /\ Limits(d) \subseteq Limits(c)
NoneSticky(L)  == \A d \in L : ~d.sticky
Cleanable(c, L, x) == /\ x[1] = "ISP_IN" => NoneSticky(L)
                      /\ x[1] = "ISP" => Mates(c, L)
Named(k, c, L) == DOMAIN k.chains \subseteq Fixed \cup Owned(c) \cup OwnedBy(L)

(* A chain without rules.                                                  *)
Vacant(k, b) == \A t : ~Jumps(k, b, t)

(* Chain x is gone or the commands s delete it; before, they empty chain b *)
(* or take the jump to x out of it.                                        *)
Gone(k, s, x)       == x \notin DOMAIN k.chains \/ Contains(s, Delete(x))
Drained(k, s, b, x) == Vacant(k, b) \/ First(s, Flush(b), Keeps(x))
Loosed(k, s, b, x)  == ~Jumps(k, b, x) \/ First(s, RemoveRule(b, x), Keeps(x))

(* The base chains a chain of an instance may be hooked into, and where    *)
(* the one hooked can be.                                                  *)
Bases == {PREROUTING, OUTPUT}
Hung(c, L, b, x) == Leads(b, x) /\ (x[1] = "ISP_IN" => NoneSticky(L))

(* The commands s are still to do what shutdown of configuration c has to, *)
(* in an order that lets each deletion succeed.                            *)
Sweeping(k, s, c, L) ==
    /\ \A x \in Owned(c) : Cleanable(c, L, x) => Gone(k, s, x)
    /\ \A x \in Owned(c), b \in Owned(c) : b = x \/ Leads(b, x) => Drained(k, s, b, x)
    /\ \A x \in Owned(c), b \in Bases : Hung(c, L, b, x) => Loosed(k, s, b, x)
    /\ \A i \in Ifaces : i \in k.routes => Contains(s, RouteFlush(i))
    /\ Vacant(k, NAT) \/ Contains(s, Flush(NAT))

(* The jumps out of the base chains are not more than one removal takes.   *)
Few(k, c, L) ==
    \A x \in Owned(c), b \in Bases : Hung(c, L, b, x) =>
        b \in DOMAIN k.chains /\ Count(k.chains[b], x) <= 1

-----------------------------------------------------------------------------
(* At its end all of that is gone.                                         *)
Swept(k, c, L) == /\ \A x \in Owned(c) : Cleanable(c, L, x) => x \notin DOMAIN k.chains
                  /\ \A i \in Ifaces : i \notin k.routes
                  /\ Vacant(k, NAT)

-----------------------------------------------------------------------------
(* What is taken away even if commands take effect late meanwhile, for     *)
(* none of them could put it back: the policy rules, the jump to the nat   *)
(* chain.                                                                  *)
Ebbing(k, s) == /\ \A i \in Ifaces : i \in k.rules => Contains(s, RuleDelete(i))
                /\ Vacant(k, HOOK) \/ Contains(s, Flush(HOOK))
Ebbed(k)     == (\A i \in Ifaces : i \notin k.rules) /\ Vacant(k, HOOK)

(* The commands that add no policy rule and nothing to a base chain, nor   *)
(* delete one.                                                             *)
Slack == {cmd \in Commands : /\ cmd.op # "rule add"
                             /\ \A b \in Base : /\ ~(cmd.op = "delete" /\ cmd.about = b)
                                                /\ \A t : ~Adds(cmd, b, t)}

-----------------------------------------------------------------------------
(* A list that hooks a chain once at most.                                 *)
Never(h)   == {cmd \in Commands : ~Adds(cmd, h[1], h[2])}
Sole(s, h) == \A m, n \in 1..Len(s) :
                 Adds(s[m], h[1], h[2]) /\ Adds(s[n], h[1], h[2]) => m = n

-----------------------------------------------------------------------------
(* The jump to the chain of the inbound connections of interface i.        *)
In(i) == <<PREROUTING, INBOUND(i)>>

(* Steps that hook the chain of inbound connections no second time.        *)
Atmost(k, h) == Count(k.chains[h[1]], h[2]) <= 1

(* In init the jump comes once at most, and only where it is not.          *)
Coming(k, s, h) == Sole(s, h) /\ (Unhooked(k, h) \/ s \in Seq(Never(h)))

(* In shutdown it is gone or still to be removed.                          *)
Going(k, s, h) == Unhooked(k, h) \/ Contains(s, RemoveRule(h[1], h[2]))

-----------------------------------------------------------------------------
(* How often the chain of the inbound connections of interface i is hooked.*)
Piled(k, i) == Count(k.chains[PREROUTING], INBOUND(i))

(* After n mishaps an instance of configuration c in phase p, with the     *)
(* commands s to execute, finds at most n of these jumps, inserts one in   *)
(* init unless it has done so, and has one to remove in shutdown if it did.*)
Heap(k, s, c, p, i, n) ==
    /\ Piled(k, i) <= n + 1
    /\ ~c.sticky \/ p \in {"off", "dead", "forked"} => Piled(k, i) <= n
    /\ p = "init" => /\ Sole(s, In(i))
                     /\ ~c.sticky => s \in Seq(Never(In(i)))
                     /\ Piled(k, i) <= n \/ s \in Seq(Never(In(i)))
    /\ p = "ending" =>
          Piled(k, i) <= n \/ Contains(s, RemoveRule(PREROUTING, INBOUND(i)))
PileInv == \A i \in Ifaces : Heap(kernel, todo, cfg, proc, i, mishaps)

-----------------------------------------------------------------------------
(* The invariant. While no command has failed there are no chains, rules   *)
(* and commands but those the configurations call for; unless some         *)
(* instance that left something had sticky inbound connections, every      *)
(* chain of inbound connections is hooked once at most, and not at all     *)
(* outside an instance; each command of a shutdown leaves to the rest what *)
(* it has to remove; and after an orderly end all of that is gone but what *)
(* a late command brought back.                                            *)
NamesInv == /\ Named(kernel, cfg, left) /\ Ways(kernel)
            /\ todo \in Seq(Proper(cfg)) /\ orphans \subseteq Proper(cfg)

Inbound(i) ==
    /\ Atmost(kernel, In(i))
    /\ ~cfg.sticky \/ proc \in {"off", "forked"} => Unhooked(kernel, In(i))
    /\ proc = "init" => Coming(kernel, todo, In(i))
    /\ proc = "ending" => Going(kernel, todo, In(i))
StickyInv == NoneSticky(left) => \A i \in Ifaces : Inbound(i)

SweepInv ==
    proc = "ending" => /\ Ebbing(kernel, todo)
                       /\ ~raced => Sweeping(kernel, todo, cfg, left)
BareInv ==
    proc = "off" => /\ Ebbed(kernel)
                    /\ \A h \in Hooks : Feeds(h) => Unhooked(kernel, h)
                    /\ ~raced => Swept(kernel, cfg, left)

CleanInv == NamesInv /\ StickyInv /\ SweepInv /\ BareInv
CInv == faults = 0 => CleanInv
=============================================================================
