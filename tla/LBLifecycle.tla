----------------------------- MODULE LBLifecycle -----------------------------
(***************************************************************************)
(* The life of the wan_lb process and of the rules it leaves in the        *)
(* kernel: started by start-stop-daemon, initialising, cycling through     *)
(* health tests and rule sets, shutting down in the handler of whatever    *)
(* signal ends it, killed at any point, and started again over what is     *)
(* left, perhaps with another configuration.                               *)
(*                                                                         *)
(* Every command is a step.  A signal may find a command started but not   *)
(* yet effective: its shell goes on while the handler runs its own         *)
(* commands, or after the process is dead.                                 *)
(***************************************************************************)
EXTENDS LBCommands

CONSTANTS
    Configs,     \* the configurations the daemon may be started with
    Signals,     \* the signals handled by sig_end and sig_user1
    MaxMishaps   \* bound on kills, overtaken commands and failed commands

Rule == [exclude : BOOLEAN, limit : BOOLEAN, source_based : BOOLEAN]

ASSUME ConfigsAssumption ==
    Configs \subseteq [nat : BOOLEAN, local : BOOLEAN, sticky : BOOLEAN,
                       rules : Seq(Rule)]

ASSUME LifecycleAssumption ==
    /\ "SIGTERM" \in Signals /\ IsFiniteSet(Signals)
    /\ MaxMishaps \in Nat

VARIABLES
    kernel,      \* external: see Netfilter
    proc,        \* where the process is; "off" and "dead": there is none
    cfg,         \* the configuration of the last instance
    todo,        \* the commands of the running init, run or shutdown
    active,      \* the interfaces whose health record says is_active
    changed,     \* some _state_changed is set
    handling,    \* the signals whose handlers are on the stack
    locked,      \* what the handlers interrupted holds the lock of syslog
    rechecking,  \* sig_user2: "waits" for that lock, on top of the stack;
                 \* is "below" another handler, never to go on; or "none"
    orphans,     \* commands a signal overtook, still to take effect
    pidfile,     \* external: holds the number of this process, or is stale
    restarting,  \* external: the init script sleeps within restart
    mishaps,     \* kills, overtaken and failed commands so far
    faults,      \* history: failed commands
    botched,     \* history: where a command of this instance failed
    left,        \* history: configurations that may have left something
    raced        \* history: a command took effect during or after shutdown

process == <<cfg, todo, active, changed, handling, locked, rechecking>>
outside == <<pidfile, restarting>>
history == <<faults, botched, mishaps, left, raced>>
vars == <<kernel, proc, process, orphans, outside, history>>

Running == {"forked", "init", "test", "apply", "run", "ending"}

TypeOK ==
    /\ proc \in Running \cup {"off", "dead"}
    /\ cfg \in Configs
    /\ active \subseteq Ifaces
    /\ {changed, locked, restarting, raced} \subseteq BOOLEAN
    /\ handling \subseteq Signals
    /\ handling # {} => proc = "ending"
    /\ rechecking \in {"none", "waits", "below"}
    /\ todo # <<>> => proc \in {"init", "run", "ending"}
    /\ pidfile \in {"stale", "current"}
    /\ pidfile = "current" => proc \in Running
    /\ faults \in 0..MaxMishaps
    /\ botched \subseteq {"init", "run", "ending"}
    /\ mishaps \in 0..MaxMishaps /\ left \subseteq Configs
    /\ Cardinality(orphans) <= Cardinality(Signals) + 1

Init ==
    /\ kernel = Bare /\ orphans = {}
    /\ proc = "off" /\ cfg \in Configs
    /\ todo = <<>> /\ active = Ifaces /\ changed = TRUE
    /\ handling = {} /\ locked = FALSE /\ rechecking = "none"
    /\ pidfile = "stale" /\ restarting = FALSE
    /\ faults = 0 /\ botched = {} /\ mishaps = 0 /\ left = {} /\ raced = FALSE

-----------------------------------------------------------------------------
Mishap == mishaps < MaxMishaps /\ mishaps' = mishaps + 1

(* The process.                                                            *)

(* start-stop-daemon starts nothing while a wan_lb runs.  The shells of a  *)
(* dead one have ended by then.                                            *)
Spawn ==
    IF proc \in {"off", "dead"}
    THEN /\ orphans = {}
         /\ proc' = "forked"
         /\ cfg' \in Configs
         /\ todo' = <<>> /\ active' = Ifaces /\ changed' = TRUE
         /\ handling' = {} /\ locked' = FALSE /\ rechecking' = "none"
         /\ botched' = {} /\ raced' = FALSE
         /\ left' = IF raced THEN left \cup {cfg} ELSE left
    ELSE UNCHANGED <<proc, process, botched, raced, left>>

(* pid_output, then set_conf, whose result is always true.  The exit(1)    *)
(* for want of the group vyattacfg is an end without shutdown: Dies.       *)
WritePid ==
    /\ proc = "forked"
    /\ pidfile' = "current"
    /\ proc' = "init"
    /\ todo' = InitCmds(cfg)
    /\ UNCHANGED <<kernel, cfg, active, changed, handling, locked, rechecking,
                   orphans, restarting, history>>

(* Whatever runs, sig_user2 is not on top of it, waiting.                  *)
Awake == rechecking # "waits"

(* LBDecision::execute; nobody looks at the result.                        *)
Execute ==
    /\ todo # <<>> /\ Awake
    /\ \/ /\ kernel' = Executed(kernel, Head(todo))
          /\ UNCHANGED <<mishaps, faults, botched>>
       \/ /\ Mishap
          /\ faults' = faults + 1
          /\ botched' = botched \cup {proc}
          /\ UNCHANGED kernel
    /\ todo' = Tail(todo)
    /\ UNCHANGED <<proc, cfg, active, changed, handling, locked, rechecking,
                   orphans, outside, left, raced>>

(* The end of init: handlers are installed, the loop begins.               *)
Initialised ==
    /\ proc = "init" /\ todo = <<>>
    /\ proc' = "test"
    /\ UNCHANGED <<kernel, process, orphans, outside, history>>

(* LoadBalance::health_test, whatever its outcome.                         *)
HealthTest ==
    /\ proc = "test" /\ Awake
    /\ active' \in SUBSET Ifaces
    /\ changed' = (changed \/ active' # active)
    /\ proc' = "apply"
    /\ UNCHANGED <<kernel, cfg, todo, handling, locked, rechecking, orphans,
                   outside, history>>

(* LoadBalance::apply_rules up to its first command.                       *)
ApplyRules ==
    /\ proc = "apply" /\ Awake
    /\ proc' = "run"
    /\ todo' = PathCmds(kernel, cfg, active)
               \o If(changed, RunCmds(cfg, active))
    /\ botched' = IF changed THEN botched \ {"run"} ELSE botched
    /\ UNCHANGED <<kernel, cfg, active, changed, handling, locked, rechecking,
                   orphans, outside, faults, mishaps, left, raced>>

(* The output, the sleep and LoadBalance::start_cycle.                     *)
StartCycle ==
    /\ proc = "run" /\ todo = <<>> /\ Awake
    /\ changed' = FALSE
    /\ proc' = "test"
    /\ UNCHANGED <<kernel, cfg, todo, active, handling, locked, rechecking,
                   orphans, outside, history>>

-----------------------------------------------------------------------------
(* Signals.                                                                *)

(* A command that had been started may take effect later.                  *)
Overtaken ==
    \/ UNCHANGED <<orphans, mishaps>>
    \/ todo # <<>> /\ orphans' = orphans \cup {Head(todo)} /\ Mishap

(* The memory of the process is gone, or not read any more.                *)
Forget == active' = Ifaces /\ changed' = TRUE

(* The process ends without running its handlers.  Its last command takes  *)
(* effect, as if it had died later, or not.                                *)
Dies ==
    /\ Mishap
    /\ proc' = "dead"
    /\ todo' = <<>> /\ handling' = {} /\ locked' = FALSE
    /\ rechecking' = "none"
    /\ left' = left \cup {cfg}
    /\ pidfile' = "stale"
    /\ Forget
    /\ UNCHANGED <<kernel, cfg, orphans, faults, botched, raced>>

(* A handler leaves the signal it handles unblocked, as System V's did.    *)
BlockNone(sig) == handling

Block(sig) == handling \cup {sig}

(* Where main, or the handler on top, may be inside syslog. *)
InSyslog == proc \in {"test", "apply", "run"} \/ (proc = "ending" /\ todo = <<>>)

(* sig_end and sig_user1: delete g_lb shuts down, within the handler, which*)
(* then calls syslog.  A second terminating signal shuts down again, from  *)
(* the start; after the first deletion that is undefined, here a crash or  *)
(* the same commands.  What is interrupted never goes on: main, or another *)
(* handler, which may be inside syslog, or sig_user2 inside its own.       *)
Handle(sig) ==
    /\ sig \notin handling
    /\ proc' = "ending"
    /\ todo' = ShutdownCmds(cfg)
    /\ handling' = Block(sig)
    /\ \/ Awake /\ UNCHANGED <<locked, rechecking>>
       \/ Awake /\ InSyslog /\ locked' = TRUE /\ UNCHANGED rechecking
       \/ rechecking # "below" /\ locked' = TRUE /\ rechecking' = "below"
    /\ Overtaken /\ Forget
    /\ UNCHANGED <<kernel, cfg, pidfile, faults, botched, left, raced>>

(* sig_user2 after init calls syslog too: over what is inside syslog, or   *)
(* over a handler that itself interrupted such, it waits for ever.  All it *)
(* does otherwise is to set g_check_path (LBPaths).                        *)
Recheck ==
    /\ pidfile = "current" /\ proc \in {"test", "apply", "run", "ending"}
    /\ rechecking = "none" /\ (locked \/ InSyslog)
    /\ locked' = TRUE /\ rechecking' = "waits"
    /\ UNCHANGED <<kernel, proc, cfg, todo, active, changed, handling, orphans,
                   outside, history>>

(* What becomes of the process.  Its default, while there are no handlers, *)
(* is to end it.                                                           *)
Deliver(sig) ==
    \/ proc \in {"forked", "init"} /\ Dies
    \/ proc \in {"test", "apply", "run", "ending"} /\ Handle(sig)
    \/ proc = "ending" /\ todo = <<>> /\ sig \notin handling /\ Dies

(* The slip goes back from the handler to where main was interrupted.      *)
ExitInHandler ==
    /\ proc = "ending" /\ todo = <<>> /\ ~locked
    /\ proc' = "test"
    /\ UNCHANGED <<kernel, cfg, todo, active, changed, handling, locked,
                   rechecking, orphans, outside, history>>

(* exit(0), once the handler has shut down and logged it.                  *)
Exit ==
    /\ proc = "ending" /\ todo = <<>> /\ ~locked
    /\ proc' = "off" /\ handling' = {} /\ rechecking' = "none"
    /\ pidfile' = "stale"
    /\ UNCHANGED <<kernel, cfg, todo, active, changed, locked, orphans,
                   restarting, history>>

(* An overtaken command takes effect.                                      *)
Late ==
    \E cmd \in orphans :
        /\ kernel' = Executed(kernel, cmd)
        /\ orphans' = orphans \ {cmd}
        /\ raced' = (raced \/ proc \in {"ending", "off"})
        /\ UNCHANGED <<proc, process, outside, faults, botched, mishaps, left>>

-----------------------------------------------------------------------------
(* The init script and what else sends signals.                            *)

Start ==
    /\ ~restarting
    /\ Spawn
    /\ UNCHANGED <<kernel, orphans, outside, faults, mishaps>>

(* stop sends SIGTERM to the number in the pid file.                       *)
StopSignal ==
    IF pidfile = "current" /\ "SIGTERM" \notin handling
    THEN Deliver("SIGTERM")
    ELSE UNCHANGED <<kernel, proc, process, orphans, pidfile, history>>

Stop == ~restarting /\ StopSignal /\ UNCHANGED restarting

(* restart: stop, sleep 1, start.                                          *)
Restart == ~restarting /\ StopSignal /\ restarting' = TRUE

RestartStart ==
    /\ restarting
    /\ Spawn
    /\ restarting' = FALSE
    /\ UNCHANGED <<kernel, orphans, pidfile, faults, mishaps>>

(* What ends the daemon otherwise: a terminating signal of somebody else,  *)
(* SIGKILL, a crash or an exit before init, a SIGUSR2 of a dhcp or ppp     *)
(* hook before its handler is installed.                                   *)
Terminate(sig) == proc \in Running /\ Deliver(sig) /\ UNCHANGED restarting
Crash          == proc \in Running /\ Dies /\ UNCHANGED restarting
Wake           == pidfile = "current" /\ proc = "init" /\ Dies
                  /\ UNCHANGED restarting

-----------------------------------------------------------------------------
Daemon == \/ WritePid \/ Execute \/ Initialised \/ HealthTest \/ ApplyRules
          \/ StartCycle \/ Exit

Next == \/ Daemon \/ Late \/ Start \/ Stop \/ Restart \/ RestartStart
        \/ (\E sig \in Signals : Terminate(sig)) \/ Wake \/ Recheck \/ Crash

(* Every command ends, and so does every wait but those for its own lock.  *)
Spec == Init /\ [][Next]_vars /\ WF_vars(Daemon)

-----------------------------------------------------------------------------
(* The interfaces whose mark packets that pass a chain may get.            *)
Entered(S) == S \cup (DOMAIN kernel.chains
                        \cap UNION {Range(kernel.chains[b]) : b \in S})
Marked(base) ==
    LET passed == UNION {Range(kernel.chains[c]) :
                           c \in Entered(Entered(Entered({base})))}
    IN  {i \in Ifaces : MARK(i) \in passed}

(* No packet is ever given the mark of an interface without the policy     *)
(* rule that takes the mark to the table of the interface: not while init, *)
(* run or shutdown are half way, not after a kill at any point, not while  *)
(* another start repairs what a kill left, and not when a command overtaken*)
(* by a signal takes effect late.  For local traffic, unless instances with*)
(* and without local balancing were killed.                                *)
MarkedIsRouted ==
    faults = 0 =>
        /\ Marked(PREROUTING) \subseteq kernel.rules
        /\ (\A c \in left \cup {cfg} : c.local) \/ (\A c \in left : ~c.local) =>
               Marked(OUTPUT) \subseteq kernel.rules

(* The chains a configuration and a set of active interfaces call for.     *)
WantedOf == [c \in Configs |-> [ran \in BOOLEAN |-> [up \in SUBSET Ifaces |->
    ExecutedAll(ExecutedAll(Bare, InitCmds(c)), If(ran, RunCmds(c, up))).chains]]]
Wanted == WantedOf[cfg][proc = "run" \/ ~changed][active]

(* Whenever a cycle begins, the chains are those of the configuration and  *)
(* of the active interfaces, whatever a killed instance left behind and    *)
(* whatever it was configured for, unless a command of this init or of the *)
(* last run failed.                                                        *)
RulesInForce ==
    proc = "test" /\ botched = {} =>
        LET w == Wanted IN
        /\ \A c \in DOMAIN w \ {PREROUTING, OUTPUT, HOOK} :
              Exists(kernel, c) /\ kernel.chains[c] = w[c]
        /\ Jumps(kernel, PREROUTING, PRE)
        /\ cfg.local => Jumps(kernel, OUTPUT, OUT)
        /\ cfg.nat => kernel.chains[HOOK] = <<NAT>>
        /\ kernel.rules = Ifaces /\ kernel.routes = Ifaces

(* While run rebuilds a chain, packets meet a beginning of the new one,    *)
(* never a mixture of the old and the new.                                 *)
RebuildIsPrefix ==
    proc = "run" /\ changed /\ botched = {} =>
        LET w == Wanted IN
        \A c \in {PRE} \cup (IF cfg.local THEN {OUT} ELSE {}) :
            IsPrefix(kernel.chains[c], w[c]) \/ Contains(todo, Flush(c))

(* Kills and restarts do not pile up the jumps to the balancing chains: at *)
(* most one each, and one more for a removal that failed.  Those to the    *)
(* chains of inbound connections, which init inserts without removing what *)
(* is there, do pile up, but only by what a kill, a failed command or a    *)
(* command overtaken by a signal left: an orderly end takes one away for   *)
(* every one that its start inserted.                                      *)
OneHook ==
    /\ JumpCount(kernel, PREROUTING, PRE) <= 1 + faults
    /\ JumpCount(kernel, OUTPUT, OUT) <= 1 + faults
    /\ \A i \in Ifaces :
           JumpCount(kernel, PREROUTING, INBOUND(i)) <= 1 + mishaps

(* What a killed instance of configuration c leaves, the shutdown of cfg   *)
(* removes too.                                                            *)
Limits(c) == {r \in DOMAIN c.rules : c.rules[r].limit}
Covers(c) == /\ c.local => cfg.local
             /\ ~c.sticky
             /\ Limits(c) \subseteq Limits(cfg)

(* After an orderly end nothing of the daemon is left in the path of a     *)
(* packet, no policy rule, and no mangle chain unless a command took       *)
(* effect late; the nat chain stays, empty.  This includes what killed     *)
(* instances left, when the configurations fit, and ends by several        *)
(* signals one within the other.                                           *)
ShutdownCleans ==
    proc = "off" /\ faults = 0 /\ (\A c \in left : Covers(c)) =>
        /\ kernel.chains[PREROUTING] = <<>> /\ kernel.chains[OUTPUT] = <<>>
        /\ kernel.chains[HOOK] = <<>>
        /\ kernel.rules = {}
        /\ ~raced => /\ DOMAIN kernel.chains \subseteq {PREROUTING, OUTPUT, HOOK, NAT}
                     /\ kernel.routes = {}
                     /\ Exists(kernel, NAT) => kernel.chains[NAT] = <<>>

(* A shutdown comes to its end although other signals interrupt it and     *)
(* begin it again.  If not, a lock of syslog is held by what a handler     *)
(* interrupted, and either all its commands are executed and only its      *)
(* message is left, or a SIGUSR2 came over it.                             *)
StopEnds ==
    proc = "ending" ~> \/ proc # "ending"
                       \/ locked /\ (todo = <<>> \/ rechecking = "waits")

(* What the operational command promises (templates-op/restart/            *)
(* wan-load-balance/node.def:1 "help: Restart WAN load balancing"): a      *)
(* restart leaves a daemon that runs, not one about to end.                *)
RestartEndsRunning ==
    [][RestartStart => proc' \in Running \ {"ending"}]_vars
=============================================================================
