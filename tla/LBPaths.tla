------------------------------- MODULE LBPaths -------------------------------
(***************************************************************************)
(* The kernel state of one interface that LBDecision keeps in step with    *)
(* the addresses dhcp and ppp hand out: the source nat rules of its mark   *)
(* and the default route of its table.  init writes them once;             *)
(* update_paths compares and repairs them, called by LBDecision::run in    *)
(* every cycle and by main after a SIGUSR2.  In between the address, the   *)
(* lease and the route may change, and any command may fail, or not even   *)
(* start.                                                                  *)
(*                                                                         *)
(* A rule is the address it translates to, a route its gateway.  The first *)
(* rule of the list is the one that translates.                            *)
(*                                                                         *)
(* SIGUSR2 may also stop the daemon: for as long as no packet comes, when  *)
(* it interrupts the wait for answers, and for good, when it interrupts    *)
(* main inside syslog, which its handler calls too.                        *)
(***************************************************************************)
EXTENDS Integers, Sequences, SequencesExt

CONSTANTS
    None,        \* no address, no gateway: the empty string
    Addrs,       \* addresses the interface may get
    Hops,        \* gateways
    Contained,   \* pairs of gateways, the text of the first within the second
    Outcomes,    \* what may become of a command, see Cost
    MaxChanges,  \* bound on changes around the daemon
    MaxFaults,   \* bound on commands and sockets that fail without cause
    MaxRules     \* bound on the rules of the interface

ASSUME PathsAssumption ==
    /\ None \notin Addrs \cup Hops
    /\ Contained \subseteq Hops \X Hops
    /\ "done" \in Outcomes /\ Outcomes \subseteq {"done", "failed", "lost"}
    /\ MaxChanges \in Nat /\ MaxFaults \in Nat /\ MaxRules \in Nat \ {0}

VARIABLES
    nexthop,        \* LBHealth::_nexthop, or None for "dhcp"
    source_nat,     \* ~ LBData::_disable_source_nat
    ppp,            \* external: the lease is the file of the ppp hook
    iface_addr,     \* external: the address of the interface
    lease,          \* external: the gateway in its lease or ppp file
    table,          \* external: the gateway in its routing table
    snat,           \* external: its rules in nat WANLOADBALANCE
    address,        \* LBHealth::_address
    dhcp_nexthop,   \* LBHealth::_dhcp_nexthop
    is_active,      \* LBHealth::_is_active
    g_check_path,
    pc,             \* where main is
    caller,         \* the caller of the running update_paths
    new_addr,       \* what update_paths fetched
    changes,        \* changes around the daemon so far
    faults,         \* commands and sockets that failed so far
    botched,        \* history: the code lost track of a rule
    asked           \* history: SIGUSR2 came, update_paths not called since

external == <<iface_addr, lease, changes>>
kernel   == <<table, snat, faults, botched>>
health   == <<address, dhcp_nexthop, is_active>>
config   == <<nexthop, source_nat, ppp>>
vars == <<config, external, kernel, health, g_check_path, pc, caller,
          new_addr, asked>>

TypeOK ==
    /\ nexthop \in Hops \cup {None}
    /\ {source_nat, ppp} \subseteq BOOLEAN
    /\ iface_addr \in Addrs \cup {None}
    /\ {lease, table, dhcp_nexthop} \subseteq Hops \cup {None}
    /\ snat \in Seq(Addrs) /\ Len(snat) <= MaxRules
    /\ {address, new_addr} \subseteq Addrs \cup {None}
    /\ {is_active, g_check_path, botched, asked} \subseteq BOOLEAN
    /\ pc \in {"chain", "init", "initnat", "top", "fetch", "route", "snat",
               "clear", "test", "apply", "next", "recv", "stuck"}
    /\ caller \in {"main", "run"}
    /\ changes \in 0..MaxChanges
    /\ faults \in 0..MaxFaults

(* A routing table may still hold the route of an earlier run, and the     *)
(* chain a rule of it.                                                     *)
Init ==
    /\ nexthop \in Hops \cup {None}
    /\ source_nat \in BOOLEAN /\ ppp \in BOOLEAN /\ (ppp => nexthop = None)
    /\ iface_addr \in Addrs \cup {None}
    /\ lease \in Hops \cup {None}
    /\ table \in Hops \cup {None}
    /\ snat \in {<<>>} \cup {<<a>> : a \in Addrs}
    /\ address = None /\ dhcp_nexthop = None /\ is_active = TRUE
    /\ g_check_path = FALSE
    /\ pc = "chain" /\ caller = "run" /\ new_addr = None
    /\ changes = 0 /\ faults = 0 /\ botched = FALSE /\ asked = FALSE

-----------------------------------------------------------------------------
(* The gateway to use, and the slip of using the configured word itself. *)
GatewayWord == IF nexthop = None THEN "dhcp" ELSE nexthop
Gateway == IF nexthop = None THEN dhcp_nexthop ELSE nexthop

(* LBDecision::execute: a command is done, which the kernel may still      *)
(* refuse; or fails without cause, with an error; or is lost, as popen did *)
(* not start it, and then execute returns 0, as if it had been done.       *)
Cost(o)   == IF o = "done" THEN 0 ELSE 1
Charge(n) == faults + n <= MaxFaults /\ faults' = faults + n

Added(rules, a)   == IF Len(rules) < MaxRules THEN Append(rules, a) ELSE rules
Deleted(rules, a) == RemoveFirst(rules, a)

(* fetch_iface_addr: the address, or none if it gets no socket. *)
Fetched == {iface_addr, None}
FetchCost(a) == IF a = iface_addr THEN 0 ELSE 1

(* LBDecision::init: the chain is flushed.  The code goes on over the rule *)
(* of an earlier run if it is not.                                         *)
InitChain ==
    /\ pc = "chain"
    /\ IF source_nat
       THEN \E flush \in Outcomes :
            /\ Charge(Cost(flush))
            /\ snat' = IF flush = "done" THEN <<>> ELSE snat
            /\ botched' = (snat' # <<>>)
       ELSE UNCHANGED <<snat, faults, botched>>
    /\ pc' = "init"
    /\ UNCHANGED <<config, external, table, health, g_check_path, caller,
                   new_addr, asked>>

(* The route is forced.                                                    *)
InitRoute ==
    /\ pc = "init"
    /\ IF Gateway = None THEN UNCHANGED <<table, faults>>
       ELSE \E replace \in Outcomes :
            /\ Charge(Cost(replace))
            /\ table' = IF replace = "done" THEN Gateway ELSE table
    /\ pc' = "initnat"
    /\ UNCHANGED <<config, external, snat, botched, health, g_check_path,
                   caller, new_addr, asked>>

(* The first nat rule.  Its command fails without an address.              *)
WriteRule(add, a) ==
    /\ snat' = IF add = "done" /\ a # None THEN Added(snat, a) ELSE snat
    /\ address' = IF add = "lost" \/ (add = "done" /\ a # None)
                  THEN a ELSE address
    /\ botched' = (botched \/ (add = "lost" /\ a # None))

InitNat ==
    /\ pc = "initnat"
    /\ IF source_nat
       THEN \E add \in Outcomes, a \in Fetched :
            /\ Charge(Cost(add) + FetchCost(a))
            /\ WriteRule(add, a)
       ELSE UNCHANGED <<snat, address, faults, botched>>
    /\ pc' = "top"
    /\ UNCHANGED <<config, external, table, dhcp_nexthop, is_active,
                   g_check_path, caller, new_addr, asked>>

(* The top of main's loop: g_check_path calls for an extra update_paths. *)
Top ==
    /\ pc = "top"
    /\ pc' = IF g_check_path THEN "fetch" ELSE "test"
    /\ caller' = "main"
    /\ UNCHANGED <<config, external, kernel, health, g_check_path, new_addr,
                   asked>>

Return == IF caller = "main" THEN "clear" ELSE "next"

(* update_paths: an inactive interface is passed over. *)
Fetch ==
    /\ pc = "fetch"
    /\ asked' = FALSE
    /\ IF is_active
       THEN /\ new_addr' \in Fetched /\ Charge(FetchCost(new_addr'))
            /\ pc' = "route"
       ELSE UNCHANGED <<new_addr, faults>> /\ pc' = Return
    /\ UNCHANGED <<config, external, table, snat, botched, health,
                   g_check_path, caller>>

(* insert_default: replace the route unless the table, which ip route show *)
(* prints, has a text that contains the gateway.  One read from the ppp    *)
(* file never is in it, for the newline the hook's echo writes.  The slip  *)
(* takes any route for the right one.                                      *)
AnyRoute(gw) == table # None
RouteFound(gw) == /\ ~(nexthop = None /\ ppp)
                  /\ table = gw \/ <<gw, table>> \in Contained

InsertDefault ==
    /\ pc = "route"
    /\ IF Gateway = None THEN UNCHANGED <<table, faults>>
       ELSE \E show, replace \in Outcomes :
            LET found == show = "done" /\ RouteFound(Gateway) IN
            /\ found => replace = "done"
            /\ Charge(Cost(show) + Cost(replace))
            /\ table' = IF ~found /\ replace = "done" THEN Gateway ELSE table
    /\ pc' = "snat"
    /\ UNCHANGED <<config, external, snat, botched, health, g_check_path,
                   caller, new_addr, asked>>

(* The nat part of update_paths: delete the rule of the recorded address,  *)
(* add one for the fetched address, record it if neither returns an error, *)
(* as neither does that is lost.  The slips forget the deletion and the    *)
(* test.                                                                   *)
AddOnly(del, add) ==
    /\ snat' = IF new_addr # None /\ add = "done"
               THEN Added(snat, new_addr) ELSE snat
    /\ address' = IF add = "failed" THEN address ELSE new_addr


ReplaceRule(del, add) ==
    LET gone == IF address # None /\ del = "done"
                THEN Deleted(snat, address) ELSE snat
        err  == \/ del = "failed" \/ add = "failed"
                \/ /\ address # None /\ del = "done"
                   /\ ~Contains(snat, address)
    IN  /\ snat' = IF new_addr # None /\ add = "done"
                   THEN Added(gone, new_addr) ELSE gone
        /\ address' = IF err THEN address ELSE new_addr

(* What leaves the code with another rule than it has recorded. *)
Botches(del, add) ==
    \/ "lost" \in {del, add}
    \/ "failed" \in {del, add} /\ address # None /\ new_addr # None

UpdateNat ==
    /\ pc = "snat"
    /\ IF source_nat /\ new_addr # address
       THEN \E del, add \in Outcomes :
            /\ address = None => del = "done"
            /\ new_addr = None => add = "done"
            /\ Charge(Cost(del) + Cost(add))
            /\ ReplaceRule(del, add)
            /\ botched' = (botched \/ Botches(del, add))
       ELSE UNCHANGED <<snat, address, faults, botched>>
    /\ pc' = Return
    /\ UNCHANGED <<config, external, table, dhcp_nexthop, is_active,
                   g_check_path, caller, new_addr, asked>>

(* main, after its own update_paths. *)
ClearCheck ==
    /\ pc = "clear"
    /\ g_check_path' = FALSE
    /\ pc' = "test"
    /\ UNCHANGED <<config, external, kernel, health, caller, new_addr, asked>>

(* The health tests, whatever their outcome, if they end. *)
HealthTest ==
    /\ pc = "test"
    /\ is_active' \in BOOLEAN
    /\ pc' = "apply"
    /\ UNCHANGED <<config, external, kernel, address, dhcp_nexthop,
                   g_check_path, caller, new_addr, asked>>

(* LBDecision::run starts with update_paths, and without it. *)
RunOnlyRules ==
    /\ pc = "apply"
    /\ pc' = "next" /\ caller' = "run"
    /\ UNCHANGED <<config, external, kernel, health, g_check_path, new_addr,
                   asked>>

Run ==
    /\ pc = "apply"
    /\ pc' = "fetch" /\ caller' = "run"
    /\ UNCHANGED <<config, external, kernel, health, g_check_path, new_addr,
                   asked>>

(* LBData::update_dhcp_nexthop, at the end of a cycle. *)
StartCycle ==
    /\ pc = "next"
    /\ dhcp_nexthop' = IF nexthop = None /\ lease # None THEN lease
                       ELSE dhcp_nexthop
    /\ pc' = "top"
    /\ UNCHANGED <<config, external, kernel, address, is_active,
                   g_check_path, caller, new_addr, asked>>

-----------------------------------------------------------------------------
Change == changes < MaxChanges /\ changes' = changes + 1

AddressChanges ==
    /\ Change
    /\ iface_addr' \in (Addrs \cup {None}) \ {iface_addr}
    /\ UNCHANGED <<config, lease, kernel, health, g_check_path, pc, caller,
                   new_addr, asked>>

LeaseChanges ==
    /\ Change
    /\ lease' \in Hops \ {lease}
    /\ UNCHANGED <<config, iface_addr, kernel, health, g_check_path, pc,
                   caller, new_addr, asked>>

(* The kernel drops the routes of an interface that goes down. *)
RouteLost ==
    /\ Change
    /\ table # None /\ table' = None
    /\ UNCHANGED <<config, iface_addr, lease, snat, faults, botched, health,
                   g_check_path, pc, caller, new_addr, asked>>

(* sig_user2, once its handler is installed.  It interrupts main anywhere: *)
(* in the select of a health test, which leads to a recv without timeout   *)
(* (LBPathTest), and inside syslog, whose lock its own syslog waits for.   *)
CheckPath ==
    /\ pc \notin {"chain", "init", "initnat", "stuck"}
    /\ Change
    /\ g_check_path' = TRUE /\ asked' = TRUE
    /\ \/ pc' = pc
       \/ pc = "test" /\ pc' = "recv"
       \/ pc \notin {"top", "clear", "recv"} /\ pc' = "stuck"
    /\ UNCHANGED <<config, iface_addr, lease, kernel, health, caller, new_addr>>

(* An ICMP packet, of whomever, ends the recv. *)
PacketArrives ==
    /\ pc = "recv"
    /\ pc' = "test"
    /\ UNCHANGED <<config, external, kernel, health, g_check_path, caller,
                   new_addr, asked>>

Daemon ==
    \/ InitChain \/ InitRoute \/ InitNat \/ Top \/ Fetch \/ InsertDefault \/ UpdateNat
    \/ ClearCheck \/ HealthTest \/ Run \/ StartCycle

Next == Daemon \/ AddressChanges \/ LeaseChanges \/ RouteLost \/ CheckPath
        \/ PacketArrives

(* Commands and user tests end, and so does every wait but those a SIGUSR2 *)
(* makes endless.                                                          *)
Spec == Init /\ [][Next]_vars /\ WF_vars(Daemon)

-----------------------------------------------------------------------------
(* The daemon waits for a packet or for its own lock. *)
Waits == pc \in {"recv", "stuck"}

(* With source nat, init and update_paths keep exactly one rule for the    *)
(* recorded address and none without one, through every change of address, *)
(* as long as init could flush what was in the chain, every later nat      *)
(* command was started and none failed while a recorded address was being  *)
(* replaced.  An error of any other nat command does no harm, nor does an  *)
(* address that could not be fetched.                                      *)
OneRuleForAddress ==
    source_nat /\ pc # "chain" /\ ~botched =>
        snat = IF address = None THEN <<>> ELSE <<address>>


(* The route of an interface that stays active comes to lead to its        *)
(* gateway, or to one whose text contains that gateway's: the comparison   *)
(* with the kernel repairs lost routes, failed commands and commands that  *)
(* were never started, unless a SIGUSR2 makes the daemon wait for ever.    *)
RouteFollows ==
    <>[]is_active =>
        LET gw == IF nexthop = None THEN lease ELSE nexthop
        IN  \/ <>[]Waits
            \/ <>[](gw # None => table = gw \/ <<gw, table>> \in Contained)

(* A SIGUSR2 is always followed by an update_paths that began after it,    *)
(* even one that comes between main's update_paths and the clearing of     *)
(* g_check_path, unless this or another SIGUSR2 makes the daemon wait for  *)
(* ever.                                                                   *)
CheckIsHonoured == <>[]Waits \/ (asked ~> ~asked)

(* What the changelog says (debian/changelog:478 "fix for case where       *)
(* iptables command fails on setting snat rules after receiving new        *)
(* address", 479 "in this case the new address is not recorded and we'll   *)
(* try creating the rule on the next processing cycle until successful"):  *)
(* a failed command is retried until the address is recorded.              *)
RetriesUntilRecorded ==
    source_nat /\ <>[]is_active => <>[]Waits \/ <>[](address = iface_addr)
=============================================================================
