----------------------------- MODULE LBPathTest -----------------------------
(***************************************************************************)
(* One cycle of health tests (LBPathTest::start): rounds in which every    *)
(* interface still undecided starts its next test, all tests are sent, and *)
(* the answers are collected, until each interface has answered or run out *)
(* of tests.  The ping and the ttl tests share the static state of LBTest  *)
(* (_received, _packet_id, _results) and one raw ICMP socket; the user     *)
(* test runs a script and shares nothing.                                  *)
(*                                                                         *)
(* Time is the uptime in seconds.  The network may lose, delay and         *)
(* duplicate answers and brings ICMP packets of others.  SIGUSR2 (sent by  *)
(* the dhcp and ppp hooks) may arrive at any moment; it only matters here  *)
(* while the daemon sits in select.                                        *)
(***************************************************************************)
EXTENDS Integers, Sequences, FiniteSets, FiniteSetsExt

CONSTANTS
    NumIfaces,      \* interfaces, numbered in the order of set<LBHealth*>
    TestColls,      \* the configurations explored: [Ifaces -> Seq(Kinds)]
    Dhcp,           \* interfaces whose next hop may be unknown
    PingIds,        \* modulus of the ping test's packet ids (32767)
    MinPort,        \* LBTestTTL::_min_port_id (32767)
    MaxPort,        \* LBTestTTL::_max_port_id (55000)
    SelectTimeout,  \* seconds a receive waits (3)
    Window,         \* seconds a round waits (5)
    RespTime,       \* LBTest::_resp_time, in seconds
    MaxInFlight     \* bound on the answers on their way

Ifaces == 1..NumIfaces
Kinds  == {"ping", "ttl", "user"}
Ids    == 0..(IF PingIds > MaxPort THEN PingIds ELSE MaxPort)

(* A wait that was interrupted may last for ever; all times past the       *)
(* window are alike.                                                       *)
LongTime == Window + SelectTimeout

ASSUME PathTestAssumption ==
    /\ NumIfaces \in Nat \ {0}
    /\ TestColls \subseteq [Ifaces -> Seq(Kinds)]
    /\ Dhcp \subseteq Ifaces
    /\ {PingIds, MinPort, MaxPort, SelectTimeout, Window, RespTime,
        MaxInFlight} \subseteq Nat \ {0}

(* There are far fewer interfaces than ids: 32767 for the ping test, 22233 *)
(* for the ttl test.                                                       *)
ASSUME IdsAssumption ==
    /\ NumIfaces <= PingIds
    /\ MinPort + 2 * NumIfaces <= MaxPort + 1

VARIABLES
    tests,      \* _test_coll of every interface
    pc,         \* "idle", "round", "send", "recv", "select" or "blocked"
    coll,       \* LBPathTest::start: interfaces not decided yet
    turn,       \* the interface the loops over coll have reached
    test_iter,  \* _test_iter of every interface
    script_ok,  \* _state of the user test of every interface
    received,   \* LBTest::_received
    packet_id,  \* LBTest::_packet_id
    results,    \* LBTest::_results, a function on some packet ids
    pending,    \* pending_result_ct of LBTest::recv
    elapsed,    \* seconds since LBTest::recv began to wait
    waiting,    \* seconds since the last select began
    net,        \* answers on their way: [id, iface, fresh]
    puts,       \* history: results put in each health record this cycle
    answered,   \* history: interfaces whose probe of this round was answered
    foreign,    \* history: interfaces whose probe's id came in a packet of others
    repeated    \* history: an id was received twice in this round

shared  == <<received, packet_id, results>>
clock   == <<pending, elapsed, waiting>>
ghosts  == <<answered, foreign, repeated>>
vars == <<tests, pc, coll, turn, test_iter, script_ok, shared, clock, net,
          puts, ghosts>>

Entry == [iface : Ifaces, rtt : Int]
Answer == [id : Ids, iface : Ifaces, fresh : BOOLEAN]

TypeOK ==
    /\ tests \in TestColls
    /\ pc \in {"idle", "round", "send", "recv", "select", "blocked"}
    /\ coll \subseteq Ifaces
    /\ turn \in 0..NumIfaces
    /\ \A i \in Ifaces : test_iter[i] \in 1..(Len(tests[i]) + 1)
    /\ script_ok \in [Ifaces -> BOOLEAN]
    /\ received \in BOOLEAN
    /\ packet_id \in Ids
    /\ DOMAIN results \subseteq Ids
    /\ \A id \in DOMAIN results : results[id] \in Entry
    /\ pending \in 0..NumIfaces
    /\ elapsed \in 0..LongTime
    /\ waiting \in 0..SelectTimeout
    /\ net \subseteq Answer
    /\ puts \in [Ifaces -> Seq({-1, 0})]
    /\ answered \subseteq Ifaces /\ foreign \subseteq Ifaces
    /\ repeated \in BOOLEAN

NoResults == [id \in {} |-> [iface |-> 1, rtt |-> -1]]

Init ==
    /\ tests \in TestColls
    /\ pc = "idle"
    /\ coll = {}
    /\ turn = 0
    /\ test_iter = [i \in Ifaces |-> 1]
    /\ script_ok = [i \in Ifaces |-> FALSE]
    /\ received = FALSE
    /\ packet_id = 0
    /\ results = NoResults
    /\ pending = 0 /\ elapsed = 0 /\ waiting = 0
    /\ net = {}
    /\ puts = [i \in Ifaces |-> <<>>]
    /\ answered = {} /\ foreign = {} /\ repeated = FALSE

-----------------------------------------------------------------------------
(* Is _test_iter at the end?  The slip stops at the last test. *)
ExhaustedEarly(i) == test_iter[i] >= Len(tests[i])
Exhausted(i) == test_iter[i] > Len(tests[i])
Current(i)   == tests[i][test_iter[i]]
Probes(i)    == ~Exhausted(i) /\ Current(i) # "user"

(* The next interface of the running loop over coll. *)
IsNext(i)  == i \in coll /\ i > turn /\ \A j \in coll : j > turn => i <= j
LoopIsOver == \A j \in coll : j <= turn

(* LBPathTest::start, with LBHealth::start_new_test_cycle for everyone. *)
StartCycle ==
    /\ pc = "idle"
    /\ coll' = Ifaces
    /\ test_iter' = [i \in Ifaces |-> 1]
    /\ puts' = [i \in Ifaces |-> <<>>]
    /\ script_ok' = [i \in Ifaces |-> FALSE]
    /\ pc' = "round"
    /\ UNCHANGED <<tests, turn, shared, clock, net, ghosts>>

(* LBTest::start. *)
ForgetProbes == received' = FALSE /\ results' = NoResults

(* The head of the while loop: stop, or start a test on every interface    *)
(* left.  LBTest::start forgets the probes of the last round; the user     *)
(* test overrides it with nothing.                                         *)
StartRound ==
    /\ pc = "round"
    /\ IF coll = {}
       THEN pc' = "idle" /\ UNCHANGED <<shared, net, ghosts>>
       ELSE /\ pc' = "send"
            /\ IF \E i \in coll : Probes(i)
               THEN ForgetProbes
               ELSE UNCHANGED <<received, results>>
            /\ net' = {[a EXCEPT !.fresh = FALSE] : a \in net}
            /\ answered' = {} /\ foreign' = {} /\ repeated' = FALSE
            /\ UNCHANGED packet_id
    /\ turn' = 0
    /\ UNCHANGED <<tests, coll, test_iter, script_ok, clock, puts>>

(* _packet_id for the next ping and for the next ttl test, and the same    *)
(* without the step and without the limit.                                 *)
PingIdKept   == packet_id % PingIds
PortIdEndless == packet_id + 1
NextPingId == (packet_id + 1) % PingIds
NextPortId == (IF packet_id >= MaxPort THEN MinPort ELSE packet_id) + 1

(* Sending the probe may fail, and the answer may be lost; if it comes, it *)
(* comes later.  No answer is so late that its id is in use again.         *)
Probe(i, id) ==
    /\ packet_id' = id
    /\ results' = [x \in DOMAIN results \cup {id} |->
                     IF x \in DOMAIN results THEN results[x]
                     ELSE [iface |-> i, rtt |-> -1]]
    /\ LET others == {a \in net : a.id # id}
       IN  \/ net' = others
           \/ /\ Cardinality(others) < MaxInFlight
              /\ net' = others \cup {[id |-> id, iface |-> i, fresh |-> TRUE]}

(* LBTestICMP::send and LBTestTTL::send: no probe without a target.        *)
SendProbe(i, id) ==
    \/ i \in Dhcp /\ UNCHANGED <<packet_id, results, net>>
    \/ Probe(i, id)

SendPing(i) == SendProbe(i, NextPingId) /\ UNCHANGED script_ok
SendTTL(i)  == SendProbe(i, NextPortId) /\ UNCHANGED script_ok

(* LBTestUser::send runs the script to its end. *)
SendUser(i) ==
    /\ \E ok \in BOOLEAN : script_ok' = [script_ok EXCEPT ![i] = ok]
    /\ UNCHANGED <<packet_id, results, net>>

(* LBHealth::send_test. *)
Send(i) ==
    /\ pc = "send"
    /\ IsNext(i)
    /\ turn' = i
    /\ \/ Exhausted(i) /\ UNCHANGED <<script_ok, packet_id, results, net>>
       \/ ~Exhausted(i) /\ Current(i) = "ping" /\ SendPing(i)
       \/ ~Exhausted(i) /\ Current(i) = "ttl" /\ SendTTL(i)
       \/ ~Exhausted(i) /\ Current(i) = "user" /\ SendUser(i)
    /\ UNCHANGED <<tests, pc, coll, test_iter, received, clock, puts, ghosts>>

Sent ==
    /\ pc = "send" /\ LoopIsOver
    /\ pc' = "recv" /\ turn' = 0
    /\ UNCHANGED <<tests, coll, test_iter, script_ok, shared, clock, net,
                   puts, ghosts>>

-----------------------------------------------------------------------------
(* A failed test put into the record at once, and again at the end. *)
DecidePutsAll(i, rtt) ==
    /\ test_iter' = [test_iter EXCEPT ![i] = @ + 1]
    /\ puts' = [puts EXCEPT ![i] = Append(@, IF rtt >= 0 THEN 0 ELSE -1)]
    /\ coll' = IF rtt >= 0 THEN coll \ {i} ELSE coll
    /\ turn' = i

(* LBHealth::recv_test after the test returned rtt (-1 or the seconds).    *)
(* An answer decides the interface; otherwise its next test is due.        *)
Decide(i, rtt) ==
    /\ test_iter' = [test_iter EXCEPT ![i] = @ + 1]
    /\ IF rtt >= 0
       THEN /\ puts' = [puts EXCEPT ![i] = Append(@, 0)]
            /\ coll' = coll \ {i}
       ELSE UNCHANGED <<puts, coll>>
    /\ turn' = i

RecvExhausted(i) ==
    /\ pc = "recv" /\ IsNext(i) /\ Exhausted(i)
    /\ puts' = [puts EXCEPT ![i] = Append(@, -1)]
    /\ coll' = coll \ {i}
    /\ turn' = i
    /\ UNCHANGED <<tests, pc, test_iter, script_ok, shared, clock, net, ghosts>>

RecvUser(i) ==
    /\ pc = "recv" /\ IsNext(i) /\ ~Exhausted(i) /\ Current(i) = "user"
    /\ Decide(i, IF script_ok[i] THEN 1 ELSE -1)
    /\ UNCHANGED <<tests, pc, script_ok, shared, clock, net, ghosts>>

(* LBTest::recv for the first probe of the round: wait for all of them. *)
BeginWait(i) ==
    /\ pc = "recv" /\ IsNext(i) /\ Probes(i) /\ ~received
    /\ pending' = Cardinality(DOMAIN results)
    /\ elapsed' = 0 /\ waiting' = 0
    /\ IF pending' = 0
       THEN received' = TRUE /\ UNCHANGED pc
       ELSE pc' = "select" /\ UNCHANGED received
    /\ UNCHANGED <<tests, coll, turn, test_iter, script_ok, packet_id,
                   results, net, puts, ghosts>>

InTime(rtt) == 0 <= rtt /\ rtt < RespTime

(* The probes to look through for interface i, and without the comparison. *)
AnyProbe(i) == DOMAIN results
Mine(i)     == {id \in DOMAIN results : results[id].iface = i}

(* LBTest::recv once the round was received: look the probe up. *)
LookUp(i) ==
    /\ pc = "recv" /\ IsNext(i) /\ Probes(i) /\ received
    /\ IF Mine(i) = {}
       THEN Decide(i, -1) /\ UNCHANGED results
       ELSE LET id == Min(Mine(i)) IN
            /\ Decide(i, IF InTime(results[id].rtt) THEN results[id].rtt
                         ELSE -1)
            /\ results' = [x \in DOMAIN results \ {id} |-> results[x]]
    /\ UNCHANGED <<tests, pc, script_ok, received, packet_id, clock, net,
                   ghosts>>

Collected ==
    /\ pc = "recv" /\ LoopIsOver
    /\ pc' = "round"
    /\ UNCHANGED <<tests, coll, turn, test_iter, script_ok, shared, clock,
                   net, puts, ghosts>>

-----------------------------------------------------------------------------
(* The condition of the loop in LBTest::recv, after two slips of it: one   *)
(* without the clock, one that stops a probe short.                        *)
WaitsEndlessly(left) == left # 0
WaitsForAllButOne(left) == elapsed < Window /\ left > 1
KeepsWaiting(left) == elapsed < Window /\ left # 0

(* LBTest::receive returned id (-1 for everything that is no answer); the  *)
(* loop of LBTest::recv notes the time and goes on or is done.             *)
ReceiveReturns(id) ==
    /\ IF id \in DOMAIN results
       THEN /\ results' = [results EXCEPT ![id].rtt = elapsed]
            /\ pending' = pending - 1
       ELSE UNCHANGED <<results, pending>>
    /\ IF KeepsWaiting(pending')
       THEN pc' = "select" /\ UNCHANGED received
       ELSE pc' = "recv" /\ received' = TRUE
    /\ waiting' = 0
    /\ UNCHANGED <<tests, coll, turn, test_iter, script_ok, packet_id,
                   elapsed, puts>>

(* Was this probe answered before? *)
Again(id) == id \in DOMAIN results /\ results[id].rtt >= 0

(* An answer arrives; the network may hold on to a duplicate. *)
Deliver(a) ==
    /\ pc \in {"select", "blocked"}
    /\ a \in net
    /\ net' \in {net, net \ {a}}
    /\ answered' = IF a.fresh THEN answered \cup {a.iface} ELSE answered
    /\ repeated' = (repeated \/ Again(a.id))
    /\ UNCHANGED foreign
    /\ ReceiveReturns(a.id)

(* Some other ICMP packet arrives: the socket receives all of them, and    *)
(* receive takes whatever bytes are at the place of the id, without a look *)
(* at the sender or at the identifier of the echo.                         *)
Noise ==
    /\ pc \in {"select", "blocked"}
    /\ \E id \in DOMAIN results \cup {-1} :
        /\ foreign' = IF id = -1 THEN foreign
                      ELSE foreign \cup {results[id].iface}
        /\ repeated' = (repeated \/ Again(id))
        /\ ReceiveReturns(id)
    /\ UNCHANGED <<net, answered>>

TimeOut ==
    /\ pc = "select" /\ waiting = SelectTimeout
    /\ ReceiveReturns(-1)
    /\ UNCHANGED <<net, ghosts>>

(* select returns -1 for a signal; receive tests for # 0 and calls recv,   *)
(* which has no timeout and is restarted after every further signal.       *)
Interrupt ==
    /\ pc = "select"
    /\ pc' = "blocked"
    /\ UNCHANGED <<tests, coll, turn, test_iter, script_ok, shared, clock,
                   net, puts, ghosts>>

Tick ==
    /\ \/ pc = "select" /\ waiting < SelectTimeout /\ waiting' = waiting + 1
       \/ pc = "blocked" /\ elapsed < LongTime /\ UNCHANGED waiting
    /\ elapsed' = elapsed + 1
    /\ UNCHANGED <<tests, pc, coll, turn, test_iter, script_ok, shared,
                   pending, net, puts, ghosts>>

Daemon ==
    \/ StartCycle \/ StartRound \/ Sent \/ Collected \/ TimeOut
    \/ \E i \in Ifaces :
        Send(i) \/ RecvExhausted(i) \/ RecvUser(i) \/ BeginWait(i) \/ LookUp(i)

Network == Noise \/ \E a \in net : Deliver(a)

Next == Daemon \/ Network \/ Interrupt \/ Tick

(* The daemon is scheduled and time passes.  Nothing is promised of the    *)
(* network or of signals.                                                  *)
Fairness == WF_vars(Daemon) /\ WF_vars(Tick)

Spec == Init /\ [][Next]_vars /\ Fairness

-----------------------------------------------------------------------------
(* The loops of LBPathTest::start put exactly one result in the health     *)
(* record of every interface per cycle, whichever tests it has and         *)
(* however its rounds end: the counts of LBHealth are counts of cycles.    *)
OneResultPerCycle ==
    pc # "idle" =>
        \A i \in Ifaces : Len(puts[i]) = IF i \in coll THEN 0 ELSE 1

(* The rounds implement TestCycle: no interface is failed while a test of  *)
(* it is left, none is tested after its verdict, and the cycle does not    *)
(* end before everyone has one.                                            *)
Verdict(i) ==
    CASE puts[i] = <<>> -> "none"
      [] puts[i] = <<0>> -> "alive"
      [] puts[i] = <<-1>> -> "failed"
      [] OTHER -> "twice"

Cycle == INSTANCE TestCycle WITH
    count   <- [i \in Ifaces |-> Len(tests[i])],
    running <- pc # "idle",
    left    <- [i \in Ifaces |-> Len(tests[i]) + 1 - test_iter[i]],
    verdict <- [i \in Ifaces |-> Verdict(i)]

ImplementsTestCycle == Cycle!Spec

(* Every probe of a round has a result entry of its own although the ping  *)
(* and the ttl test draw their ids from one counter in different ways (an  *)
(* interface without a target draws none).                                 *)
ProbesKeptApart ==
    [][pc = "send" => \A i \in Ifaces :
          turn' = i /\ Probes(i) /\ (i \notin Dhcp \/ packet_id' # packet_id) =>
            \E id \in DOMAIN results' \ DOMAIN results :
                results'[id].iface = i]_vars

(* An interface is called alive by LookUp only for an answer to the probe  *)
(* it sent in this very round, or a packet of others that happens to carry *)
(* the id of that probe: an answer of an earlier round or of another       *)
(* interface never counts, nor does the lack of one.                       *)
NoStaleCredit ==
    [][\A i \in Ifaces :
          LookUp(i) /\ puts'[i] # puts[i] => i \in answered \cup foreign]_vars

(* LBTest::recv gives up on an unanswered probe before its window has      *)
(* passed only if another id arrived twice, which its pending count cannot *)
(* tell from the missing one.                                              *)
WaitsForAll ==
    [][~received /\ received' /\ elapsed < Window /\ ~repeated' =>
          \A id \in DOMAIN results' : results'[id].rtt >= 0]_vars

(* Every cycle ends, unless a signal left the daemon in a recv that no     *)
(* packet ends.                                                            *)
CycleEndsUnlessBlocked == []<>(pc = "idle") \/ <>[](pc = "blocked")

(* What LBTest::recv's comments say (lbtest.cc:157 "make sure we don't get *)
(* stuck in a loop", lbtest.cc:162 "hardcode to 5 second overall           *)
(* timeout"): every cycle ends.                                            *)
CycleEnds == []<>(pc = "idle")
=============================================================================
