------------------------------ MODULE LBTiming ------------------------------
(***************************************************************************)
(* What the daemon does with the time of day, for one interface: the round *)
(* trip time of an answer and its verdict (LBTest::recv), the times of the *)
(* last success and failure (LBHealthHistory::push), and how long ago the  *)
(* status file says they were (LBOutput::write).  Times are those of       *)
(* gettimeofday, a clock that can be set forward and back at any moment.   *)
(***************************************************************************)
EXTENDS Integers

CONSTANTS
    Starts,     \* times of day at which the daemon may start
    Moves,      \* lengths of time that may pass
    Settings,   \* times of day the clock may be set to
    RespTimes,  \* values of _resp_time, in milliseconds
    MaxMoves,   \* bound on how often time passes or the clock is set
    IntHalf,    \* int is -IntHalf..IntHalf - 1
    UInt,       \* unsigned int is 0..UInt - 1
    ULong       \* unsigned long is 0..ULong - 1

Micros == 1000000

Time == [sec : Nat, usec : {u \in Nat : u < Micros}]

ASSUME TimingAssumption ==
    /\ Starts \subseteq Time /\ Moves \subseteq Time /\ Settings \subseteq Time
    /\ RespTimes \subseteq Nat
    /\ {MaxMoves, IntHalf, UInt, ULong} \subseteq Nat \ {0}

VARIABLES
    pc,             \* "idle", "wait" for an answer, or "write" the status
    now,            \* the time of day
    resp_time,      \* LBTest::_resp_time
    send_time,      \* send_time in LBTest::recv
    recv_time,      \* recv_time in LBTest::recv
    rtt,            \* what LBTest::recv returned, -1 for a failure
    last_success,   \* LBHealthHistory::_last_success, 0 for never
    last_failure,   \* LBHealthHistory::_last_failure
    shown,          \* the two durations in the status file
    moves,          \* how often time passed or the clock was set
    since           \* history: when the last success and failure were, how
                    \* much time passed since, and was the clock set since

stamps == <<last_success, last_failure>>
vars == <<pc, now, resp_time, send_time, recv_time, rtt, stamps, shown, moves,
          since>>

Plus(t, d) ==
    [sec  |-> t.sec + d.sec + (t.usec + d.usec) \div Micros,
     usec |-> (t.usec + d.usec) % Micros]

Zero == [sec |-> 0, usec |-> 0]

-----------------------------------------------------------------------------
AsInt(n) == ((n + IntHalf) % (2 * IntHalf)) - IntHalf

Magnitude(n) == IF n < 0 THEN -n ELSE n

(* LBTest::recv: microseconds are subtracted without a borrow, so the part *)
(* below a second is mirrored when the second changed in between.  The     *)
(* slip does not take the second back, either.                             *)
RttUnborrowed(s, r) ==
    AsInt(Magnitude(r.usec - s.usec) \div 1000 + 1000 * (r.sec - s.sec))

Rtt(s, r) ==
    LET msecs == r.usec - s.usec
        secs  == IF msecs < 0 THEN r.sec - s.sec - 1 ELSE r.sec - s.sec
    IN  AsInt(Magnitude(msecs) \div 1000 + 1000 * secs)

InTime(t) == 0 <= t /\ t < resp_time

(* LBOutput::write: the days, hours, minutes and seconds of a number of    *)
(* seconds, each taken from what is left; and with the hours left in.      *)
SplitOnce(n) ==
    [days |-> n \div 86400, hours |-> (n % 86400) \div 3600,
     mins |-> (n % 86400) \div 60, secs |-> n % 60]

Split(n) ==
    [days  |-> n \div 86400,
     hours |-> (n % 86400) \div 3600,
     mins  |-> ((n % 86400) % 3600) \div 60,
     secs  |-> ((n % 86400) % 3600) % 60]

(* The ages written; that of a success is guarded against a clock that was *)
(* set back, by a comparison in unsigned int, and the slip is not.         *)
SuccessAgeUnguarded(t) ==
    IF last_success > 0 THEN (t.sec - last_success) % ULong ELSE 0

SuccessAge(t) ==
    IF last_success > 0 /\ t.sec % UInt > last_success
    THEN (t.sec - last_success) % ULong ELSE 0

FailureAge(t) ==
    IF last_failure > 0 THEN (t.sec - last_failure) % ULong ELSE 0

-----------------------------------------------------------------------------
Never == [at |-> Zero, age |-> Zero, set |-> FALSE]
Stamp == [at |-> now, age |-> Zero, set |-> FALSE]

Init ==
    /\ pc = "idle"
    /\ now \in Starts
    /\ resp_time \in RespTimes
    /\ send_time = now /\ recv_time = now
    /\ rtt = -1
    /\ last_success = 0 /\ last_failure = 0
    /\ shown = [success |-> Split(0), failure |-> Split(0)]
    /\ moves = 0
    /\ since = [success |-> Never, failure |-> Never]

(* LBTest::recv begins to wait for the answers. *)
StartWait ==
    /\ pc = "idle"
    /\ send_time' = now
    /\ pc' = "wait"
    /\ UNCHANGED <<now, resp_time, recv_time, rtt, stamps, shown, moves, since>>

(* LBHealthHistory::push. *)
Push ==
    IF rtt' = -1
    THEN /\ last_failure' = now.sec
         /\ since' = [since EXCEPT !.failure = Stamp]
         /\ UNCHANGED last_success
    ELSE /\ last_success' = now.sec
         /\ since' = [since EXCEPT !.success = Stamp]
         /\ UNCHANGED last_failure

(* The answer came, in time or not. *)
Answer ==
    /\ pc = "wait"
    /\ recv_time' = now
    /\ rtt' = LET t == Rtt(send_time, now) IN IF InTime(t) THEN t ELSE -1
    /\ Push
    /\ pc' = "write"
    /\ UNCHANGED <<now, resp_time, send_time, shown, moves>>

(* None came within the window; or a result without a wait. *)
NoAnswer ==
    /\ pc = "wait"
    /\ rtt' = -1
    /\ Push
    /\ pc' = "idle"
    /\ UNCHANGED <<now, resp_time, send_time, recv_time, shown, moves>>

(* LBOutput::write; the durations are printed only if there is a stamp. *)
Write ==
    /\ pc \in {"idle", "write"}
    /\ shown' = [success |-> Split(SuccessAge(now)),
                 failure |-> Split(FailureAge(now))]
    /\ pc' = "idle"
    /\ UNCHANGED <<now, resp_time, send_time, recv_time, rtt, stamps, moves,
                   since>>

(* What is known of a stamp after more time. *)
Aged(x, d) == [x EXCEPT !.age = Plus(@, d)]

(* Time passes. *)
Pass ==
    /\ moves < MaxMoves
    /\ moves' = moves + 1
    /\ \E d \in Moves :
        /\ now' = Plus(now, d)
        /\ since' = [k \in DOMAIN since |-> Aged(since[k], d)]
    /\ UNCHANGED <<pc, resp_time, send_time, recv_time, rtt, stamps, shown>>

(* The clock is set. *)
SetClock ==
    /\ moves < MaxMoves
    /\ moves' = moves + 1
    /\ now' \in Settings
    /\ since' = [k \in DOMAIN since |->
          [since[k] EXCEPT !.set = TRUE]]
    /\ UNCHANGED <<pc, resp_time, send_time, recv_time, rtt, stamps, shown>>

Next == StartWait \/ Answer \/ NoAnswer \/ Write \/ Pass \/ SetClock

Spec == Init /\ [][Next]_vars

-----------------------------------------------------------------------------
Duration == [days : Nat, hours : 0..23, mins : 0..59, secs : 0..59]
Since    == [at : Time, age : Time, set : BOOLEAN]

TypeOK ==
    /\ pc \in {"idle", "wait", "write"}
    /\ {now, send_time, recv_time} \subseteq Time
    /\ resp_time \in RespTimes
    /\ rtt \in Int /\ rtt >= -1
    /\ last_success \in Nat /\ last_failure \in Nat
    /\ shown \in [success : Duration, failure : Duration]
    /\ moves \in 0..MaxMoves
    /\ since \in [success : Since, failure : Since]

Before(s, t) == s.sec < t.sec \/ (s.sec = t.sec /\ s.usec < t.usec)

(* The clock was not set so far between the two that an int overflows. *)
Near(s, t) == 1000 * (Magnitude(t.sec - s.sec) + 2) < IntHalf

(* An answer counts if and only if the clock says that it came before      *)
(* resp-time was over, although the milliseconds of the round trip time    *)
(* are wrong whenever a second began in between, and it never counts if    *)
(* the clock was set back before the probe: as long as resp-time is a      *)
(* number of seconds.                                                      *)
VerdictExact ==
    pc = "write" /\ resp_time % 1000 = 0 /\ Near(send_time, recv_time) =>
        (rtt >= 0 <=>
            /\ ~Before(recv_time, send_time)
            /\ Before(recv_time, Plus(send_time,
                        [sec |-> resp_time \div 1000, usec |-> 0])))

Total(d) == 86400 * d.days + 3600 * d.hours + 60 * d.mins + d.secs

(* The status file says, to the second, how long ago the last success and  *)
(* the last failure were, unless the clock was set since then; and a clock *)
(* before the last success makes that age 0.                               *)
AgesShown ==
    [][Write =>
        LET age(k) == Total(shown'[k]) - since[k].age.sec IN
        /\ last_success > 0 /\ ~since.success.set /\ now.sec < UInt
              /\ now.sec - last_success < ULong => age("success") \in {0, 1}
        /\ last_failure > 0 /\ ~since.failure.set
              /\ now.sec - last_failure < ULong => age("failure") \in {0, 1}
        /\ now.sec <= last_success => Total(shown'.success) = 0]_vars
=============================================================================
