--------------------------- MODULE LBTimingProofs ---------------------------
(***************************************************************************)
(* Proofs about LBTiming, for all times of day and all settings of the     *)
(* clock.                                                                  *)
(***************************************************************************)
EXTENDS LBTiming, TLAPS

-----------------------------------------------------------------------------
(* The parts of a time. *)
LEMMA TimeParts ==
    ASSUME NEW t \in Time
    PROVE  t.sec \in Nat /\ t.usec \in Nat /\ t.usec < Micros
BY SMT DEF Time

(* Time passes without a second lost or invented. *)
LEMMA PlusTime ==
    ASSUME NEW t \in Time, NEW d \in Time
    PROVE  Plus(t, d) \in Time
BY SMT DEF Plus, Time, Micros

(* A second is carried once there are enough microseconds. *)
LEMMA PlusCarry ==
    ASSUME NEW t \in Time, NEW d \in Time
    PROVE  \/ /\ t.usec + d.usec < Micros
              /\ Plus(t, d).sec = t.sec + d.sec
              /\ Plus(t, d).usec = t.usec + d.usec
           \/ /\ t.usec + d.usec >= Micros
              /\ Plus(t, d).sec = t.sec + d.sec + 1
              /\ Plus(t, d).usec = t.usec + d.usec - Micros
<1> DEFINE u == t.usec + d.usec
<1>1. u \in Nat /\ u < 2000000
  BY TimeParts, SMT DEF Micros
<1>2. \/ u < 1000000 /\ u \div 1000000 = 0 /\ u % 1000000 = u
      \/ u >= 1000000 /\ u \div 1000000 = 1 /\ u % 1000000 = u - 1000000
  BY <1>1, SMT
<1>3. Plus(t, d).sec = t.sec + d.sec + (u \div 1000000)
      /\ Plus(t, d).usec = u % 1000000
  BY SMT DEF Plus, Micros
<1>4. t.sec \in Nat /\ d.sec \in Nat
  BY TimeParts
<1>5. CASE u < 1000000
  <2>1. Plus(t, d).sec = t.sec + d.sec + 0 /\ Plus(t, d).usec = u
    BY <1>1, <1>2, <1>3, <1>5, SMT
  <2> QED BY <1>4, <1>5, <2>1, SMT DEF Micros
<1>6. CASE u >= 1000000
  <2>1. Plus(t, d).sec = t.sec + d.sec + 1 /\ Plus(t, d).usec = u - 1000000
    BY <1>1, <1>2, <1>3, <1>6, SMT
  <2> QED BY <1>1, <1>4, <1>6, <2>1, TimeParts, SMT DEF Micros
<1> QED BY <1>1, <1>5, <1>6, SMT

(* Two stretches of time are passed one after the other or at once. *)
LEMMA PlusAssociates ==
    ASSUME NEW t \in Time, NEW d \in Time, NEW e \in Time
    PROVE  Plus(Plus(t, d), e) = Plus(t, Plus(d, e))
<1> DEFINE v == Plus(t, d)
           w == Plus(d, e)
           p == Plus(v, e)
           q == Plus(t, w)
<1>1. v \in Time /\ w \in Time
  BY PlusTime
<1>2. p \in Time /\ q \in Time
  BY <1>1, PlusTime
<1>3. \/ t.usec + d.usec < Micros /\ v.sec = t.sec + d.sec /\ v.usec = t.usec + d.usec
      \/ /\ t.usec + d.usec >= Micros
         /\ v.sec = t.sec + d.sec + 1 /\ v.usec = t.usec + d.usec - Micros
  BY PlusCarry
<1>4. \/ d.usec + e.usec < Micros /\ w.sec = d.sec + e.sec /\ w.usec = d.usec + e.usec
      \/ /\ d.usec + e.usec >= Micros
         /\ w.sec = d.sec + e.sec + 1 /\ w.usec = d.usec + e.usec - Micros
  BY PlusCarry
<1>5. \/ v.usec + e.usec < Micros /\ p.sec = v.sec + e.sec /\ p.usec = v.usec + e.usec
      \/ /\ v.usec + e.usec >= Micros
         /\ p.sec = v.sec + e.sec + 1 /\ p.usec = v.usec + e.usec - Micros
  BY <1>1, PlusCarry
<1>6. \/ t.usec + w.usec < Micros /\ q.sec = t.sec + w.sec /\ q.usec = t.usec + w.usec
      \/ /\ t.usec + w.usec >= Micros
         /\ q.sec = t.sec + w.sec + 1 /\ q.usec = t.usec + w.usec - Micros
  BY <1>1, PlusCarry
<1>7. p = [sec |-> p.sec, usec |-> p.usec] /\ q = [sec |-> q.sec, usec |-> q.usec]
  BY SMT DEF Plus
<1> HIDE DEF v, w, p, q
<1>8. p.sec = q.sec /\ p.usec = q.usec
  BY <1>1, <1>2, <1>3, <1>4, <1>5, <1>6, TimeParts, SMT DEF Micros
<1>9. p = q
  BY <1>7, <1>8
<1> QED BY <1>9 DEF v, w, p, q

(* Nothing passes in no time. *)
LEMMA PlusZero ==
    ASSUME NEW t \in Time
    PROVE  Plus(t, Zero) = t
BY SMT DEF Plus, Time, Micros, Zero

(* An int that is not too large is what it was meant to be. *)
LEMMA AsIntSmall ==
    ASSUME NEW n \in Int, -IntHalf <= n, n < IntHalf
    PROVE  AsInt(n) = n
<1>1. IntHalf \in Nat \ {0}
  BY TimingAssumption, SMT
<1>2. (n + IntHalf) % (2 * IntHalf) = n + IntHalf
  BY <1>1, SMT
<1> QED BY <1>1, <1>2, SMT DEF AsInt

(* Whatever is computed in an int is a number. *)
LEMMA AsIntInt ==
    ASSUME NEW n \in Int
    PROVE  AsInt(n) \in Int
BY TimingAssumption, SMT DEF AsInt

(* The milliseconds before they are put into an int. *)
Millis(s, r) ==
    LET msecs == r.usec - s.usec
        secs  == IF msecs < 0 THEN r.sec - s.sec - 1 ELSE r.sec - s.sec
    IN  Magnitude(msecs) \div 1000 + 1000 * secs

(* Without the borrow the part below a second may be anything, but the     *)
(* whole seconds are those that passed.                                    *)
LEMMA WholeSecondsRight ==
    ASSUME NEW s \in Time, NEW r \in Time, NEW w \in Int
    PROVE  Millis(s, r) < 1000 * w <=>
              \/ r.sec < s.sec + w
              \/ r.sec = s.sec + w /\ r.usec < s.usec
<1> DEFINE d == Magnitude(r.usec - s.usec)
           m == d \div 1000
<1>0. d \in Nat /\ d < 1000000 /\ r.usec - s.usec \in Int
  BY TimeParts, SMT DEF Magnitude, Micros
<1>1. m \in Nat /\ m < 1000
  BY <1>0, SMT
<1>2. CASE r.usec < s.usec
  <2>1. Millis(s, r) = m + 1000 * (r.sec - s.sec - 1)
    BY <1>2, TimeParts, SMT DEF Millis
  <2> QED BY <1>1, <1>2, <2>1, TimeParts, SMT
<1>3. CASE ~(r.usec < s.usec)
  <2>1. Millis(s, r) = m + 1000 * (r.sec - s.sec)
    BY <1>3, TimeParts, SMT DEF Millis
  <2> QED BY <1>1, <1>3, <2>1, TimeParts, SMT
<1> QED BY <1>2, <1>3, SMT

(* They are a number, and not far from the seconds that passed. *)
LEMMA MillisBound ==
    ASSUME NEW s \in Time, NEW r \in Time
    PROVE  /\ Millis(s, r) \in Int
           /\ Millis(s, r) >= 1000 * (r.sec - s.sec - 1)
           /\ Millis(s, r) < 1000 * (r.sec - s.sec + 1)
<1> DEFINE d == Magnitude(r.usec - s.usec)
<1>1. d \in Nat /\ d < 1000000
  BY TimeParts, SMT DEF Magnitude, Micros
<1>2. d \div 1000 \in Nat /\ d \div 1000 < 1000
  BY <1>1, SMT
<1>3. Millis(s, r) \in {(d \div 1000) + 1000 * (r.sec - s.sec - 1),
                       (d \div 1000) + 1000 * (r.sec - s.sec)}
  BY SMT DEF Millis
<1> HIDE DEF d
<1> QED BY <1>2, <1>3, TimeParts, SMT

(* If the clock was not set too far the int holds the milliseconds. *)
LEMMA RttMillis ==
    ASSUME NEW s \in Time, NEW r \in Time, Near(s, r)
    PROVE  Rtt(s, r) = Millis(s, r)
<1>1. IntHalf \in Nat \ {0}
  BY TimingAssumption, SMT
<1>2. 1000 * (r.sec - s.sec + 2) < IntHalf /\ 1000 * (s.sec - r.sec + 2) < IntHalf
  BY <1>1, TimeParts, SMT DEF Near, Magnitude
<1>3. -IntHalf <= Millis(s, r) /\ Millis(s, r) < IntHalf
  BY <1>1, <1>2, MillisBound, TimeParts, SMT
<1>4. Rtt(s, r) = AsInt(Millis(s, r))
  BY SMT DEF Rtt, Millis
<1> QED BY <1>3, <1>4, AsIntSmall, MillisBound

(* Rtt is a number. *)
LEMMA RttInt ==
    ASSUME NEW s \in Time, NEW r \in Time
    PROVE  Rtt(s, r) \in Int
<1>1. Rtt(s, r) = AsInt(Millis(s, r))
  BY SMT DEF Rtt, Millis
<1> QED BY <1>1, MillisBound, AsIntInt

(* A number of seconds is printed as a duration of that length. *)
LEMMA SplitExact ==
    ASSUME NEW n \in Nat
    PROVE  Split(n) \in Duration /\ Total(Split(n)) = n
<1> DEFINE a == n % 86400
           b == a % 3600
           c == b % 60
<1>1. a \in Nat /\ a < 86400 /\ n \div 86400 \in Nat /\ n = 86400 * (n \div 86400) + a
  BY SMT
<1>2. /\ b \in Nat /\ b < 3600 /\ a \div 3600 \in Nat /\ a \div 3600 < 24
      /\ a = 3600 * (a \div 3600) + b
  BY <1>1, SMT
<1>3. /\ c \in Nat /\ c < 60 /\ b \div 60 \in Nat /\ b \div 60 < 60
      /\ b = 60 * (b \div 60) + c
  BY <1>2, SMT
<1>4. Split(n) = [days |-> n \div 86400, hours |-> a \div 3600,
                  mins |-> b \div 60, secs |-> c]
  BY SMT DEF Split
<1> HIDE DEF a, b, c
<1> QED BY <1>1, <1>2, <1>3, <1>4, SMT DEF Duration, Total

(* The remainder of a small number is the number. *)
LEMMA SmallModulo ==
    ASSUME NEW n \in Nat, NEW m \in Nat \ {0}, n < m
    PROVE  n % m = n
BY SMT

(* A remainder is a number below the modulus. *)
LEMMA ModuloNat ==
    ASSUME NEW n \in Int, NEW m \in Nat \ {0}
    PROVE  n % m \in Nat
BY SMT

(* The ages written are numbers of seconds. *)
LEMMA AgesNat ==
    ASSUME NEW t \in Time, last_success \in Nat, last_failure \in Nat
    PROVE  SuccessAge(t) \in Nat /\ FailureAge(t) \in Nat
<1>1. ULong \in Nat \ {0}
  BY TimingAssumption, SMT
<1>2. t.sec - last_success \in Int /\ t.sec - last_failure \in Int
  BY TimeParts, SMT
<1>3. (t.sec - last_success) % ULong \in Nat /\ (t.sec - last_failure) % ULong \in Nat
  BY <1>1, <1>2, ModuloNat
<1> QED BY <1>3, SMT DEF SuccessAge, FailureAge

-----------------------------------------------------------------------------
(* The types hold in the first state. *)
LEMMA InitTyped == Init => TypeOK
<1> SUFFICES ASSUME Init PROVE TypeOK
  OBVIOUS
<1>1. now \in Time /\ MaxMoves \in Nat \ {0}
  BY TimingAssumption DEF Init
<1>2. Split(0) \in Duration
  BY SplitExact
<1>3. Never \in Since
  BY SMT DEF Never, Since, Zero, Time, Micros
<1>4. since \in [success : Since, failure : Since]
  BY <1>3, SMT DEF Init
<1> QED BY <1>1, <1>2, <1>4, SMT DEF Init, TypeOK

(* A result is noted with the time of day. *)
LEMMA PushTyped ==
    ASSUME TypeOK, Push
    PROVE  /\ last_success' \in Nat /\ last_failure' \in Nat
           /\ since' \in [success : Since, failure : Since]
<1>1. Stamp \in Since
  BY SMT DEF TypeOK, Stamp, Since, Zero, Time, Micros
<1>2. now.sec \in Nat
  BY TimeParts DEF TypeOK
<1> QED BY <1>1, <1>2, SMT DEF TypeOK, Push

(* Every step keeps the types. *)
LEMMA NextTyped == TypeOK /\ [Next]_vars => TypeOK'
<1> SUFFICES ASSUME TypeOK, [Next]_vars PROVE TypeOK'
  OBVIOUS
<1>0. now \in Time /\ MaxMoves \in Nat \ {0}
  BY TimingAssumption DEF TypeOK
<1>1. CASE StartWait
  BY <1>1, SMT DEF TypeOK, StartWait, stamps
<1>2. CASE Answer
  <2>1. Rtt(send_time, now) \in Int
    BY <1>0, RttInt DEF TypeOK
  <2>2. rtt' \in Int /\ rtt' >= -1
    BY <1>2, <2>1, SMT DEF Answer, InTime
  <2> QED BY <1>0, <1>2, <2>2, PushTyped, SMT DEF TypeOK, Answer
<1>3. CASE NoAnswer
  BY <1>3, PushTyped, SMT DEF TypeOK, NoAnswer
<1>4. CASE Write
  <2>1. Split(SuccessAge(now)) \in Duration /\ Split(FailureAge(now)) \in Duration
    BY AgesNat, SplitExact DEF TypeOK
  <2> QED BY <1>4, <2>1, SMT DEF TypeOK, Write, stamps
<1>5. CASE Pass
  <2>1. PICK d \in Moves : /\ now' = Plus(now, d)
                          /\ since' = [k \in DOMAIN since |-> Aged(since[k], d)]
    BY <1>5 DEF Pass
  <2>2. d \in Time
    BY TimingAssumption
  <2>3. now' \in Time
    BY <1>0, <2>1, <2>2, PlusTime
  <2>4. \A x \in Since : Aged(x, d) \in Since
    BY <2>2, PlusTime, SMT DEF Since, Aged
  <2>5. since' \in [success : Since, failure : Since]
    BY <2>1, <2>4, SMT DEF TypeOK
  <2> QED BY <1>0, <1>5, <2>3, <2>5, SMT DEF TypeOK, Pass, stamps
<1>6. CASE SetClock
  <2>1. now' \in Time
    BY <1>6, TimingAssumption DEF SetClock
  <2>2. \A x \in Since : [x EXCEPT !.set = TRUE] \in Since
    BY Zenon DEF Since
  <2>3. since' \in [success : Since, failure : Since]
    BY <1>6, <2>2, SMT DEF TypeOK, SetClock
  <2> QED BY <1>0, <1>6, <2>1, <2>3, SMT DEF TypeOK, SetClock, stamps
<1>7. CASE UNCHANGED vars
  BY <1>7, SMT DEF TypeOK, vars, stamps
<1> QED BY <1>1, <1>2, <1>3, <1>4, <1>5, <1>6, <1>7 DEF Next

(* The types of the clock, the stamps and the status file. *)
THEOREM TypeCorrect == Spec => []TypeOK
<1>1. Init => TypeOK
  BY InitTyped
<1>2. TypeOK /\ [Next]_vars => TypeOK'
  BY NextTyped
<1> QED BY <1>1, <1>2, PTL DEF Spec

-----------------------------------------------------------------------------
(* What recv returned is what came of the two times it looked at. *)
RttOfTimes ==
    pc = "write" =>
        rtt = LET t == Rtt(send_time, recv_time)
              IN  IF InTime(t) THEN t ELSE -1

(* Only recv itself changes them while its result is written. *)
LEMMA RttOfTimesKept == RttOfTimes /\ [Next]_vars => RttOfTimes'
<1> SUFFICES ASSUME RttOfTimes, [Next]_vars PROVE RttOfTimes'
  OBVIOUS
<1>1. CASE Answer
  BY <1>1, SMT DEF Answer, RttOfTimes, InTime
<1>2. CASE StartWait \/ NoAnswer \/ Write
  BY <1>2 DEF StartWait, NoAnswer, Write, RttOfTimes
<1>3. CASE Pass \/ SetClock \/ UNCHANGED vars
  BY <1>3, SMT DEF Pass, SetClock, vars, RttOfTimes, InTime
<1> QED BY <1>1, <1>2, <1>3 DEF Next

(* The verdict on an answer is exact for every two times of day. *)
LEMMA VerdictOfTimes == TypeOK /\ RttOfTimes => VerdictExact
<1> SUFFICES ASSUME TypeOK, RttOfTimes, pc = "write", resp_time % 1000 = 0,
                    Near(send_time, recv_time)
             PROVE  rtt >= 0 <=>
                      /\ ~Before(recv_time, send_time)
                      /\ Before(recv_time, Plus(send_time,
                            [sec |-> resp_time \div 1000, usec |-> 0]))
  BY DEF VerdictExact
<1> DEFINE s == send_time
           r == recv_time
           m == Millis(s, r)
           w == resp_time \div 1000
<1>1. s \in Time /\ r \in Time /\ resp_time \in Nat
  BY TimingAssumption DEF TypeOK
<1>2. w \in Nat /\ resp_time = 1000 * w
  BY <1>1, SMT
<1>3. m \in Int /\ rtt = IF 0 <= m /\ m < resp_time THEN m ELSE -1
  BY <1>1, RttMillis, MillisBound DEF RttOfTimes, InTime
<1>4. m < 1000 * 0 <=> Before(r, s)
  BY <1>1, WholeSecondsRight, TimeParts, SMT DEF Before
<1>5. [sec |-> w, usec |-> 0] \in Time
  BY <1>2, SMT DEF Time, Micros
<1>6. Plus(s, [sec |-> w, usec |-> 0]) = [sec |-> s.sec + w, usec |-> s.usec]
  <2>1. s.usec \in Nat /\ s.usec < 1000000 /\ s.sec \in Nat
    BY <1>1, TimeParts, SMT DEF Micros
  <2>2. (s.usec + 0) \div 1000000 = 0 /\ (s.usec + 0) % 1000000 = s.usec
    BY <2>1, SMT
  <2>3. s.sec + w + 0 = s.sec + w
    BY <1>2, <2>1, SMT
  <2> QED BY <2>2, <2>3, SMT DEF Plus, Micros
<1>7. m < 1000 * w <=> Before(r, Plus(s, [sec |-> w, usec |-> 0]))
  BY <1>1, <1>2, <1>6, WholeSecondsRight, SMT DEF Before
<1> HIDE DEF m
<1> QED BY <1>2, <1>3, <1>4, <1>7, SMT

(* For all times of day, all settings of the clock and all response times  *)
(* of whole seconds: the missing borrow never changes a verdict.           *)
THEOREM VerdictTheorem == Spec => []VerdictExact
<1>1. Init => RttOfTimes
  BY DEF Init, RttOfTimes
<1>2. RttOfTimes /\ [Next]_vars => RttOfTimes'
  BY RttOfTimesKept
<1>3. TypeOK /\ RttOfTimes => VerdictExact
  BY VerdictOfTimes
<1> QED BY <1>1, <1>2, <1>3, TypeCorrect, PTL DEF Spec

-----------------------------------------------------------------------------
(* While the clock is not set it shows the time of the stamp and what      *)
(* passed since.                                                           *)
Follows(stamp, x) ==
    stamp > 0 /\ ~x.set => now = Plus(x.at, x.age) /\ stamp = x.at.sec

ClockFollows ==
    Follows(last_success, since.success) /\ Follows(last_failure, since.failure)

(* A stamp that time passes after stays where it was. *)
LEMMA AgedParts ==
    ASSUME NEW x \in Since, NEW d \in Time
    PROVE  /\ Aged(x, d).at = x.at /\ Aged(x, d).set = x.set
           /\ Plus(x.at, Aged(x, d).age) = Plus(Plus(x.at, x.age), d)
<1>1. Aged(x, d).at = x.at /\ Aged(x, d).age = Plus(x.age, d)
      /\ Aged(x, d).set = x.set
  BY Zenon DEF Since, Aged
<1>2. x.at \in Time /\ x.age \in Time
  BY DEF Since
<1> QED BY <1>1, <1>2, PlusAssociates

(* No step makes the clock leave a stamp but the setting of the clock. *)
LEMMA ClockFollowsKept == TypeOK /\ ClockFollows /\ [Next]_vars => ClockFollows'
<1> SUFFICES ASSUME TypeOK, ClockFollows, [Next]_vars PROVE ClockFollows'
  OBVIOUS
<1>1. CASE StartWait \/ Write \/ UNCHANGED vars
  BY <1>1 DEF StartWait, Write, vars, stamps, ClockFollows, Follows
<1>2. CASE Answer \/ NoAnswer
  <2>1. now' = now /\ Push
    BY <1>2 DEF Answer, NoAnswer
  <2>2. Stamp.at = now /\ Stamp.age = Zero
    BY DEF Stamp
  <2>3. now = Plus(now, Zero)
    BY PlusZero DEF TypeOK
  <2>4. CASE rtt' = -1
    <3>1. /\ last_failure' = now.sec /\ last_success' = last_success
          /\ since' = [since EXCEPT !.failure = Stamp]
      BY <2>1, <2>4 DEF Push
    <3>2. since'.failure = Stamp /\ since'.success = since.success
      BY <3>1 DEF TypeOK
    <3> QED BY <2>1, <2>2, <2>3, <3>1, <3>2 DEF ClockFollows, Follows
  <2>5. CASE ~(rtt' = -1)
    <3>1. /\ last_success' = now.sec /\ last_failure' = last_failure
          /\ since' = [since EXCEPT !.success = Stamp]
      BY <2>1, <2>5 DEF Push
    <3>2. since'.success = Stamp /\ since'.failure = since.failure
      BY <3>1 DEF TypeOK
    <3> QED BY <2>1, <2>2, <2>3, <3>1, <3>2 DEF ClockFollows, Follows
  <2> QED BY <2>4, <2>5
<1>3. CASE Pass
  <2>1. PICK d \in Moves : /\ now' = Plus(now, d)
                          /\ since' = [k \in DOMAIN since |-> Aged(since[k], d)]
    BY <1>3 DEF Pass
  <2>2. d \in Time
    BY TimingAssumption
  <2>3. since.success \in Since /\ since.failure \in Since
    BY DEF TypeOK
  <2>4. /\ since'.success = Aged(since.success, d)
        /\ since'.failure = Aged(since.failure, d)
    BY <2>1 DEF TypeOK
  <2>5. last_success' = last_success /\ last_failure' = last_failure
    BY <1>3 DEF Pass, stamps
  <2>6. \A x \in Since :
          /\ Aged(x, d).at = x.at /\ Aged(x, d).set = x.set
          /\ Plus(x.at, Aged(x, d).age) = Plus(Plus(x.at, x.age), d)
    BY <2>2, AgedParts
  <2>7. /\ since'.success.at = since.success.at
        /\ since'.success.set = since.success.set
        /\ Plus(since'.success.at, since'.success.age)
             = Plus(Plus(since.success.at, since.success.age), d)
        /\ since'.failure.at = since.failure.at
        /\ since'.failure.set = since.failure.set
        /\ Plus(since'.failure.at, since'.failure.age)
             = Plus(Plus(since.failure.at, since.failure.age), d)
    BY <2>3, <2>4, <2>6
  <2> QED BY <2>1, <2>5, <2>7 DEF ClockFollows, Follows
<1>4. CASE SetClock
  <2>1. /\ since'.success = [since.success EXCEPT !.set = TRUE]
        /\ since'.failure = [since.failure EXCEPT !.set = TRUE]
    BY <1>4 DEF SetClock, TypeOK
  <2>2. since.success \in Since /\ since.failure \in Since
    BY DEF TypeOK
  <2>3. since'.success.set /\ since'.failure.set
    BY <2>1, <2>2, Zenon DEF Since
  <2> QED BY <2>3 DEF ClockFollows, Follows
<1> QED BY <1>1, <1>2, <1>3, <1>4 DEF Next

(* The seconds between a stamp and a clock that followed it are those that *)
(* passed, or one more.                                                    *)
LEMMA SecondsSince ==
    ASSUME NEW at \in Time, NEW age \in Time
    PROVE  Plus(at, age).sec - at.sec - age.sec \in {0, 1}
<1> DEFINE u == at.usec + age.usec
<1>1. u \in Nat /\ u < 2000000
  BY TimeParts, SMT DEF Micros
<1>2. u \div 1000000 \in {0, 1}
  BY <1>1, SMT
<1>3. Plus(at, age).sec = at.sec + age.sec + (u \div 1000000)
  BY SMT DEF Plus, Micros
<1> HIDE DEF u
<1> QED BY <1>2, <1>3, TimeParts, SMT

(* A remainder is not above the number. *)
LEMMA ModuloBelow ==
    ASSUME NEW n \in Nat, NEW m \in Nat \ {0}
    PROVE  n % m <= n
BY SMT

(* What a step that writes the status file writes. *)
LEMMA WriteShows ==
    ASSUME TypeOK, ClockFollows, Write
    PROVE  LET age(k) == Total(shown'[k]) - since[k].age.sec IN
           /\ last_success > 0 /\ ~since.success.set /\ now.sec < UInt
                 /\ now.sec - last_success < ULong => age("success") \in {0, 1}
           /\ last_failure > 0 /\ ~since.failure.set
                 /\ now.sec - last_failure < ULong => age("failure") \in {0, 1}
           /\ now.sec <= last_success => Total(shown'.success) = 0
<1>1. /\ now \in Time /\ now.sec \in Nat
      /\ last_success \in Nat /\ last_failure \in Nat
      /\ UInt \in Nat \ {0} /\ ULong \in Nat \ {0}
  BY TimingAssumption, TimeParts DEF TypeOK
<1>2. SuccessAge(now) \in Nat /\ FailureAge(now) \in Nat
  BY <1>1, AgesNat
<1>3. shown' = [success |-> Split(SuccessAge(now)),
                failure |-> Split(FailureAge(now))]
  BY DEF Write
<1>4. /\ Total(shown'["success"]) = SuccessAge(now)
      /\ Total(shown'["failure"]) = FailureAge(now)
  BY <1>2, <1>3, SplitExact
<1>5. /\ since["success"] \in Since /\ since["failure"] \in Since
      /\ since["success"].at \in Time /\ since["success"].age \in Time
      /\ since["failure"].at \in Time /\ since["failure"].age \in Time
  BY DEF TypeOK, Since
<1>6. ASSUME last_success > 0, ~since.success.set, now.sec < UInt,
             now.sec - last_success < ULong
      PROVE  SuccessAge(now) - since["success"].age.sec \in {0, 1}
  <2>1. now = Plus(since.success.at, since.success.age)
        /\ last_success = since.success.at.sec
    BY <1>6 DEF ClockFollows, Follows
  <2>2. now.sec - last_success - since["success"].age.sec \in {0, 1}
    BY <1>5, <2>1, SecondsSince
  <2>3. since["success"].age.sec \in Nat
    BY <1>5, TimeParts
  <2>4. now.sec % UInt = now.sec
    BY <1>1, <1>6, SmallModulo
  <2>5. SuccessAge(now) = IF now.sec > last_success
                          THEN (now.sec - last_success) % ULong ELSE 0
    BY <1>6, <2>4 DEF SuccessAge
  <2>6. CASE now.sec > last_success
    <3>1. now.sec - last_success \in Nat
      BY <1>1, <2>6, SMT
    <3>2. (now.sec - last_success) % ULong = now.sec - last_success
      BY <1>1, <1>6, <3>1, SmallModulo
    <3> QED BY <2>2, <2>5, <2>6, <3>2
  <2>7. CASE ~(now.sec > last_success)
    BY <1>1, <2>2, <2>3, <2>5, <2>7, SMT
  <2> QED BY <2>6, <2>7
<1>7. ASSUME last_failure > 0, ~since.failure.set, now.sec - last_failure < ULong
      PROVE  FailureAge(now) - since["failure"].age.sec \in {0, 1}
  <2>1. now = Plus(since.failure.at, since.failure.age)
        /\ last_failure = since.failure.at.sec
    BY <1>7 DEF ClockFollows, Follows
  <2>2. now.sec - last_failure - since["failure"].age.sec \in {0, 1}
    BY <1>5, <2>1, SecondsSince
  <2>3. since["failure"].age.sec \in Nat
    BY <1>5, TimeParts
  <2>4. now.sec - last_failure \in Nat
    BY <1>1, <2>2, <2>3, SMT
  <2>5. (now.sec - last_failure) % ULong = now.sec - last_failure
    BY <1>1, <1>7, <2>4, SmallModulo
  <2> QED BY <1>7, <2>2, <2>5 DEF FailureAge
<1>8. ASSUME now.sec <= last_success PROVE SuccessAge(now) = 0
  <2>1. now.sec % UInt <= now.sec /\ now.sec % UInt \in Nat
    BY <1>1, ModuloBelow, ModuloNat
  <2>2. ~(now.sec % UInt > last_success)
    BY <1>1, <1>8, <2>1, SMT
  <2> QED BY <2>2 DEF SuccessAge
<1>9. shown'.success = shown'["success"]
  OBVIOUS
<1> QED BY <1>4, <1>6, <1>7, <1>8, <1>9

(* For all times of day, all settings of the clock and all stretches of    *)
(* time: the ages in the status file are right to the second.              *)
THEOREM AgesTheorem == Spec => AgesShown
<1>1. Init => ClockFollows
  BY SMT DEF Init, ClockFollows, Follows, Never
<1>2. TypeOK /\ ClockFollows /\ [Next]_vars => ClockFollows'
  BY ClockFollowsKept
<1> DEFINE Exact ==
        Write =>
        LET age(k) == Total(shown'[k]) - since[k].age.sec IN
        /\ last_success > 0 /\ ~since.success.set /\ now.sec < UInt
              /\ now.sec - last_success < ULong => age("success") \in {0, 1}
        /\ last_failure > 0 /\ ~since.failure.set
              /\ now.sec - last_failure < ULong => age("failure") \in {0, 1}
        /\ now.sec <= last_success => Total(shown'.success) = 0
<1>3. TypeOK /\ ClockFollows => [Exact]_vars
  BY WriteShows
<1> HIDE DEF Exact
<1>4. Spec => [][Exact]_vars
  BY <1>1, <1>2, <1>3, TypeCorrect, PTL DEF Spec
<1> USE DEF Exact
<1> QED BY <1>4 DEF AgesShown
=============================================================================
