------------------------------ MODULE NatLemmas ------------------------------
(***************************************************************************)
(* Induction over the naturals in a form the provers can instantiate: over *)
(* sets of numbers instead of predicates.  The recursive functions of the  *)
(* specifications are defined step by step from one value to the next;     *)
(* that they exist is proved here once, for every set of values.           *)
(***************************************************************************)
EXTENDS Integers, FiniteSetTheorems, TLAPS

(* A set of naturals that is not empty has a least element. *)
LEMMA LeastNatural ==
    ASSUME NEW T, T \subseteq Nat, T # {}
    PROVE  \E n \in T : \A m \in T : n <= m
<1> DEFINE Below == {0..(n - 1) : n \in T}
           Less  == StrictSubsetOrdering(Nat)
<1>1. Below \subseteq FiniteSubsetsOf(Nat) /\ Below # {}
  <2>1. ASSUME NEW n \in T PROVE 0..(n - 1) \in FiniteSubsetsOf(Nat)
    <3>1. IsFiniteSet(0..(n - 1))
      BY FS_Interval
    <3> QED BY <3>1 DEF FiniteSubsetsOf
  <2> QED BY <2>1
<1>2. IsWellFoundedOn(Less, FiniteSubsetsOf(Nat))
  BY FS_StrictSubsetOrderingWellFounded
<1>3. PICK b \in Below : \A c \in Below : <<c, b>> \notin Less
  <2> HIDE DEF Below, Less
  <2> QED BY <1>1, <1>2, WFMin
<1>4. PICK n \in T : b = 0..(n - 1)
  OBVIOUS
<1>5. ASSUME NEW m \in T, m < n PROVE FALSE
  <2>1. 0..(m - 1) \subseteq 0..(n - 1) /\ m \in 0..(n - 1) /\ m \notin 0..(m - 1)
    BY <1>5
  <2>2. <<0..(m - 1), b>> \in Less
    BY <1>4, <2>1 DEF StrictSubsetOrdering
  <2> QED BY <1>3, <2>2
<1> QED BY <1>5

(* One that is bounded has a greatest. *)
LEMMA GreatestNatural ==
    ASSUME NEW N \in Nat, NEW T, T \subseteq 0..N, T # {}
    PROVE  \E n \in T : \A m \in T : m <= n
<1> DEFINE R == {N - m : m \in T}
<1>1. R \subseteq Nat /\ R # {}
  <2>1. \A m \in T : N - m \in Nat
    OBVIOUS
  <2> QED BY <2>1
<1>2. PICK r \in R : \A q \in R : r <= q
  <2> HIDE DEF R
  <2> QED BY <1>1, LeastNatural
<1>3. PICK n \in T : r = N - n
  OBVIOUS
<1>4. \A m \in T : N - n <= N - m
  BY <1>2, <1>3
<1> QED BY <1>3, <1>4

(* A set that contains 0 and with every natural the next contains them     *)
(* all.                                                                    *)
LEMMA InductNat ==
    ASSUME NEW S, 0 \in S, \A n \in Nat : n \in S => n + 1 \in S
    PROVE  Nat \subseteq S
<1> SUFFICES ASSUME Nat \ S # {} PROVE FALSE
  OBVIOUS
<1>1. PICK n \in Nat \ S : \A m \in Nat \ S : n <= m
  BY LeastNatural
<1>2. n - 1 \in Nat /\ n - 1 \in S
  BY <1>1
<1>3. (n - 1) + 1 \in S /\ (n - 1) + 1 = n
  BY <1>1, <1>2
<1> QED BY <1>3

(* The same up to a bound. *)
LEMMA InductTo ==
    ASSUME NEW N \in Nat, NEW S, 0 \in S,
           \A n \in 0..(N - 1) : n \in S => n + 1 \in S
    PROVE  0..N \subseteq S
<1> DEFINE P == {n \in Nat : n <= N => n \in S}
<1>1. 0 \in P
  OBVIOUS
<1>2. \A n \in Nat : n \in P => n + 1 \in P
  OBVIOUS
<1> HIDE DEF P
<1>3. Nat \subseteq P
  BY <1>1, <1>2, InductNat
<1> QED BY <1>3 DEF P

-----------------------------------------------------------------------------
(* The functions on 0..n that begin with start and go on by step, which    *)
(* takes the number of a value and the value to the next value.            *)
Runs(V, start, step, n) ==
    {g \in [0..n -> V] : /\ g[0] = start
                         /\ \A m \in 0..(n - 1) : g[m + 1] = step[<<m, g[m]>>]}

(* Two of them agree as far as both go. *)
LEMMA RunsAgree ==
    ASSUME NEW V, NEW start \in V, NEW step \in [Nat \X V -> V],
           NEW n \in Nat, NEW l \in Nat, n <= l,
           NEW g \in Runs(V, start, step, n), NEW h \in Runs(V, start, step, l)
    PROVE  \A m \in 0..n : g[m] = h[m]
<1> DEFINE S == {m \in Nat : g[m] = h[m]}
<1>1. 0 \in S
  BY DEF Runs
<1>2. ASSUME NEW m \in 0..(n - 1), m \in S PROVE m + 1 \in S
  <2>1. m \in 0..(l - 1) /\ m + 1 \in Nat
    OBVIOUS
  <2>2. g[m + 1] = step[<<m, g[m]>>] /\ h[m + 1] = step[<<m, h[m]>>]
    BY <2>1 DEF Runs
  <2> QED BY <1>2, <2>1, <2>2
<1> HIDE DEF S
<1>3. 0..n \subseteq S
  BY <1>1, <1>2, InductTo
<1> QED BY <1>3 DEF S

(* There is one for every n. *)
LEMMA RunsExist ==
    ASSUME NEW V, NEW start \in V, NEW step \in [Nat \X V -> V], NEW n \in Nat
    PROVE  Runs(V, start, step, n) # {}
<1> DEFINE S == {m \in Nat : Runs(V, start, step, m) # {}}
<1>1. 0 \in S
  <2>1. [m \in 0..0 |-> start] \in Runs(V, start, step, 0)
    BY DEF Runs
  <2> QED BY <2>1
<1>2. ASSUME NEW m \in Nat, m \in S PROVE m + 1 \in S
  <2>1. PICK g \in Runs(V, start, step, m) : TRUE
    BY <1>2
  <2>2. g \in [0..m -> V]
    BY DEF Runs
  <2> DEFINE h == [i \in 0..(m + 1) |-> IF i <= m THEN g[i]
                                        ELSE step[<<m, g[m]>>]]
  <2>3. h \in [0..(m + 1) -> V]
    BY <2>2
  <2>4. h[0] = start
    BY DEF Runs
  <2>5. ASSUME NEW i \in 0..m PROVE h[i + 1] = step[<<i, h[i]>>]
    <3>1. CASE i = m
      BY <3>1
    <3>2. CASE i # m
      <4>1. i \in 0..(m - 1)
        BY <3>2
      <4>2. g[i + 1] = step[<<i, g[i]>>]
        BY <4>1 DEF Runs
      <4>3. h[i] = g[i] /\ h[i + 1] = g[i + 1]
        BY <4>1
      <4> QED BY <4>2, <4>3
    <3> QED BY <3>1, <3>2
  <2>6. h \in Runs(V, start, step, m + 1)
    <3> HIDE DEF h
    <3>1. 0..(m + 1 - 1) = 0..m
      OBVIOUS
    <3> QED BY <2>3, <2>4, <2>5, <3>1 DEF Runs
  <2> QED BY <2>6
<1> HIDE DEF S
<1>3. Nat \subseteq S
  BY <1>1, <1>2, InductNat
<1> QED BY <1>3 DEF S

(* Every start and step define a function on the naturals. *)
Stepwise(V, start, step) ==
    {f \in [Nat -> V] : f[0] = start /\ \A n \in Nat : f[n + 1] = step[<<n, f[n]>>]}

LEMMA Recursion ==
    ASSUME NEW V, NEW start \in V, NEW step \in [Nat \X V -> V]
    PROVE  Stepwise(V, start, step) # {}
<1> DEFINE run(n) == CHOOSE g \in Runs(V, start, step, n) : TRUE
           f      == [n \in Nat |-> run(n)[n]]
<1>1. \A n \in Nat : run(n) \in Runs(V, start, step, n)
  BY RunsExist
<1>2. \A n \in Nat : run(n) \in [0..n -> V] /\ run(n)[0] = start
  BY <1>1 DEF Runs
<1>3. f \in [Nat -> V] /\ f[0] = start
  BY <1>2
<1>4. ASSUME NEW n \in Nat PROVE f[n + 1] = step[<<n, f[n]>>]
  <2> HIDE DEF run
  <2>1. run(n)[n] = run(n + 1)[n]
    <3>1. n + 1 \in Nat /\ n <= n + 1 /\ n \in 0..n
      OBVIOUS
    <3> QED BY <1>1, <3>1, RunsAgree
  <2>2. run(n + 1)[n + 1] = step[<<n, run(n + 1)[n]>>]
    <3>1. n \in 0..(n + 1 - 1) /\ n + 1 \in Nat
      OBVIOUS
    <3> QED BY <1>1, <3>1 DEF Runs
  <2> QED BY <2>1, <2>2
<1> HIDE DEF f
<1>5. f \in Stepwise(V, start, step)
  BY <1>3, <1>4 DEF Stepwise
<1> QED BY <1>5

(* The same for the functions on 0..N the specifications define. *)
StepwiseTo(N, V, start, step) ==
    {f \in [0..N -> V] :
        f = [n \in 0..N |-> IF n = 0 THEN start ELSE step[<<n, f[n - 1]>>]]}

LEMMA RecursionTo ==
    ASSUME NEW N \in Nat, NEW V, NEW start \in V, NEW step \in [(1..N) \X V -> V]
    PROVE  StepwiseTo(N, V, start, step) # {}
<1> DEFINE on == [x \in Nat \X V |-> IF x[1] < N THEN step[<<x[1] + 1, x[2]>>]
                                    ELSE start]
<1>1. on \in [Nat \X V -> V]
  <2>1. ASSUME NEW x \in Nat \X V, x[1] < N PROVE step[<<x[1] + 1, x[2]>>] \in V
    <3>1. x[1] + 1 \in 1..N /\ x[2] \in V
      BY <2>1
    <3> QED BY <3>1
  <2> QED BY <2>1
<1>2. \A n \in Nat, v \in V : n < N => on[<<n, v>>] = step[<<n + 1, v>>]
  OBVIOUS
<1> HIDE DEF on
<1>3. PICK g \in [Nat -> V] :
          g[0] = start /\ \A n \in Nat : g[n + 1] = on[<<n, g[n]>>]
  <2>1. Stepwise(V, start, on) # {}
    BY <1>1, Recursion, Zenon
  <2> QED BY <2>1 DEF Stepwise
<1> DEFINE f == [n \in 0..N |-> g[n]]
<1>4. f \in [0..N -> V]
  OBVIOUS
<1>5. ASSUME NEW n \in 0..N, n # 0 PROVE f[n] = step[<<n, f[n - 1]>>]
  <2>1. n - 1 \in Nat /\ n - 1 < N /\ (n - 1) + 1 = n /\ n - 1 \in 0..N
    BY <1>5
  <2>2. g[(n - 1) + 1] = on[<<n - 1, g[n - 1]>>]
    BY <1>3, <2>1
  <2>3. on[<<n - 1, g[n - 1]>>] = step[<<(n - 1) + 1, g[n - 1]>>]
    BY <1>2, <2>1
  <2> QED BY <2>1, <2>2, <2>3
<1>6. f[0] = start
  BY <1>3
<1>7. f = [n \in 0..N |-> IF n = 0 THEN start ELSE step[<<n, f[n - 1]>>]]
  <2> HIDE DEF f
  <2> QED BY <1>4, <1>5, <1>6
<1>8. f \in StepwiseTo(N, V, start, step)
  <2> HIDE DEF f
  <2> QED BY <1>4, <1>7 DEF StepwiseTo
<1> QED BY <1>8
=============================================================================
