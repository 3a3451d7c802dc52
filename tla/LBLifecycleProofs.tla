-------------------------- MODULE LBLifecycleProofs --------------------------
(***************************************************************************)
(* Proofs about LBLifecycle, for any configurations, kills and signals.    *)
(* The invariants are in LBLifecycleInv.                                   *)
(*                                                                         *)
(* The types need that every list of commands the daemon works through is  *)
(* a sequence of commands, which is shown along the concatenations it is   *)
(* made of, and that a signal overtakes at most one command.               *)
(*                                                                         *)
(* That starts do not pile up jumps needs more: the insertion of a jump is *)
(* still to come only in init, right behind the command that removes the   *)
(* one there is; no overtaken command adds a jump or deletes a base chain; *)
(* and none survives the instance whose shell it is in until the next init *)
(* begins.  Of the jumps of inbound connections, which no removal precedes,*)
(* it counts those above one against kills and failures (PileInv).         *)
(*                                                                         *)
(* That packets get no mark without its policy rule rests on the order of  *)
(* the lists: init empties a hooked chain before it adds a way to a mark,  *)
(* and ends with all policy rules in place; shutdown removes the hook      *)
(* before the first policy rule, and empties the chain of every interface  *)
(* before it is through.  Each phase keeps what the next one needs, and a  *)
(* kill at any command leaves it to the next init (MInv).                  *)
(*                                                                         *)
(* That the rules of a cycle are in force rests on the kernel tracking     *)
(* another one, which no kill or leftover has disturbed: the commands      *)
(* still to come take that one to what init, and a run, make of a kernel   *)
(* without the daemon's chains, and the two differ at most in the rules of *)
(* chains still to be emptied. For that every list must empty the chains   *)
(* it makes before it fills them, and add rules only to targets that are   *)
(* there (FInv). While a run rebuilds a chain it only adds to it between   *)
(* one flush and the end, so the chain is a beginning of what it will be.  *)
(*                                                                         *)
(* That an orderly end leaves nothing rests on the order of shutdown once  *)
(* more: before it deletes a chain it has emptied every chain of its own   *)
(* that may jump to it, and taken out the one jump there is in a base      *)
(* chain. Which chains there can be, and where their jumps, follows from   *)
(* the configurations of the instances that may have left something; that  *)
(* the one removal is enough, from every jump being inserted only where    *)
(* there is none. A command overtaken by a signal can bring a chain or a   *)
(* table back during and after that, but neither a jump out of a base      *)
(* chain nor a policy rule (CInv).                                         *)
(***************************************************************************)
EXTENDS LBLifecycleInv, NatLemmas, TLAPS

-----------------------------------------------------------------------------
(* Sequences put together from sequences of a set closed under \o, one      *)
(* after the other.                                                        *)
LEMMA FlattenSteps ==
    ASSUME NEW P, \A a, b \in P : a \o b \in P,
           NEW n \in Nat \ {0}, NEW f \in [1..n -> P]
    PROVE  \E g : /\ g[1] = f[1] /\ FlattenSeq(f) = g[n]
                  /\ \A m \in 2..n : g[m] = g[m - 1] \o f[m]
<1>0. f \in Seq(P) /\ Len(f) = n
  OBVIOUS
<1>2. CASE n # 0
  <2> DEFINE N    == n - 1
             step == [x \in (1..N) \X P |-> x[2] \o f[x[1] + 1]]
             Rec(g) == g = [i \in 1..n |-> IF i = 1 THEN f[i] ELSE g[i - 1] \o f[i]]
  <2>1. N \in Nat /\ f[1] \in P /\ step \in [(1..N) \X P -> P]
    <3>1. \A x \in (1..N) \X P : x[2] \in P /\ f[x[1] + 1] \in P
      BY <1>2
    <3> QED BY <1>2, <3>1
  <2>2. \A x \in (1..N) \X P : step[x] = x[2] \o f[x[1] + 1]
    OBVIOUS
  <2>12. n = N + 1
    OBVIOUS
  <2> HIDE DEF step, N
  <2> DEFINE start == f[1]
  <2> HIDE DEF start
  <2>13. start \in P
    BY <2>1 DEF start
  <2>14. StepwiseTo(N, P, start, step) # {}
    BY <2>1, <2>13, RecursionTo
  <2>15. PICK h \in StepwiseTo(N, P, start, step) : TRUE
    BY <2>14
  <2>16. /\ h \in [0..N -> P] /\ h[0] = start
        /\ \A m \in 1..N : h[m] = step[<<m, h[m - 1]>>]
    <3>1. /\ h \in [0..N -> P]
          /\ h = [m \in 0..N |-> IF m = 0 THEN start ELSE step[<<m, h[m - 1]>>]]
      BY <2>15 DEF StepwiseTo
    <3> QED BY <2>1, <3>1
  <2>3. /\ h \in [0..N -> P] /\ h[0] = f[1]
        /\ \A m \in 1..N : h[m] = step[<<m, h[m - 1]>>]
    BY <2>16 DEF start
  <2> DEFINE g == [i \in 1..n |-> h[i - 1]]
  <2>4. Rec(g)
    <3>1. ASSUME NEW i \in 1..n
          PROVE  g[i] = IF i = 1 THEN f[i] ELSE g[i - 1] \o f[i]
      <4>1. CASE i = 1
        BY <4>1, <2>3
      <4>2. CASE i # 1
        <5> DEFINE j == i - 1
        <5>1. j \in 1..N /\ j + 1 = i
          BY <4>2, <2>12, <2>1
        <5> HIDE DEF j
        <5>2. h[j - 1] \in P
          BY <5>1, <2>1, <2>3
        <5>3. h[j] = step[<<j, h[j - 1]>>] /\ <<j, h[j - 1]>> \in (1..N) \X P
          BY <5>1, <5>2, <2>3
        <5>4. h[j] = h[j - 1] \o f[i]
          BY <5>1, <5>3, <2>2
        <5>5. g[i] = h[j] /\ g[i - 1] = h[j - 1]
          BY <5>1, <4>2 DEF j
        <5> QED BY <5>4, <5>5, <4>2
      <4> QED BY <4>1, <4>2
    <3> QED BY <3>1
  <2> HIDE DEF g, step
  <2> DEFINE flatten == CHOOSE g0 : Rec(g0)
  <2>5. Rec(flatten)
    <3> HIDE DEF Rec
    <3> QED BY <2>4
  <2>6. FlattenSeq(f) = flatten[n]
    BY <1>0, <1>2 DEF FlattenSeq
  <2> HIDE DEF flatten
  <2>7. /\ flatten[1] = f[1]
        /\ \A m \in 2..n : flatten[m] = flatten[m - 1] \o f[m]
    <3>1. \A m \in 1..n :
            flatten[m] = IF m = 1 THEN f[m] ELSE flatten[m - 1] \o f[m]
      BY <2>5
    <3>2. 1 \in 1..n /\ \A m \in 2..n : m \in 1..n /\ m # 1
      BY <1>2
    <3> QED BY <3>1, <3>2
  <2> QED BY <2>6, <2>7
<1> QED BY <1>2

LEMMA FlattenIn ==
    ASSUME NEW P, <<>> \in P, \A a, b \in P : a \o b \in P,
           NEW n \in Nat, NEW f \in [1..n -> P]
    PROVE  FlattenSeq(f) \in P
<1>1. CASE n = 0
  BY <1>1 DEF FlattenSeq
<1>2. CASE n # 0
  <2>0. n \in Nat \ {0}
    BY <1>2
  <2>1. PICK g : /\ g[1] = f[1] /\ FlattenSeq(f) = g[n]
                 /\ \A m \in 2..n : g[m] = g[m - 1] \o f[m]
    BY <2>0, FlattenSteps
  <2> DEFINE S == {m \in Nat : m < n => g[m + 1] \in P}
  <2>2. 0 \in S
    BY <1>2, <2>1
  <2>3. ASSUME NEW m \in Nat, m \in S PROVE m + 1 \in S
    <3> SUFFICES ASSUME m + 1 < n PROVE g[(m + 1) + 1] \in P
      OBVIOUS
    <3>1. m + 2 \in 2..n /\ (m + 2) - 1 = m + 1 /\ (m + 1) + 1 = m + 2
      OBVIOUS
    <3>2. g[m + 2] = g[(m + 2) - 1] \o f[m + 2]
      BY <2>1, <3>1
    <3>3. g[m + 1] \in P /\ f[m + 2] \in P
      BY <2>3, <3>1
    <3> QED BY <3>1, <3>2, <3>3
  <2>4. Nat \subseteq S
    <3> HIDE DEF S
    <3> QED BY <2>2, <2>3, InductNat
  <2> QED BY <2>4, <2>1, <1>2
<1> QED BY <1>1, <1>2

(* One of them has what joining sequences does not lose.                   *)
LEMMA FlattenHas ==
    ASSUME NEW P, \A a, b \in P : a \o b \in P,
           NEW Q, \A a \in P, b \in Q : a \o b \in Q /\ b \o a \in Q,
           NEW n \in Nat \ {0}, NEW f \in [1..n -> P], <<>> \in P,
           NEW j \in 1..n, f[j] \in Q
    PROVE  FlattenSeq(f) \in Q
<1>1. PICK g : /\ g[1] = f[1] /\ FlattenSeq(f) = g[n]
               /\ \A m \in 2..n : g[m] = g[m - 1] \o f[m]
  BY FlattenSteps
<1> DEFINE S == {m \in Nat : m < n => /\ g[m + 1] \in P \cup Q
                                      /\ j <= m + 1 => g[m + 1] \in Q}
<1>2. 0 \in S
  BY <1>1
<1>3. ASSUME NEW m \in Nat, m \in S PROVE m + 1 \in S
  <2> SUFFICES ASSUME m + 1 < n
               PROVE  /\ g[(m + 1) + 1] \in P \cup Q
                      /\ j <= (m + 1) + 1 => g[(m + 1) + 1] \in Q
    OBVIOUS
  <2>1. m + 2 \in 2..n /\ (m + 2) - 1 = m + 1 /\ (m + 1) + 1 = m + 2
    OBVIOUS
  <2>2. g[m + 2] = g[(m + 2) - 1] \o f[m + 2]
    BY <1>1, <2>1
  <2>3. g[m + 2] = g[m + 1] \o f[m + 2]
    BY <2>1, <2>2
  <2>4. /\ g[m + 1] \in P \cup Q /\ f[m + 2] \in P
        /\ j <= m + 1 => g[m + 1] \in Q
    BY <1>3, <2>1
  <2>5. g[m + 2] \in P \cup Q
    BY <2>3, <2>4
  <2>6. j <= m + 2 => g[m + 2] \in Q
    <3>1. CASE j <= m + 1
      BY <3>1, <2>3, <2>4
    <3>2. CASE j = m + 2
      <4>1. f[m + 2] \in Q
        BY <3>2
      <4>2. CASE g[m + 1] \in P
        BY <4>1, <4>2, <2>3
      <4>3. CASE g[m + 1] \in Q
        BY <4>3, <2>3, <2>4
      <4> QED BY <4>2, <4>3, <2>4
    <3> QED BY <3>1, <3>2
  <2> QED BY <2>1, <2>5, <2>6
<1>4. Nat \subseteq S
  <2> HIDE DEF S
  <2> QED BY <1>2, <1>3, InductNat
<1> QED BY <1>4, <1>1

-----------------------------------------------------------------------------
LEMMA CountType ==
    ASSUME NEW S, NEW s \in Seq(S), NEW t
    PROVE  /\ IsFiniteSet({n \in DOMAIN s : s[n] = t})
           /\ Count(s, t) \in Nat
<1>1. DOMAIN s = 1..Len(s) /\ IsFiniteSet(1..Len(s))
  BY FS_Interval
<1>2. {n \in DOMAIN s : s[n] = t} \in SUBSET (1..Len(s))
  BY <1>1
<1>3. IsFiniteSet({n \in DOMAIN s : s[n] = t})
  BY <1>1, <1>2, FS_Subset
<1> QED BY <1>3, FS_CardinalityType DEF Count

(* A set of numbers that maps into another without collisions is no larger.*)
LEMMA NoLarger ==
    ASSUME NEW S, NEW T, IsFiniteSet(T), NEW f \in [S -> T],
           \A x, y \in S : f[x] = f[y] => x = y
    PROVE  Cardinality(S) <= Cardinality(T)
<1>1. f \in Injection(S, T)
  BY DEF Injection, IsInjective
<1> QED BY <1>1, FS_Injection

LEMMA CountEmpty == ASSUME NEW t PROVE Count(<<>>, t) = 0
<1>1. {n \in DOMAIN <<>> : <<>>[n] = t} = {}
  OBVIOUS
<1> QED BY <1>1, FS_EmptySet DEF Count

(* Appending or inserting x counts for x only.                             *)
LEMMA CountAppend ==
    ASSUME NEW S, NEW s \in Seq(S), NEW x \in S, NEW t,
           NEW u, u = Append(s, x)
    PROVE  Count(u, t) <= Count(s, t) + (IF x = t THEN 1 ELSE 0)
<1> DEFINE old == {n \in DOMAIN s : s[n] = t}
           new == {n \in DOMAIN u : u[n] = t}
<1>0. DOMAIN s = 1..Len(s) /\ DOMAIN u = 1..(Len(s) + 1)
  OBVIOUS
<1>1. \A n \in 1..(Len(s) + 1) :
         u[n] = IF n = Len(s) + 1 THEN x ELSE s[n]
  OBVIOUS
<1>4. /\ IsFiniteSet(old) /\ Cardinality(old) \in Nat
      /\ Count(s, t) = Cardinality(old)
      /\ Count(u, t) = Cardinality(new)
  BY CountType DEF Count
<1>2. CASE x # t
  <2>1. new = old
    BY <1>0, <1>1, <1>2
  <2> HIDE DEF new, old
  <2> QED BY <2>1, <1>2, <1>4
<1>3. CASE x = t
  <2>1. new = old \cup {Len(s) + 1} /\ Len(s) + 1 \notin old
    BY <1>0, <1>1, <1>3
  <2> HIDE DEF new, old
  <2>2. Cardinality(new) = Cardinality(old) + 1
    BY <2>1, <1>4, FS_AddElement
  <2> QED BY <2>2, <1>3, <1>4
<1> QED BY <1>2, <1>3

LEMMA CountInsert ==
    ASSUME NEW S, NEW s \in Seq(S), NEW x \in S, NEW t,
           NEW u, u = <<x>> \o s
    PROVE  Count(u, t) <= Count(s, t) + (IF x = t THEN 1 ELSE 0)
<1> DEFINE old == {n \in DOMAIN s : s[n] = t}
           new == {n \in DOMAIN u : u[n] = t}
<1>0. DOMAIN s = 1..Len(s) /\ DOMAIN u = 1..(Len(s) + 1)
  OBVIOUS
<1>1. \A n \in 1..(Len(s) + 1) :
         u[n] = IF n = 1 THEN x ELSE s[n - 1]
  OBVIOUS
<1>2. IsFiniteSet(old) /\ Cardinality(old) \in Nat
  BY CountType DEF Count
<1>3. IsFiniteSet(new) /\ Cardinality(new) \in Nat
  <2>1. u \in Seq(S)
    OBVIOUS
  <2> QED BY <2>1, CountType DEF Count
<1>4. Cardinality(new \ {1}) <= Cardinality(old)
  <2> DEFINE f == [n \in new \ {1} |-> n - 1]
  <2>1. f \in [new \ {1} -> old]
    BY <1>0, <1>1
  <2>2. \A m, n \in new \ {1} : f[m] = f[n] => m = n
    BY <1>0
  <2> HIDE DEF f, new, old
  <2> QED BY <2>1, <2>2, <1>2, NoLarger
<1>5. Cardinality(new \ {1})
         = IF 1 \in new THEN Cardinality(new) - 1 ELSE Cardinality(new)
  BY <1>3, FS_RemoveElement
<1>6. 1 \in new => x = t
  BY <1>0, <1>1
<1> HIDE DEF new, old
<1>7. Cardinality(new) <= Cardinality(old) + (IF x = t THEN 1 ELSE 0)
  BY <1>2, <1>3, <1>4, <1>5, <1>6
<1> QED BY <1>7 DEF Count, new, old

(* Removing the first x takes one of those counted, if there is any, and   *)
(* counts nothing more.                                                    *)
LEMMA CountRemove ==
    ASSUME NEW S, NEW s \in Seq(S), NEW x, NEW t
    PROVE  /\ RemoveFirst(s, x) \in Seq(S)
           /\ Count(RemoveFirst(s, x), t) <= Count(s, t)
           /\ x = t /\ Count(s, t) # 0 =>
                Count(RemoveFirst(s, x), t) <= Count(s, t) - 1
<1> DEFINE T == {i \in 1..Len(s) : s[i] = x}
           p == SelectInSeq(s, LAMBDA v : v = x)
           r == RemoveFirst(s, x)
           old == {n \in DOMAIN s : s[n] = t}
           new == {n \in DOMAIN r : r[n] = t}
<1>0. DOMAIN s = 1..Len(s)
  OBVIOUS
<1>1. CASE T = {}
  <2>1. r = s
    BY <1>1 DEF RemoveFirst
  <2>2. x = t => old = {}
    BY <1>1, <1>0
  <2>3. x = t => Count(s, t) = 0
    BY <2>2, FS_EmptySet DEF Count
  <2>4. Count(s, t) \in Nat
    BY CountType
  <2> QED BY <2>1, <2>3, <2>4
<1>2. CASE T # {}
  <2>1. p = Min(T)
    BY <1>2 DEF SelectInSeq
  <2>2. Min(T) \in T
    <3>1. T \subseteq Nat
      OBVIOUS
    <3>2. \E m \in T : \A n \in T : m <= n
      BY <1>2, <3>1, LeastNatural
    <3> QED BY <3>2 DEF Min
  <2>3. p \in 1..Len(s) /\ s[p] = x
    BY <2>1, <2>2
  <2>4. r = RemoveAt(s, p)
    BY <1>2 DEF RemoveFirst
  <2> HIDE DEF T, p, r
  <2>5. /\ SubSeq(s, 1, p - 1) \in Seq(S) /\ Len(SubSeq(s, 1, p - 1)) = p - 1
        /\ SubSeq(s, p + 1, Len(s)) \in Seq(S)
        /\ Len(SubSeq(s, p + 1, Len(s))) = Len(s) - p
        /\ \A m \in 1..(p - 1) : SubSeq(s, 1, p - 1)[m] = s[m]
        /\ \A m \in 1..(Len(s) - p) : SubSeq(s, p + 1, Len(s))[m] = s[m + p]
    BY <2>3
  <2> DEFINE a == SubSeq(s, 1, p - 1)
             b == SubSeq(s, p + 1, Len(s))
  <2>6. /\ r \in Seq(S) /\ Len(r) = Len(s) - 1
        /\ \A m \in 1..(Len(s) - 1) : r[m] = IF m < p THEN s[m] ELSE s[m + 1]
    <3>1. r = a \o b
      BY <2>4 DEF RemoveAt
    <3> HIDE DEF a, b
    <3>2. a \in Seq(S) /\ b \in Seq(S) /\ Len(a) = p - 1 /\ Len(b) = Len(s) - p
      BY <2>5 DEF a, b
    <3>3. r \in Seq(S) /\ Len(r) = Len(s) - 1
      BY <3>1, <3>2, <2>3
    <3>4. \A m \in 1..(Len(s) - 1) : r[m] = IF m < p THEN a[m] ELSE b[m - (p - 1)]
      BY <3>1, <3>2, <2>3
    <3>5. \A m \in 1..(p - 1) : a[m] = s[m]
      BY <2>5 DEF a
    <3>6. \A m \in 1..(Len(s) - p) : b[m] = s[m + p]
      BY <2>5 DEF b
    <3>7. ASSUME NEW m \in 1..(Len(s) - 1)
          PROVE  r[m] = IF m < p THEN s[m] ELSE s[m + 1]
      <4>1. CASE m < p
        BY <4>1, <3>4, <3>5, <2>3
      <4>2. CASE ~(m < p)
        <5>1. m - (p - 1) \in 1..(Len(s) - p)
          BY <4>2, <2>3
        <5>2. b[m - (p - 1)] = s[(m - (p - 1)) + p]
          BY <5>1, <3>6
        <5>3. (m - (p - 1)) + p = m + 1
          BY <2>3
        <5> QED BY <5>2, <5>3, <4>2, <3>4
      <4> QED BY <4>1, <4>2
    <3> QED BY <3>3, <3>7
  <2>7. DOMAIN r = 1..(Len(s) - 1)
    BY <2>6
  <2>8. IsFiniteSet(old) /\ Cardinality(old) \in Nat
    BY CountType DEF Count
  <2>9. IsFiniteSet(old \ {p}) /\ Cardinality(old \ {p})
          = IF p \in old THEN Cardinality(old) - 1 ELSE Cardinality(old)
    BY <2>8, FS_RemoveElement
  <2> DEFINE f == [m \in new |-> IF m < p THEN m ELSE m + 1]
  <2>10. f \in [new -> old \ {p}]
    BY <2>6, <2>7, <2>3, <1>0
  <2>11. \A m, n \in new : f[m] = f[n] => m = n
    BY <2>7, <2>3
  <2>12. Cardinality(new) <= Cardinality(old \ {p})
    <3> HIDE DEF f, new, old
    <3> QED BY <2>9, <2>10, <2>11, NoLarger
  <2>13. Cardinality(new) \in Nat
    BY <2>6, CountType DEF Count
  <2>14. x = t => p \in old
    BY <2>3, <1>0
  <2> HIDE DEF new, old
  <2>15. /\ Cardinality(new) <= Cardinality(old)
         /\ x = t => Cardinality(new) <= Cardinality(old) - 1
    BY <2>8, <2>9, <2>12, <2>13, <2>14
  <2> QED BY <2>6, <2>15 DEF Count, new, old, r
<1> QED BY <1>1, <1>2

-----------------------------------------------------------------------------
(* What is in Kernels.                                                     *)
LEMMA KernelParts ==
    ASSUME NEW k \in Kernels
    PROVE  /\ DOMAIN k.chains \subseteq Names
           /\ k.chains \in [DOMAIN k.chains -> Seq(Names)]
           /\ k.rules \subseteq Int /\ k.routes \subseteq Int
           /\ k = [chains |-> k.chains, rules |-> k.rules, routes |-> k.routes]
<1>1. /\ k.chains \in UNION {[D -> Seq(Names)] : D \in SUBSET Names}
      /\ k.rules \subseteq Int /\ k.routes \subseteq Int
      /\ k = [chains |-> k.chains, rules |-> k.rules, routes |-> k.routes]
  BY DEF Kernels
<1>2. PICK D \in SUBSET Names : k.chains \in [D -> Seq(Names)]
  BY <1>1
<1>3. DOMAIN k.chains = D
  BY <1>2
<1> QED BY <1>1, <1>2, <1>3

LEMMA KernelMade ==
    ASSUME NEW D, D \subseteq Names, NEW f \in [D -> Seq(Names)],
           NEW r, r \subseteq Int, NEW q, q \subseteq Int
    PROVE  [chains |-> f, rules |-> r, routes |-> q] \in Kernels
<1>1. f \in UNION {[E -> Seq(Names)] : E \in SUBSET Names}
  OBVIOUS
<1> QED BY <1>1 DEF Kernels

(* A command that rewrites the rules of a chain there is.                  *)
LEMMA WithRulesEffect ==
    ASSUME NEW k \in Kernels, NEW cmd \in Commands,
           cmd.about \in DOMAIN k.chains,
           NEW rs \in Seq(Names), rs = NewRules(k.chains[cmd.about], cmd),
           cmd.op \in {"flush", "add", "insert", "remove"}
    PROVE  /\ WithRules(k, cmd.about, rs) \in Kernels
           /\ Effect(k, cmd, WithRules(k, cmd.about, rs))
<1> DEFINE f == [k.chains EXCEPT ![cmd.about] = rs]
           e == WithRules(k, cmd.about, rs)
<1>1. f \in [DOMAIN k.chains -> Seq(Names)] /\ DOMAIN k.chains \subseteq Names
  BY KernelParts
<1>2. \A b \in DOMAIN k.chains :
          f[b] = IF b = cmd.about THEN rs ELSE k.chains[b]
  BY KernelParts
<1>3. e = [chains |-> f, rules |-> k.rules, routes |-> k.routes]
  <2> HIDE DEF f
  <2>1. e = [k EXCEPT !.chains = f]
    BY DEF WithRules, WithChains, f
  <2> QED BY <2>1, KernelParts
<1> HIDE DEF f, e
<1>4. e.chains = f /\ e.rules = k.rules /\ DOMAIN f = DOMAIN k.chains
  BY <1>1, <1>3
<1>5. e \in Kernels
  BY <1>1, <1>3, KernelMade, KernelParts
<1>6. NewPolicy(k.rules, cmd) = k.rules
  BY DEF NewPolicy
<1>7. Effect(k, cmd, e)
  BY <1>2, <1>4, <1>6 DEF Effect
<1> QED BY <1>5, <1>7 DEF e

(* Executed, command by command.                                           *)
LEMMA ExecutedEffect ==
    ASSUME NEW k \in Kernels, NEW cmd \in Commands
    PROVE  Executed(k, cmd) \in Kernels /\ Effect(k, cmd, Executed(k, cmd))
<1> DEFINE c == cmd.about
           t == cmd.to
           e == Executed(k, cmd)
<1>0. c \in Names /\ t \in Names /\ c[2] \in Int
  BY DEF Commands, Names
<1>11. /\ k.chains \in [DOMAIN k.chains -> Seq(Names)]
      /\ DOMAIN k.chains \subseteq Names
  BY KernelParts
<1>1. CASE e = k /\ cmd.op \notin {"rule add", "rule delete", "flush", "remove"}
  BY <1>1, <1>11 DEF Effect, NewPolicy
<1>2. CASE cmd.op = "new" /\ ~Exists(k, c)
  <2> DEFINE f == [b \in DOMAIN k.chains \cup {c} |->
                     IF b = c THEN <<>> ELSE k.chains[b]]
  <2>1. f \in [DOMAIN k.chains \cup {c} -> Seq(Names)]
    BY <1>11
  <2>2. e = WithChains(k, f)
    BY <1>2 DEF Executed
  <2>3. e = [chains |-> f, rules |-> k.rules, routes |-> k.routes]
    <3> HIDE DEF f, e
    <3> QED BY <2>2, KernelParts DEF WithChains
  <2>4. DOMAIN k.chains \cup {c} \subseteq Names
    BY <1>0, <1>11
  <2>5. e \in Kernels
    <3> HIDE DEF f, e
    <3> QED BY <2>1, <2>3, <2>4, KernelMade, KernelParts
  <2>6. /\ DOMAIN f = DOMAIN k.chains \cup {c} /\ f[c] = <<>>
        /\ \A b \in DOMAIN k.chains : f[b] = k.chains[b]
    BY <1>2 DEF Exists
  <2>7. e.chains = f /\ e.rules = k.rules
    <3> HIDE DEF f, e
    <3> QED BY <2>3
  <2>8. NewPolicy(k.rules, cmd) = k.rules
    BY <1>2 DEF NewPolicy
  <2> HIDE DEF f, e
  <2>9. Effect(k, cmd, e)
    BY <2>6, <2>7, <2>8, <1>2 DEF Effect, Exists
  <2> QED BY <2>5, <2>9 DEF e
<1>3. CASE /\ cmd.op = "delete" /\ Exists(k, c) /\ ~Referenced(k, c)
           /\ k.chains[c] = <<>>
  <2> DEFINE f == [b \in DOMAIN k.chains \ {c} |-> k.chains[b]]
  <2>1. f \in [DOMAIN k.chains \ {c} -> Seq(Names)]
    BY <1>11
  <2>2. e = WithChains(k, f)
    BY <1>3 DEF Executed
  <2>3. e = [chains |-> f, rules |-> k.rules, routes |-> k.routes]
    <3> HIDE DEF f, e
    <3> QED BY <2>2, KernelParts DEF WithChains
  <2>4. DOMAIN k.chains \ {c} \subseteq Names
    BY <1>11
  <2>5. e \in Kernels
    <3> HIDE DEF f, e
    <3> QED BY <2>1, <2>3, <2>4, KernelMade, KernelParts
  <2>6. /\ DOMAIN f = DOMAIN k.chains \ {c}
        /\ \A b \in DOMAIN f : f[b] = k.chains[b]
    OBVIOUS
  <2>7. e.chains = f /\ e.rules = k.rules
    <3> HIDE DEF f, e
    <3> QED BY <2>3
  <2>8. NewPolicy(k.rules, cmd) = k.rules
    BY <1>3 DEF NewPolicy
  <2> HIDE DEF f, e
  <2>9. Effect(k, cmd, e)
    BY <2>6, <2>7, <2>8, <1>3 DEF Effect
  <2> QED BY <2>5, <2>9 DEF e
<1>4. CASE cmd.op \in {"flush", "remove"} /\ ~Exists(k, c)
  <2>1. e = k
    BY <1>4 DEF Executed
  <2> QED BY <2>1, <1>4, <1>11 DEF Effect, NewPolicy, Exists
<1>5. CASE cmd.op = "flush" /\ Exists(k, c)
  <2>1. e = WithRules(k, c, <<>>)
    BY <1>5 DEF Executed
  <2>2. <<>> = NewRules(k.chains[c], cmd) /\ <<>> \in Seq(Names)
    BY <1>5 DEF NewRules
  <2> QED BY <2>1, <2>2, <1>5, WithRulesEffect DEF Exists
<1>6. CASE cmd.op = "add" /\ Exists(k, c) /\ IsTarget(k, t)
  <2>1. e = WithRules(k, c, Append(k.chains[c], t))
    BY <1>6 DEF Executed
  <2>2. /\ Append(k.chains[c], t) = NewRules(k.chains[c], cmd)
        /\ Append(k.chains[c], t) \in Seq(Names)
    BY <1>0, <1>11, <1>6 DEF NewRules, Exists
  <2> QED BY <2>1, <2>2, <1>6, WithRulesEffect DEF Exists
<1>7. CASE cmd.op = "insert" /\ Exists(k, c) /\ IsTarget(k, t)
  <2>1. e = WithRules(k, c, <<t>> \o k.chains[c])
    BY <1>7 DEF Executed
  <2>2. /\ <<t>> \o k.chains[c] = NewRules(k.chains[c], cmd)
        /\ <<t>> \o k.chains[c] \in Seq(Names)
    <3>1. k.chains[c] \in Seq(Names) /\ <<t>> \in Seq(Names)
      BY <1>0, <1>11, <1>7 DEF Exists
    <3> QED BY <3>1, <1>7 DEF NewRules
  <2> QED BY <2>1, <2>2, <1>7, WithRulesEffect DEF Exists
<1>8. CASE cmd.op = "remove" /\ Exists(k, c)
  <2>1. e = WithRules(k, c, RemoveFirst(k.chains[c], t))
    BY <1>8 DEF Executed
  <2>2. /\ RemoveFirst(k.chains[c], t) = NewRules(k.chains[c], cmd)
        /\ RemoveFirst(k.chains[c], t) \in Seq(Names)
    <3>1. k.chains[c] \in Seq(Names)
      BY <1>11, <1>8 DEF Exists
    <3>2. RemoveFirst(k.chains[c], t) \in Seq(Names)
      BY <3>1, CountRemove
    <3> QED BY <3>2, <1>8 DEF NewRules
  <2> QED BY <2>1, <2>2, <1>8, WithRulesEffect DEF Exists
<1>9. CASE cmd.op \in {"route replace", "route flush", "rule add", "rule delete"}
  <2> DEFINE r == NewPolicy(k.rules, cmd)
             q == e.routes
  <2>0. \/ e = [k EXCEPT !.routes = @ \cup {c[2]}] /\ cmd.op = "route replace"
        \/ e = [k EXCEPT !.routes = @ \ {c[2]}] /\ cmd.op = "route flush"
        \/ e = [k EXCEPT !.rules = @ \cup {c[2]}] /\ cmd.op = "rule add"
        \/ e = [k EXCEPT !.rules = @ \ {c[2]}] /\ cmd.op = "rule delete"
    BY <1>9 DEF Executed
  <2>1. \E x : x \subseteq Int
               /\ e = [chains |-> k.chains, rules |-> r, routes |-> x]
    <3> HIDE DEF e, c
    <3>1. k = [chains |-> k.chains, rules |-> k.rules, routes |-> k.routes]
      BY KernelParts
    <3>2. CASE e = [k EXCEPT !.routes = @ \cup {c[2]}] /\ cmd.op = "route replace"
      <4>1. e = [chains |-> k.chains, rules |-> k.rules, routes |-> k.routes \cup {c[2]}]
        BY <3>1, <3>2
      <4>2. k.routes \cup {c[2]} \subseteq Int /\ r = k.rules
        BY <3>2, <1>0, KernelParts DEF NewPolicy
      <4> QED BY <4>1, <4>2
    <3>3. CASE e = [k EXCEPT !.routes = @ \ {c[2]}] /\ cmd.op = "route flush"
      <4>1. e = [chains |-> k.chains, rules |-> k.rules, routes |-> k.routes \ {c[2]}]
        BY <3>1, <3>3
      <4>2. k.routes \ {c[2]} \subseteq Int /\ r = k.rules
        BY <3>3, KernelParts DEF NewPolicy
      <4> QED BY <4>1, <4>2
    <3>4. CASE e = [k EXCEPT !.rules = @ \cup {c[2]}] /\ cmd.op = "rule add"
      <4>1. e = [chains |-> k.chains, rules |-> k.rules \cup {c[2]}, routes |-> k.routes]
        BY <3>1, <3>4
      <4>2. k.routes \subseteq Int /\ r = k.rules \cup {c[2]}
        BY <3>4, KernelParts DEF NewPolicy, c
      <4> QED BY <4>1, <4>2
    <3>5. CASE e = [k EXCEPT !.rules = @ \ {c[2]}] /\ cmd.op = "rule delete"
      <4>1. e = [chains |-> k.chains, rules |-> k.rules \ {c[2]}, routes |-> k.routes]
        BY <3>1, <3>5
      <4>2. k.routes \subseteq Int /\ r = k.rules \ {c[2]}
        BY <3>5, KernelParts DEF NewPolicy, c
      <4> QED BY <4>1, <4>2
    <3> QED BY <2>0, <3>2, <3>3, <3>4, <3>5
  <2>2. r \subseteq Int
    BY <1>0, KernelParts DEF NewPolicy
  <2> HIDE DEF e, r, c
  <2>3. e \in Kernels
    BY <2>1, <2>2, <1>11, KernelMade
  <2>4. e.chains = k.chains /\ e.rules = r
    BY <2>1
  <2>5. Effect(k, cmd, e)
    BY <2>4, <1>9 DEF Effect, r
  <2> QED BY <2>3, <2>5 DEF e
<1>10. \/ e = k /\ cmd.op \notin {"rule add", "rule delete", "flush", "remove"}
       \/ cmd.op = "new" /\ ~Exists(k, c)
       \/ /\ cmd.op = "delete" /\ Exists(k, c) /\ ~Referenced(k, c)
          /\ k.chains[c] = <<>>
       \/ cmd.op \in {"flush", "remove"}
       \/ cmd.op = "add" /\ Exists(k, c) /\ IsTarget(k, t)
       \/ cmd.op = "insert" /\ Exists(k, c) /\ IsTarget(k, t)
       \/ cmd.op \in {"route replace", "route flush", "rule add", "rule delete"}
  BY DEF Executed
<1> QED BY <1>1, <1>2, <1>3, <1>4, <1>5, <1>6, <1>7, <1>8, <1>9, <1>10

-----------------------------------------------------------------------------
(* A configuration by its parts.                                           *)
LEMMA ConfigParts ==
    ASSUME NEW c \in Configs
    PROVE  /\ c.nat \in BOOLEAN /\ c.local \in BOOLEAN /\ c.sticky \in BOOLEAN
           /\ c.rules \in Seq(Rule) /\ Len(c.rules) \in Nat
           /\ \A r \in 1..Len(c.rules) : c.rules[r] \in Rule
<1>1. c \in [nat : BOOLEAN, local : BOOLEAN, sticky : BOOLEAN, rules : Seq(Rule)]
  BY ConfigsAssumption
<1>2. c.rules \in Seq(Rule)
  BY <1>1
<1> QED BY <1>1, <1>2

(* A sequence of sequences over S, flattened.                              *)
LEMMA FlattenType ==
    ASSUME NEW S, NEW n \in Nat, NEW f \in [1..n -> Seq(S)]
    PROVE  FlattenSeq(f) \in Seq(S)
<1>1. <<>> \in Seq(S) /\ \A a, b \in Seq(S) : a \o b \in Seq(S)
  OBVIOUS
<1> HIDE DEF FlattenSeq
<1> QED BY <1>1, FlattenIn

LEMMA IfType ==
    ASSUME NEW S, NEW b \in BOOLEAN, NEW s \in Seq(S)
    PROVE  If(b, s) \in Seq(S)
BY DEF If

LEMMA BothType ==
    ASSUME NEW S, NEW c \in Configs, NEW s \in Seq(S), NEW t \in Seq(S)
    PROVE  Both(c, s, t) \in Seq(S)
<1>1. If(c.local, t) \in Seq(S)
  BY ConfigParts, IfType
<1> QED BY <1>1 DEF Both

LEMMA SeqMonotone ==
    ASSUME NEW S, NEW T, S \subseteq T, NEW s \in Seq(S)
    PROVE  s \in Seq(T)
OBVIOUS

(* What init executes.                                                     *)
LEMMA SetupType ==
    ASSUME NEW c \in Configs, NEW i \in Ifaces
    PROVE  InitIface(c, i) \in Seq(SetupCmds(i))
<1> DEFINE S == SetupCmds(i)
           a == <<New(ISP(i)), Flush(ISP(i)), Add(ISP(i), CONNMARK(i)),
                  Add(ISP(i), MARK(i)), Add(ISP(i), ACCEPT)>>
           b == <<New(INBOUND(i)), Flush(INBOUND(i)),
                  Add(INBOUND(i), CONNMARK(i)), Insert(PREROUTING, INBOUND(i))>>
           d == <<RouteReplace(i), RuleDelete(i), RuleAdd(i)>>
           e == <<Add(NAT, SNAT(i))>>
<1>1. a \in Seq(S) /\ b \in Seq(S) /\ d \in Seq(S) /\ e \in Seq(S)
  BY DEF SetupCmds
<1>2. InitIface(c, i) = a \o If(c.sticky, b) \o d \o If(c.nat, e)
  BY DEF InitIface
<1> HIDE DEF S, a, b, d, e
<1>3. If(c.sticky, b) \in Seq(S) /\ If(c.nat, e) \in Seq(S)
  BY <1>1, ConfigParts, IfType
<1> QED BY <1>1, <1>2, <1>3 DEF S

LEMMA InitType == ASSUME NEW c \in Configs PROVE InitCmds(c) \in Seq(InitSet)
<1> DEFINE n == <<New(NAT), Flush(NAT), Flush(HOOK), Insert(HOOK, NAT)>>
           p == HookChain(PREROUTING, PRE)
           o == HookChain(OUTPUT, OUT)
           f == [i \in 1..NumIfaces |-> InitIface(c, i)]
           S == InitSet
<1>1. n \in Seq(S) /\ p \in Seq(S) /\ o \in Seq(S)
  BY DEF HookChain, InitSet, HookSet
<1>2. f \in [1..NumIfaces -> Seq(S)]
  <2>1. \A i \in Ifaces : SetupCmds(i) \subseteq S
    BY DEF InitSet
  <2>2. \A i \in Ifaces : InitIface(c, i) \in Seq(S)
    BY <2>1, SetupType, SeqMonotone
  <2> QED BY <2>2 DEF Ifaces
<1>3. InitCmds(c) = If(c.nat, n) \o p \o If(c.local, o) \o FlattenSeq(f)
  BY DEF InitCmds, Each
<1> HIDE DEF S, n, p, o, f
<1>4. If(c.nat, n) \in Seq(S) /\ If(c.local, o) \in Seq(S)
  BY <1>1, ConfigParts, IfType
<1>5. FlattenSeq(f) \in Seq(S)
  BY <1>2, FlattenType, NumIfacesAssumption
<1> QED BY <1>1, <1>3, <1>4, <1>5 DEF S

(* What update_paths executes.                                             *)
LEMMA PathType ==
    ASSUME NEW k, NEW c \in Configs, NEW up \in SUBSET Ifaces
    PROVE  /\ PathCmds(k, c, up) \in Seq(PathSet)
           /\ PathCmds(k, c, up) \in Seq(RunSet)
<1> DEFINE one(i) == If(i \in up,
                        If(i \notin k.routes, <<RouteReplace(i)>>)
                        \o If(c.nat /\ ~Jumps(k, NAT, SNAT(i)),
                              <<Add(NAT, SNAT(i))>>))
           f == [i \in 1..NumIfaces |-> one(i)]
           S == PathSet
<1>1. ASSUME NEW i \in Ifaces PROVE one(i) \in Seq(S)
  <2>1. <<RouteReplace(i)>> \in Seq(S) /\ <<Add(NAT, SNAT(i))>> \in Seq(S)
    BY DEF PathSet
  <2>2. /\ If(i \notin k.routes, <<RouteReplace(i)>>) \in Seq(S)
        /\ If(c.nat /\ ~Jumps(k, NAT, SNAT(i)), <<Add(NAT, SNAT(i))>>) \in Seq(S)
    BY <2>1 DEF If
  <2> HIDE DEF S
  <2> QED BY <2>2 DEF If
<1>2. f \in [1..NumIfaces -> Seq(S)]
  BY <1>1 DEF Ifaces
<1>3. PathCmds(k, c, up) = FlattenSeq(f)
  BY DEF PathCmds, Each
<1> HIDE DEF f, S
<1>4. PathCmds(k, c, up) \in Seq(S)
  BY <1>2, <1>3, FlattenType, NumIfacesAssumption
<1>5. PathSet \subseteq RunSet
  BY DEF RunSet
<1> QED BY <1>4, <1>5, SeqMonotone DEF S

(* What run executes.                                                      *)
LEMMA BalanceType ==
    ASSUME NEW c \in Configs, NEW r \in 1..Len(c.rules), NEW up \in SUBSET Ifaces
    PROVE  BalanceCmds(c, r, up) \in Seq(RunSet)
<1> DEFINE rule == c.rules[r]
           pre  == IF rule.limit THEN PreLimit(r) ELSE PRE
           out  == IF rule.limit THEN OutLimit(r) ELSE OUT
           last(i) == \A j \in up : j <= i
           To(d, i) == <<Add(d, ISP(i))>>
                       \o If(last(i) /\ rule.limit /\ rule.source_based,
                             <<Add(d, ACCEPT)>>)
           head == If(rule.limit,
                      Both(c, <<New(pre), Flush(pre), Add(PRE, pre)>>,
                              <<New(out), Flush(out), Add(OUT, out)>>))
           one(i) == If(i \in up, Both(c, To(pre, i), To(out, i)))
           f == [i \in 1..NumIfaces |-> one(i)]
           tail == Both(c, <<Add(PRE, RESTORE)>>, <<Add(OUT, RESTORE)>>)
           S == RunSet
<1>0. /\ r \in Nat
      /\ rule \in Rule /\ rule.limit \in BOOLEAN /\ rule.source_based \in BOOLEAN
  BY ConfigParts DEF Rule
<1>1. pre \in Balanced /\ out \in Balanced /\ PRE \in Balanced /\ OUT \in Balanced
  BY <1>0 DEF Balanced, LimitChains
<1>2. rule.limit => pre \in LimitChains /\ out \in LimitChains
  BY <1>0 DEF LimitChains
<1>3. ASSUME NEW d \in Balanced, NEW i \in Ifaces PROVE To(d, i) \in Seq(S)
  <2>1. <<Add(d, ISP(i))>> \in Seq(S) /\ <<Add(d, ACCEPT)>> \in Seq(S)
    BY DEF RunSet
  <2>2. If(last(i) /\ rule.limit /\ rule.source_based, <<Add(d, ACCEPT)>>)
          \in Seq(S)
    BY <2>1 DEF If
  <2> HIDE DEF S, rule
  <2> QED BY <2>1, <2>2
<1>4. head \in Seq(S)
  <2> DEFINE a == <<New(pre), Flush(pre), Add(PRE, pre)>>
             b == <<New(out), Flush(out), Add(OUT, out)>>
  <2>1. CASE rule.limit
    <3>0. \A d \in LimitChains : New(d) \in S /\ (d \in Balanced => Flush(d) \in S)
      BY DEF RunSet
    <3>1. \A d \in LimitChains : New(d) \in S /\ Flush(d) \in S
      BY <3>0 DEF Balanced
    <3>2. \A d \in LimitChains : Add(PRE, d) \in S /\ Add(OUT, d) \in S
      BY <1>1 DEF RunSet
    <3> HIDE DEF S, pre, out
    <3>3. a \in Seq(S) /\ b \in Seq(S)
      BY <1>2, <2>1, <3>1, <3>2
    <3> HIDE DEF a, b
    <3>4. Both(c, a, b) \in Seq(S)
      BY <3>3, BothType
    <3> QED BY <3>4, <2>1, <1>0, IfType DEF a, b
  <2>2. CASE ~rule.limit
    BY <2>2 DEF If
  <2> QED BY <2>1, <2>2, <1>0
<1>5. f \in [1..NumIfaces -> Seq(S)]
  <2>1. ASSUME NEW i \in Ifaces PROVE one(i) \in Seq(S)
    <3>1. To(pre, i) \in Seq(S) /\ To(out, i) \in Seq(S)
      BY <1>1, <1>3
    <3> HIDE DEF To, S, pre, out
    <3>2. Both(c, To(pre, i), To(out, i)) \in Seq(S)
      BY <3>1, BothType
    <3> QED BY <3>2 DEF If
  <2> HIDE DEF one
  <2> QED BY <2>1 DEF Ifaces
<1>6. tail \in Seq(S)
  <2>1. <<Add(PRE, RESTORE)>> \in Seq(S) /\ <<Add(OUT, RESTORE)>> \in Seq(S)
    BY <1>1 DEF RunSet
  <2> HIDE DEF S
  <2> QED BY <2>1, BothType
<1>7. BalanceCmds(c, r, up) = head \o FlattenSeq(f) \o tail
  BY DEF BalanceCmds, Each
<1> HIDE DEF f, head, tail, S
<1>8. FlattenSeq(f) \in Seq(S)
  BY <1>5, FlattenType, NumIfacesAssumption
<1> QED BY <1>4, <1>6, <1>7, <1>8 DEF S

LEMMA RunType ==
    ASSUME NEW c \in Configs, NEW up \in SUBSET Ifaces
    PROVE  RunCmds(c, up) \in Seq(RunSet)
<1> DEFINE S == RunSet
           f == [r \in 1..Len(c.rules) |-> RuleCmds(c, r, up)]
<1>1. ASSUME NEW r \in 1..Len(c.rules) PROVE RuleCmds(c, r, up) \in Seq(S)
  <2>0. PRE \in Balanced /\ OUT \in Balanced
    BY DEF Balanced
  <2>1. <<Add(PRE, ACCEPT)>> \in Seq(S) /\ <<Add(OUT, ACCEPT)>> \in Seq(S)
    BY <2>0 DEF RunSet
  <2> HIDE DEF S
  <2>2. Both(c, <<Add(PRE, ACCEPT)>>, <<Add(OUT, ACCEPT)>>) \in Seq(S)
    BY <2>1, BothType
  <2>3. If(up # {}, BalanceCmds(c, r, up)) \in Seq(S)
    BY BalanceType, IfType DEF S
  <2> QED BY <2>2, <2>3 DEF RuleCmds
<1>2. FlushCmds(c) \in Seq(S)
  <2>1. /\ <<Flush(PRE)>> \in Seq(S)
        /\ <<Flush(OUT), Add(OUT, ACCEPT), Add(OUT, ACCEPT), Add(OUT, ACCEPT)>> \in Seq(S)
    BY DEF RunSet, Balanced
  <2> HIDE DEF S
  <2> QED BY <2>1, BothType DEF FlushCmds
<1>3. f \in [1..Len(c.rules) -> Seq(S)]
  BY <1>1
<1>4. RunCmds(c, up) = FlushCmds(c) \o FlattenSeq(f)
  BY DEF RunCmds, Each
<1> HIDE DEF f, S
<1>5. FlattenSeq(f) \in Seq(S)
  BY <1>3, FlattenType, ConfigParts
<1> QED BY <1>2, <1>4, <1>5 DEF S

(* What shutdown executes, first the chains, then the interfaces.          *)
LEMMA ShutdownChainsType ==
    ASSUME NEW c \in Configs
    PROVE  ShutdownChains(c) \in Seq(UnhookSet)
<1> DEFINE S == UnhookSet
           one(r) == If(c.rules[r].limit,
                        Both(c, <<Flush(PreLimit(r)), Delete(PreLimit(r))>>,
                                <<Flush(OutLimit(r)), Delete(OutLimit(r))>>))
           f == [r \in 1..Len(c.rules) |-> one(r)]
           a == UnhookChain(PREROUTING, PRE)
           b == UnhookChain(OUTPUT, OUT)
           d == <<Flush(NAT), Delete(NAT), Flush(HOOK)>>
<1>1. a \in Seq(S) /\ b \in Seq(S) /\ d \in Seq(S)
  BY DEF UnhookChain, UnhookSet
<1>2. ASSUME NEW r \in 1..Len(c.rules) PROVE one(r) \in Seq(S)
  <2>1. PreLimit(r) \in LimitChains /\ OutLimit(r) \in LimitChains
    BY DEF LimitChains
  <2>2. \A e \in LimitChains : Flush(e) \in S /\ Delete(e) \in S
    BY DEF UnhookSet
  <2> HIDE DEF S
  <2>3. /\ <<Flush(PreLimit(r)), Delete(PreLimit(r))>> \in Seq(S)
        /\ <<Flush(OutLimit(r)), Delete(OutLimit(r))>> \in Seq(S)
    BY <2>1, <2>2
  <2>4. Both(c, <<Flush(PreLimit(r)), Delete(PreLimit(r))>>,
                <<Flush(OutLimit(r)), Delete(OutLimit(r))>>) \in Seq(S)
    BY <2>3, BothType
  <2> QED BY <2>4 DEF If
<1>3. f \in [1..Len(c.rules) -> Seq(S)]
  <2> HIDE DEF one
  <2> QED BY <1>2
<1>4. ShutdownChains(c) = a \o If(c.local, b) \o FlattenSeq(f) \o d
  BY DEF ShutdownChains, Each
<1> HIDE DEF f, a, b, d, S
<1>5. FlattenSeq(f) \in Seq(S) /\ If(c.local, b) \in Seq(S)
  BY <1>1, <1>3, FlattenType, ConfigParts, IfType
<1> QED BY <1>1, <1>4, <1>5 DEF S

LEMMA ShutdownIfacesType ==
    ASSUME NEW c \in Configs
    PROVE  ShutdownIfaces(c) \in Seq(UNION {CleanCmds(i) : i \in Ifaces})
<1> DEFINE S == UNION {CleanCmds(i) : i \in Ifaces}
           f == [i \in 1..NumIfaces |-> ShutdownIface(c, i)]
<1>1. ASSUME NEW i \in Ifaces PROVE ShutdownIface(c, i) \in Seq(S)
  <2> DEFINE a == <<RuleDelete(i), RouteFlush(i), Flush(ISP(i)), Delete(ISP(i))>>
             b == <<RemoveRule(PREROUTING, INBOUND(i)), Flush(INBOUND(i)),
                    Delete(INBOUND(i))>>
  <2>1. a \in Seq(CleanCmds(i)) /\ b \in Seq(CleanCmds(i))
    BY DEF CleanCmds
  <2>2. CleanCmds(i) \subseteq S
    OBVIOUS
  <2>3. ShutdownIface(c, i) = a \o If(c.sticky, b)
    BY DEF ShutdownIface
  <2> HIDE DEF a, b, S
  <2>4. If(c.sticky, b) \in Seq(CleanCmds(i))
    BY <2>1, ConfigParts, IfType
  <2> QED BY <2>1, <2>2, <2>3, <2>4, SeqMonotone
<1>2. f \in [1..NumIfaces -> Seq(S)]
  <2> HIDE DEF S
  <2> QED BY <1>1 DEF Ifaces
<1>3. ShutdownIfaces(c) = FlattenSeq(f)
  BY DEF ShutdownIfaces, Each
<1> HIDE DEF f, S
<1> QED BY <1>2, <1>3, FlattenType, NumIfacesAssumption DEF S

LEMMA ShutdownType ==
    ASSUME NEW c \in Configs PROVE ShutdownCmds(c) \in Seq(EndSet)
<1>1. /\ UnhookSet \subseteq EndSet
      /\ UNION {CleanCmds(i) : i \in Ifaces} \subseteq EndSet
  BY DEF EndSet
<1>2. ShutdownChains(c) \in Seq(EndSet) /\ ShutdownIfaces(c) \in Seq(EndSet)
  BY <1>1, ShutdownChainsType, ShutdownIfacesType, SeqMonotone
<1> QED BY <1>2 DEF ShutdownCmds

-----------------------------------------------------------------------------
LEMMA ChainNames ==
    /\ {PREROUTING, OUTPUT, HOOK, PRE, OUT, NAT, ACCEPT, RESTORE} \subseteq Names
    /\ \A i \in Int : /\ ISP(i) \in Names /\ INBOUND(i) \in Names
                      /\ CONNMARK(i) \in Names /\ MARK(i) \in Names
                      /\ SNAT(i) \in Names /\ <<"table", i>> \in Names
                      /\ PreLimit(i) \in Names /\ OutLimit(i) \in Names
BY DEF Names, Words, PREROUTING, OUTPUT, HOOK, PRE, OUT, NAT, ACCEPT, RESTORE, ISP,
       INBOUND, CONNMARK, MARK, SNAT, PreLimit, OutLimit

(* The names of the base chains and of the daemon's are theirs alone.      *)
LEMMA ChainsApart ==
    /\ PREROUTING # OUTPUT /\ PRE # OUT
    /\ \A x \in {HOOK, PRE, OUT, NAT, ACCEPT, RESTORE} : x \notin {PREROUTING, OUTPUT}
    /\ \A x \in {NAT, ACCEPT, RESTORE} : x \notin {PRE, OUT}
    /\ \A i : {ISP(i), INBOUND(i), CONNMARK(i), MARK(i), SNAT(i), PreLimit(i),
               OutLimit(i)} \cap {PREROUTING, OUTPUT, PRE, OUT} = {}
BY DEF PREROUTING, OUTPUT, HOOK, PRE, OUT, NAT, ACCEPT, RESTORE, ISP, INBOUND,
       CONNMARK, MARK, SNAT, PreLimit, OutLimit

LEMMA QuietKinds ==
    ASSUME NEW c \in Names, NEW t \in Names
    PROVE  /\ New(c) \in Quiet /\ Flush(c) \in Quiet /\ RemoveRule(c, t) \in Quiet
           /\ c \notin {PREROUTING, OUTPUT} =>
                Delete(c) \in Quiet /\ Add(c, t) \in Quiet /\ Insert(c, t) \in Quiet
           /\ t \notin {PRE, OUT} => Insert(c, t) \in Quiet
<1> USE ChainNames, ChainsApart DEF Quiet, Spares, Hooks, Commands, Command, Ops
<1>1. New(c) \in Quiet /\ Flush(c) \in Quiet /\ RemoveRule(c, t) \in Quiet
  BY DEF New, Flush, RemoveRule
<1>2. c \notin {PREROUTING, OUTPUT} =>
         Delete(c) \in Quiet /\ Add(c, t) \in Quiet /\ Insert(c, t) \in Quiet
  BY DEF Delete, Add, Insert
<1>3. t \notin {PRE, OUT} => Insert(c, t) \in Quiet
  BY DEF Insert
<1> QED BY <1>1, <1>2, <1>3

LEMMA QuietPolicy ==
    ASSUME NEW i \in Int
    PROVE  {RouteReplace(i), RouteFlush(i), RuleAdd(i), RuleDelete(i)} \subseteq Quiet
<1>0. <<"table", i>> \in Names /\ ACCEPT \in Names
  BY ChainNames
<1>1. ASSUME NEW o \in {"route replace", "route flush", "rule add", "rule delete"}
      PROVE  Command(o, <<"table", i>>, ACCEPT) \in Quiet
  <2> DEFINE cmd == Command(o, <<"table", i>>, ACCEPT)
  <2>1. cmd \in Commands
    BY <1>0 DEF Commands, Command, Ops
  <2>2. cmd.op = o
    BY DEF Command
  <2>3. \A h \in Hooks : Spares(cmd, h)
    BY <2>2 DEF Spares
  <2> QED BY <2>1, <2>3 DEF Quiet
<1> QED BY <1>1 DEF RouteReplace, RouteFlush, RuleAdd, RuleDelete

LEMMA LimitNames ==
    /\ LimitChains \subseteq Names \ {PREROUTING, OUTPUT, PRE, OUT}
    /\ Balanced \subseteq Names \ {PREROUTING, OUTPUT}
    /\ Ifaces \subseteq Int
<1>1. LimitChains \subseteq Names \ {PREROUTING, OUTPUT, PRE, OUT}
  <2>1. ASSUME NEW r \in Nat
        PROVE  {PreLimit(r), OutLimit(r)}
                  \subseteq Names \ {PREROUTING, OUTPUT, PRE, OUT}
    <3>1. r \in Int
      OBVIOUS
    <3>2. PreLimit(r) \in Names /\ OutLimit(r) \in Names
      BY <3>1, ChainNames
    <3>3. {PreLimit(r), OutLimit(r)} \cap {PREROUTING, OUTPUT, PRE, OUT} = {}
      BY ChainsApart
    <3> QED BY <3>2, <3>3
  <2> QED BY <2>1 DEF LimitChains
<1>2. {PRE, OUT} \subseteq Names \ {PREROUTING, OUTPUT}
  BY ChainNames, ChainsApart
<1>3. Ifaces \subseteq Int
  BY DEF Ifaces
<1> QED BY <1>1, <1>2, <1>3 DEF Balanced

LEMMA SetupQuiet == ASSUME NEW i \in Ifaces PROVE SetupCmds(i) \subseteq Quiet
<1>0. i \in Int
  BY LimitNames
<1>1. {New(ISP(i)), Flush(ISP(i)), Add(ISP(i), CONNMARK(i)), Add(ISP(i), MARK(i)),
       Add(ISP(i), ACCEPT)} \subseteq Quiet
  BY <1>0, ChainNames, ChainsApart, QuietKinds
<1>2. {New(INBOUND(i)), Flush(INBOUND(i)), Add(INBOUND(i), CONNMARK(i)),
       Insert(PREROUTING, INBOUND(i))} \subseteq Quiet
  BY <1>0, ChainNames, ChainsApart, QuietKinds
<1>3. {RouteReplace(i), RuleDelete(i), RuleAdd(i), Add(NAT, SNAT(i))}
         \subseteq Quiet
  BY <1>0, ChainNames, ChainsApart, QuietKinds, QuietPolicy
<1> QED BY <1>1, <1>2, <1>3 DEF SetupCmds

LEMMA RunQuiet == RunSet \subseteq Quiet
<1>1. {New(c) : c \in LimitChains} \cup {Flush(c) : c \in Balanced} \subseteq Quiet
  BY LimitNames, QuietKinds
<1>2. ASSUME NEW c \in Balanced,
             NEW t \in {ACCEPT, RESTORE} \cup LimitChains \cup {ISP(i) : i \in Ifaces}
      PROVE  Add(c, t) \in Quiet
  <2>1. t \in Names
    BY ChainNames, LimitNames
  <2> QED BY <2>1, LimitNames, QuietKinds
<1>3. {RouteReplace(i) : i \in Ifaces} \cup {Add(NAT, SNAT(i)) : i \in Ifaces}
         \subseteq Quiet
  BY SetupQuiet DEF SetupCmds
<1> QED BY <1>1, <1>2, <1>3 DEF RunSet, PathSet

LEMMA EndQuiet == EndSet \subseteq Quiet
<1>1. ASSUME NEW i \in Ifaces PROVE CleanCmds(i) \subseteq Quiet
  <2>0. i \in Int
    BY LimitNames
  <2>1. {RuleDelete(i), RouteFlush(i), Flush(ISP(i)), Delete(ISP(i))} \subseteq Quiet
    BY <2>0, ChainNames, ChainsApart, QuietKinds, QuietPolicy
  <2>2. {RemoveRule(PREROUTING, INBOUND(i)), Flush(INBOUND(i)), Delete(INBOUND(i))}
           \subseteq Quiet
    BY <2>0, ChainNames, ChainsApart, QuietKinds
  <2> QED BY <2>1, <2>2 DEF CleanCmds
<1>2. UnhookSet \subseteq Quiet
  <2>1. {RemoveRule(PREROUTING, PRE), RemoveRule(OUTPUT, OUT), Flush(PRE),
         Delete(PRE), Flush(OUT), Delete(OUT)} \subseteq Quiet
    BY ChainNames, ChainsApart, QuietKinds
  <2>2. {Flush(NAT), Delete(NAT), Flush(HOOK)} \subseteq Quiet
    BY ChainNames, ChainsApart, QuietKinds
  <2>3. {Flush(c) : c \in LimitChains} \cup {Delete(c) : c \in LimitChains}
          \subseteq Quiet
    BY LimitNames, ChainNames, QuietKinds
  <2> QED BY <2>1, <2>2, <2>3 DEF UnhookSet
<1> QED BY <1>1, <1>2 DEF EndSet

(* A hook is no quiet command.                                             *)
LEMMA HookLoud == Quiet \cap HookCmds = {}
BY DEF Quiet, Spares, HookCmds, Hooks, Insert, Command

LEMMA OrderlyQuiet == Seq(Quiet) \subseteq Orderly
<1> SUFFICES ASSUME NEW s \in Seq(Quiet) PROVE s \in Orderly
  OBVIOUS
<1>1. s \in Seq(Quiet \cup HookCmds)
  BY SeqMonotone
<1>2. \A n \in 1..Len(s) : s[n] \notin HookCmds
  BY HookLoud
<1>3. \A h \in Hooks : Insert(h[1], h[2]) \in HookCmds
  BY DEF HookCmds
<1>4. Preceded(s)
  BY <1>2, <1>3 DEF Preceded
<1> QED BY <1>1, <1>2, <1>4 DEF Orderly

LEMMA OrderlyJoin ==
    ASSUME NEW a \in Orderly, NEW b \in Orderly PROVE a \o b \in Orderly
<1> DEFINE S == Quiet \cup HookCmds
<1>1. a \in Seq(S) /\ b \in Seq(S) /\ Preceded(a) /\ Preceded(b)
      /\ (a # <<>> => a[1] \notin HookCmds) /\ (b # <<>> => b[1] \notin HookCmds)
  BY DEF Orderly
<1> HIDE DEF S
<1>2. /\ a \o b \in Seq(S) /\ Len(a \o b) = Len(a) + Len(b)
      /\ Len(a) \in Nat /\ Len(b) \in Nat
      /\ \A n \in 1..(Len(a) + Len(b)) :
            (a \o b)[n] = IF n <= Len(a) THEN a[n] ELSE b[n - Len(a)]
  BY <1>1
<1>3. Preceded(a \o b)
  <2> SUFFICES ASSUME NEW n \in 2..Len(a \o b), NEW h \in Hooks,
                      (a \o b)[n] = Insert(h[1], h[2])
               PROVE  (a \o b)[n - 1] = RemoveRule(h[1], h[2])
    BY DEF Preceded
  <2>0. n \in 1..(Len(a) + Len(b)) /\ n - 1 \in 1..(Len(a) + Len(b))
    BY <1>2
  <2>1. CASE n <= Len(a)
    <3>1. (a \o b)[n] = a[n] /\ (a \o b)[n - 1] = a[n - 1] /\ n \in 2..Len(a)
      BY <1>2, <2>0, <2>1
    <3> QED BY <3>1, <1>1 DEF Preceded
  <2>2. CASE n = Len(a) + 1
    <3>1. (a \o b)[n] = b[1] /\ b # <<>>
      BY <1>2, <2>0, <2>2, <1>1
    <3>2. b[1] \in HookCmds
      BY <3>1 DEF HookCmds
    <3> QED BY <3>1, <3>2, <1>1
  <2>3. CASE n > Len(a) + 1
    <3> DEFINE m == n - Len(a)
    <3>1. m \in 2..Len(b) /\ n - 1 - Len(a) = m - 1
      BY <1>2, <2>3
    <3>2. (a \o b)[n] = b[m]
      BY <1>2, <2>0, <2>3
    <3>3. (a \o b)[n - 1] = b[m - 1]
      BY <1>2, <2>0, <2>3, <3>1
    <3> HIDE DEF m
    <3>4. b[m] = Insert(h[1], h[2])
      BY <3>2
    <3>5. b[m - 1] = RemoveRule(h[1], h[2])
      BY <1>1, <3>1, <3>4 DEF Preceded
    <3> QED BY <3>3, <3>5
  <2> QED BY <2>1, <2>2, <2>3, <1>2
<1>4. a \o b # <<>> => (a \o b)[1] \notin HookCmds
  <2>1. CASE a = <<>>
    <3>1. a \o b = b
      BY <2>1, <1>1
    <3> QED BY <3>1, <1>1
  <2>2. CASE a # <<>>
    <3>1. Len(a) > 0
      BY <2>2, <1>1
    <3>2. (a \o b)[1] = a[1]
      BY <1>2, <3>1
    <3> QED BY <3>2, <1>1, <2>2
  <2> QED BY <2>1, <2>2
<1> QED BY <1>2, <1>3, <1>4 DEF Orderly, S

LEMMA InitOrderly == ASSUME NEW c \in Configs PROVE InitCmds(c) \in Orderly
<1> DEFINE n == <<New(NAT), Flush(NAT), Flush(HOOK), Insert(HOOK, NAT)>>
           p == HookChain(PREROUTING, PRE)
           o == HookChain(OUTPUT, OUT)
           f == [i \in 1..NumIfaces |-> InitIface(c, i)]
<1>0. <<>> \in Orderly /\ \A x, y \in Orderly : x \o y \in Orderly
  <2>1. <<>> \in Orderly
    <3>1. <<>> \in Seq(Quiet)
      OBVIOUS
    <3> QED BY <3>1, OrderlyQuiet
  <2> QED BY <2>1, OrderlyJoin
<1>1. n \in Orderly
  <2>1. n \in Seq(Quiet)
    BY ChainNames, ChainsApart, QuietKinds
  <2> HIDE DEF n
  <2> QED BY <2>1, OrderlyQuiet
<1>2. ASSUME NEW h \in Hooks PROVE HookChain(h[1], h[2]) \in Orderly
  <2> DEFINE x == h[1]
             y == h[2]
             s == HookChain(x, y)
  <2>1. /\ x \in {PREROUTING, OUTPUT} /\ y \in {PRE, OUT}
        /\ x \in Names /\ y \in Names /\ y \notin {PREROUTING, OUTPUT}
    BY ChainNames, ChainsApart DEF Hooks
  <2>2. {New(y), Flush(y), Add(y, ACCEPT), RemoveRule(x, y)} \subseteq Quiet
    BY <2>1, ChainNames, QuietKinds
  <2>3. Insert(x, y) \in HookCmds
    BY DEF HookCmds
  <2>4. s = <<New(y), Flush(y), Add(y, ACCEPT), RemoveRule(x, y), Insert(x, y)>>
    BY DEF HookChain
  <2>5. \A g \in Hooks : Insert(g[1], g[2]) = Insert(x, y) => g = h
    BY DEF Insert, Command, Hooks
  <2> HIDE DEF s, x, y
  <2>6. s \in Seq(Quiet \cup HookCmds) /\ Len(s) = 5
    BY <2>2, <2>3, <2>4
  <2>7. Preceded(s)
    <3> SUFFICES ASSUME NEW m \in 2..5, NEW g \in Hooks,
                        s[m] = Insert(g[1], g[2])
                 PROVE  s[m - 1] = RemoveRule(g[1], g[2])
      BY <2>6 DEF Preceded
    <3>1. s[m] \in HookCmds
      BY DEF HookCmds
    <3>2. m = 5
      <4>1. s[2] \in Quiet /\ s[3] \in Quiet /\ s[4] \in Quiet
        BY <2>2, <2>4
      <4> QED BY <4>1, <3>1, HookLoud
    <3>3. s[5] = Insert(x, y) /\ s[4] = RemoveRule(x, y)
      BY <2>4
    <3>4. g = h
      BY <3>2, <3>3, <2>5
    <3> QED BY <3>2, <3>3, <3>4 DEF x, y
  <2>8. s[1] \notin HookCmds
    BY <2>2, <2>4, HookLoud
  <2> QED BY <2>6, <2>7, <2>8 DEF Orderly, s, x, y
<1>3. p \in Orderly /\ o \in Orderly
  <2>1. <<PREROUTING, PRE>> \in Hooks /\ <<OUTPUT, OUT>> \in Hooks
    BY DEF Hooks
  <2> QED BY <2>1, <1>2
<1>4. f \in [1..NumIfaces -> Orderly]
  <2>1. ASSUME NEW i \in Ifaces PROVE InitIface(c, i) \in Orderly
    BY SetupType, SetupQuiet, SeqMonotone, OrderlyQuiet
  <2> QED BY <2>1 DEF Ifaces
<1>5. InitCmds(c) = If(c.nat, n) \o p \o If(c.local, o) \o FlattenSeq(f)
  BY DEF InitCmds, Each
<1> HIDE DEF n, p, o, f
<1>6. If(c.nat, n) \in Orderly /\ If(c.local, o) \in Orderly
  BY <1>0, <1>1, <1>3, ConfigParts DEF If
<1>7. FlattenSeq(f) \in Orderly
  BY <1>0, <1>4, FlattenIn, NumIfacesAssumption
<1> QED BY <1>0, <1>3, <1>5, <1>6, <1>7

-----------------------------------------------------------------------------
(* How commands change the number of jumps of a hook.                      *)
LEMMA SparedCount ==
    ASSUME NEW k \in Kernels, NEW cmd \in Commands, NEW h,
           h[1] \in DOMAIN k.chains, Spares(cmd, h)
    PROVE  LET e == Executed(k, cmd) IN
           /\ h[1] \in DOMAIN e.chains
           /\ Count(e.chains[h[1]], h[2]) <= Count(k.chains[h[1]], h[2])
           /\ cmd.op = "remove" /\ cmd.about = h[1] /\ cmd.to = h[2]
              /\ Count(k.chains[h[1]], h[2]) # 0 =>
                Count(e.chains[h[1]], h[2]) <= Count(k.chains[h[1]], h[2]) - 1
<1> DEFINE e  == Executed(k, cmd)
           b  == h[1]
           t  == h[2]
           rs == k.chains[b]
<1>1. Effect(k, cmd, e)
  BY ExecutedEffect
<1> HIDE DEF e
<1>2. b \in DOMAIN e.chains
  BY <1>1 DEF Effect, Spares
<1>3. rs \in Seq(Names) /\ cmd.to \in Names
  BY KernelParts DEF Commands
<1>4. Count(rs, t) \in Nat
  BY <1>3, CountType
<1> HIDE DEF rs, t
<1>5. CASE e.chains[b] = rs /\ ~(cmd.op = "remove" /\ cmd.about = b)
  BY <1>2, <1>4, <1>5 DEF rs, t, e
<1>6. CASE e.chains[b] = NewRules(rs, cmd) /\ cmd.about = b
  <2>1. CASE cmd.op = "flush"
    <3>1. e.chains[b] = <<>>
      BY <1>6, <2>1 DEF NewRules
    <3>2. Count(e.chains[b], t) = 0
      BY <3>1, CountEmpty
    <3> QED BY <1>2, <1>4, <3>2, <2>1 DEF rs, t, e
  <2>2. CASE cmd.op \in {"add", "insert"}
    <3>1. cmd.to # t
      BY <1>6, <2>2 DEF Spares, t
    <3>2. e.chains[b] \in {Append(rs, cmd.to), <<cmd.to>> \o rs}
      BY <1>6, <2>2 DEF NewRules
    <3>3. Count(e.chains[b], t) <= Count(rs, t)
      <4>1. CASE e.chains[b] = Append(rs, cmd.to)
        <5>1. Count(e.chains[b], t) <= Count(rs, t) + (IF cmd.to = t THEN 1 ELSE 0)
          BY <1>3, <4>1, CountAppend
        <5> QED BY <1>4, <3>1, <5>1
      <4>2. CASE e.chains[b] = <<cmd.to>> \o rs
        <5>1. Count(e.chains[b], t) <= Count(rs, t) + (IF cmd.to = t THEN 1 ELSE 0)
          BY <1>3, <4>2, CountInsert
        <5> QED BY <1>4, <3>1, <5>1
      <4> QED BY <3>2, <4>1, <4>2
    <3> QED BY <1>2, <3>3, <2>2 DEF rs, t, e
  <2>3. CASE cmd.op = "remove"
    <3>1. e.chains[b] = RemoveFirst(rs, cmd.to)
      BY <1>6, <2>3 DEF NewRules
    <3>2. /\ Count(e.chains[b], t) <= Count(rs, t)
          /\ cmd.to = t /\ Count(rs, t) # 0 =>
                Count(e.chains[b], t) <= Count(rs, t) - 1
      BY <1>3, <3>1, CountRemove
    <3> QED BY <1>2, <3>2 DEF rs, t, e
  <2>4. CASE cmd.op \notin {"flush", "add", "insert", "remove"}
    <3>1. e.chains[b] = rs
      BY <1>6, <2>4 DEF NewRules
    <3> QED BY <1>2, <1>4, <3>1, <2>4 DEF rs, t, e
  <2> QED BY <2>1, <2>2, <2>3, <2>4
<1>7. \/ e.chains[b] = rs /\ ~(cmd.op = "remove" /\ cmd.about = b)
      \/ e.chains[b] = NewRules(rs, cmd) /\ cmd.about = b
  BY <1>1, <1>2 DEF Effect, rs
<1> QED BY <1>5, <1>6, <1>7

LEMMA InsertedCount ==
    ASSUME NEW k \in Kernels, NEW h \in Names \X Names, h[1] \in DOMAIN k.chains
    PROVE  LET e == Executed(k, Insert(h[1], h[2])) IN
           /\ h[1] \in DOMAIN e.chains
           /\ Count(e.chains[h[1]], h[2]) <= Count(k.chains[h[1]], h[2]) + 1
<1> DEFINE cmd == Insert(h[1], h[2])
           e   == Executed(k, cmd)
           rs  == k.chains[h[1]]
<1>1. /\ cmd \in Commands /\ cmd.op = "insert" /\ cmd.to = h[2]
      /\ cmd.about = h[1] /\ h[2] \in Names
  BY ChainNames DEF Commands, Command, Ops, Insert
<1> HIDE DEF cmd
<1>2. Effect(k, cmd, e)
  BY <1>1, ExecutedEffect
<1> HIDE DEF e
<1>3. h[1] \in DOMAIN e.chains
  BY <1>1, <1>2 DEF Effect
<1>4. e.chains[h[1]] \in {rs, <<h[2]>> \o rs}
  BY <1>1, <1>2, <1>3 DEF Effect, NewRules
<1>5. rs \in Seq(Names)
  BY KernelParts
<1>6. Count(rs, h[2]) \in Nat
  BY <1>5, CountType
<1> HIDE DEF rs
<1>7. Count(e.chains[h[1]], h[2]) <= Count(rs, h[2]) + 1
  <2>1. CASE e.chains[h[1]] = <<h[2]>> \o rs
    BY <1>1, <1>5, <2>1, CountInsert
  <2> QED BY <1>4, <1>6, <2>1
<1> QED BY <1>3, <1>7 DEF e, cmd, rs

(* What a hook insertion is to the hooks.                                  *)
LEMMA HookParts ==
    ASSUME NEW h \in Hooks
    PROVE  /\ Insert(h[1], h[2]) \in Commands
           /\ RemoveRule(h[1], h[2]) \in Commands
           /\ RemoveRule(h[1], h[2]).op = "remove"
           /\ RemoveRule(h[1], h[2]).about = h[1]
           /\ RemoveRule(h[1], h[2]).to = h[2]
           /\ \A g \in Hooks : g # h => Spares(Insert(h[1], h[2]), g)
           /\ h \in Names \X Names
BY ChainNames, ChainsApart
   DEF Hooks, Commands, Command, Ops, Insert, RemoveRule, Spares

LEMMA RemovalParts ==
    ASSUME NEW b \in Names, NEW t \in Names
    PROVE  /\ RemoveRule(b, t) \in Commands /\ RemoveRule(b, t).op = "remove"
           /\ RemoveRule(b, t).about = b /\ RemoveRule(b, t).to = t
BY DEF Commands, Command, Ops, RemoveRule

-----------------------------------------------------------------------------
LEMMA HandlingFinite ==
    ASSUME NEW S \in SUBSET Signals
    PROVE  /\ IsFiniteSet(S) /\ Cardinality(S) \in Nat
           /\ Cardinality(S) <= Cardinality(Signals)
           /\ Cardinality(Signals) \in Nat
BY LifecycleAssumption, FS_Subset, FS_CardinalityType

(* The bound of the type invariant follows.                                *)
LEMMA OrphansBound ==
    ASSUME OrphansInv, handling \subseteq Signals
    PROVE  Cardinality(orphans) <= Cardinality(Signals) + 1
<1>1. Cardinality(orphans) \in Nat
  BY FS_CardinalityType DEF OrphansInv
<1>2. /\ Cardinality(handling) \in Nat /\ Cardinality(Signals) \in Nat
      /\ Cardinality(handling) <= Cardinality(Signals)
  BY HandlingFinite
<1> QED BY <1>1, <1>2 DEF OrphansInv

(* New commands that hook nothing yet.                                     *)
LEMMA FreshTodo ==
    ASSUME HookInv, UNCHANGED <<kernel, faults>>, orphans' \subseteq Quiet,
           todo' \in Orderly
    PROVE  HookInv'
<1>1. \A h \in Hooks : ~(todo' # <<>> /\ todo'[1] = Insert(h[1], h[2]))
  BY DEF Orderly, HookCmds
<1> QED BY <1>1 DEF HookInv

LEMMA InitInv == Init => IInv
<1> SUFFICES ASSUME Init PROVE IInv
  OBVIOUS
<1>1. OrphansInv
  BY FS_EmptySet, HandlingFinite DEF Init, OrphansInv
<1>2. TypeOK
  <2>1. Cardinality(orphans) <= Cardinality(Signals) + 1
    BY <1>1, OrphansBound DEF Init
  <2>2. 0 \in 0..MaxMishaps
    BY LifecycleAssumption
  <2>3. /\ proc \in Running \cup {"off", "dead"} /\ cfg \in Configs
        /\ active \subseteq Ifaces
        /\ {changed, locked, restarting, raced} \subseteq BOOLEAN
        /\ handling = {} /\ todo = <<>> /\ pidfile = "stale"
        /\ rechecking = "none"
    BY DEF Init
  <2>4. faults = 0 /\ mishaps = 0 /\ botched = {} /\ left = {}
    BY DEF Init
  <2> QED BY <2>1, <2>2, <2>3, <2>4 DEF TypeOK
<1>3. TodoInv
  BY DEF Init, TodoInv
<1>4. HookInv
  <2>1. kernel.chains = [c \in {PREROUTING, OUTPUT, HOOK} |-> <<>>]
    BY DEF Init, Bare
  <2>2. kernel \in Kernels
    <3>1. [c \in {PREROUTING, OUTPUT, HOOK} |-> <<>>]
             \in [{PREROUTING, OUTPUT, HOOK} -> Seq(Names)]
      OBVIOUS
    <3>2. {PREROUTING, OUTPUT, HOOK} \subseteq Names
      BY ChainNames
    <3>3. kernel = [chains |-> [c \in {PREROUTING, OUTPUT, HOOK} |-> <<>>],
                    rules |-> {}, routes |-> {}]
      BY DEF Init, Bare
    <3> QED BY <3>1, <3>2, <3>3, KernelMade
  <2>3. ASSUME NEW h \in Hooks
        PROVE  /\ h[1] \in DOMAIN kernel.chains
               /\ Count(kernel.chains[h[1]], h[2]) = 0
    <3>1. h[1] \in DOMAIN kernel.chains /\ kernel.chains[h[1]] = <<>>
      BY <2>1 DEF Hooks
    <3> QED BY <3>1, CountEmpty
  <2> QED BY <2>2, <2>3 DEF Init, HookInv
<1> QED BY <1>1, <1>2, <1>3, <1>4 DEF IInv, Init, BudgetInv

(* The next command is executed, or fails.                                 *)
LEMMA ExecuteInv == IInv /\ Execute => IInv'
<1> SUFFICES ASSUME IInv, Execute PROVE IInv'
  OBVIOUS
<1> DEFINE cmd == todo[1]
           S == Quiet \cup HookCmds
<1>0. /\ todo # <<>> /\ todo' = Tail(todo)
      /\ UNCHANGED <<proc, cfg, active, changed, handling, locked, rechecking,
                     orphans, outside, left, raced>>
      /\ \/ /\ kernel' = Executed(kernel, cmd)
            /\ UNCHANGED <<mishaps, faults, botched>>
         \/ /\ Mishap
            /\ faults' = faults + 1
            /\ botched' = botched \cup {proc}
            /\ UNCHANGED kernel
  BY DEF Execute, Head
<1>1. proc \in {"init", "run", "ending"} /\ faults \in Nat
  BY <1>0 DEF IInv, TypeOK
<1>2. todo \in Seq(S) /\ Preceded(todo)
  <2>1. todo \in Orderly \/ (todo \in Seq(S) /\ Preceded(todo))
    BY OrderlyQuiet DEF IInv, TodoInv
  <2> QED BY <2>1 DEF Orderly
<1> HIDE DEF S
<1>3. /\ cmd \in S /\ todo' \in Seq(S) /\ Len(todo') = Len(todo) - 1
      /\ \A n \in 1..(Len(todo) - 1) : todo'[n] = todo[n + 1]
      /\ Len(todo) \in Nat \ {0}
  BY <1>0, <1>2
<1>4. TodoInv'
  <2>1. ASSUME proc = "init" PROVE Preceded(todo')
    <3> SUFFICES ASSUME NEW n \in 2..Len(todo'), NEW h \in Hooks,
                        todo'[n] = Insert(h[1], h[2])
                 PROVE  todo'[n - 1] = RemoveRule(h[1], h[2])
      BY DEF Preceded
    <3>1. todo'[n] = todo[n + 1] /\ todo'[n - 1] = todo[n] /\ n + 1 \in 2..Len(todo)
      BY <1>3
    <3>2. todo[(n + 1) - 1] = RemoveRule(h[1], h[2])
      BY <3>1, <1>2 DEF Preceded
    <3> QED BY <3>1, <3>2
  <2>2. ASSUME proc # "init" PROVE todo' \in Seq(Quiet)
    BY <2>2, <1>0 DEF IInv, TodoInv
  <2> QED BY <1>0, <1>3, <2>1, <2>2 DEF TodoInv, S
<1>5. cmd \in Commands
  BY <1>3, HookParts DEF S, Quiet, HookCmds
<1> HIDE DEF cmd
<1>6. HookInv'
  <2>1. kernel' \in Kernels
    BY <1>0, <1>5, ExecutedEffect DEF IInv, HookInv
  <2>2. orphans' \subseteq Quiet
    BY <1>0 DEF IInv, HookInv
  <2>3. ASSUME NEW h \in Hooks
        PROVE  /\ h[1] \in DOMAIN kernel'.chains
               /\ Count(kernel'.chains[h[1]], h[2]) <= 1 + faults'
               /\ todo' # <<>> /\ todo'[1] = Insert(h[1], h[2]) =>
                     Count(kernel'.chains[h[1]], h[2]) <= faults'
    <3> DEFINE old == Count(kernel.chains[h[1]], h[2])
               new == Count(kernel'.chains[h[1]], h[2])
    <3>1. /\ kernel \in Kernels /\ h[1] \in DOMAIN kernel.chains
          /\ old <= 1 + faults
          /\ cmd = Insert(h[1], h[2]) => old <= faults
      BY <1>0 DEF IInv, HookInv, cmd
    <3>2. old \in Nat
      BY <3>1, KernelParts, CountType
    <3>3. todo' # <<>> /\ todo'[1] = Insert(h[1], h[2]) =>
             cmd = RemoveRule(h[1], h[2])
      <4> SUFFICES ASSUME todo' # <<>>, todo'[1] = Insert(h[1], h[2])
                   PROVE  cmd = RemoveRule(h[1], h[2])
        OBVIOUS
      <4>1. Len(todo') > 0
        BY <1>3
      <4>2. 2 \in 2..Len(todo) /\ todo[2] = Insert(h[1], h[2])
        BY <4>1, <1>3
      <4>3. todo[2 - 1] = RemoveRule(h[1], h[2])
        BY <4>2, <1>2 DEF Preceded
      <4> QED BY <4>3 DEF cmd
    <3>4. CASE Mishap /\ faults' = faults + 1 /\ UNCHANGED kernel
      BY <3>1, <3>2, <3>4, <1>1
    <3>5. CASE kernel' = Executed(kernel, cmd) /\ faults' = faults
      <4>1. CASE cmd = Insert(h[1], h[2])
        <5>1. h[1] \in DOMAIN kernel'.chains /\ new <= old + 1
          BY <3>1, <3>5, <4>1, InsertedCount, HookParts
        <5>2. cmd # RemoveRule(h[1], h[2])
          BY <4>1 DEF Insert, RemoveRule, Command
        <5>3. kernel'.chains[h[1]] \in Seq(Names)
          BY <5>1, <2>1, KernelParts
        <5>4. new \in Nat
          BY <5>3, CountType
        <5> HIDE DEF old, new
        <5>5. new <= 1 + faults
          BY <5>1, <5>4, <3>1, <3>2, <4>1, <1>1
        <5> QED BY <5>1, <5>2, <5>5, <3>3, <3>5 DEF new
      <4>2. CASE cmd # Insert(h[1], h[2])
        <5>1. Spares(cmd, h)
          <6>1. CASE cmd \in Quiet
            BY <6>1 DEF Quiet
          <6>2. CASE cmd \in HookCmds
            <7>1. PICK g \in Hooks : cmd = Insert(g[1], g[2])
              BY <6>2 DEF HookCmds
            <7>2. g # h
              BY <7>1, <4>2
            <7> QED BY <7>1, <7>2, HookParts
          <6> QED BY <6>1, <6>2, <1>3 DEF S
        <5>2. /\ h[1] \in DOMAIN kernel'.chains /\ new <= old
              /\ cmd.op = "remove" /\ cmd.about = h[1] /\ cmd.to = h[2]
                 /\ old # 0 => new <= old - 1
          BY <3>1, <3>5, <1>5, <5>1, SparedCount
        <5>3. kernel'.chains[h[1]] \in Seq(Names)
          BY <5>2, <2>1, KernelParts
        <5>4. new \in Nat
          BY <5>3, CountType
        <5>5. cmd = RemoveRule(h[1], h[2]) =>
                 cmd.op = "remove" /\ cmd.about = h[1] /\ cmd.to = h[2]
          BY HookParts
        <5> HIDE DEF old, new
        <5>6. /\ new <= 1 + faults
              /\ cmd = RemoveRule(h[1], h[2]) => new <= faults
          BY <5>2, <5>4, <5>5, <3>1, <3>2, <1>1
        <5> QED BY <5>2, <5>6, <3>3, <3>5 DEF new
      <4> QED BY <4>1, <4>2
    <3> QED BY <1>0, <3>4, <3>5
  <2> QED BY <2>1, <2>2, <2>3 DEF HookInv
<1>7. OrphansInv'
  BY <1>0 DEF IInv, OrphansInv
<1>9. BudgetInv'
  BY <1>0, <1>1, LifecycleAssumption DEF IInv, TypeOK, BudgetInv, Mishap
<1>8. TypeOK'
  <2>1. mishaps' \in 0..MaxMishaps /\ faults' \in Nat
    BY <1>0, <1>1, LifecycleAssumption DEF Mishap, IInv, TypeOK
  <2>2. todo' # <<>> => proc' \in {"init", "run", "ending"}
    BY <1>0, <1>1
  <2>3. botched' \subseteq {"init", "run", "ending"}
    BY <1>0, <1>1 DEF IInv, TypeOK
  <2>4. faults' \in 0..MaxMishaps
    BY <1>9, <2>1, LifecycleAssumption DEF BudgetInv
  <2>5. Cardinality(orphans') <= Cardinality(Signals) + 1
    BY <1>0 DEF IInv, TypeOK
  <2> QED BY <1>0, <2>1, <2>2, <2>3, <2>4, <2>5 DEF IInv, TypeOK, outside
<1> QED BY <1>4, <1>6, <1>7, <1>8, <1>9 DEF IInv

(* Steps of the daemon between commands.                                   *)
LEMMA StillInv ==
    IInv /\ (Initialised \/ HealthTest \/ StartCycle \/ UNCHANGED vars) => IInv'
<1> SUFFICES ASSUME IInv,
                    Initialised \/ HealthTest \/ StartCycle \/ UNCHANGED vars
             PROVE  IInv'
  OBVIOUS
<1>1. UNCHANGED <<kernel, todo, orphans, handling, faults, mishaps>>
  BY DEF Initialised, HealthTest, StartCycle, vars, process, history
<1>2. TypeOK'
  <2>1. CASE Initialised
    BY <2>1 DEF Initialised, process, outside, history, IInv, TypeOK, Running
  <2>2. CASE HealthTest
    BY <2>2 DEF HealthTest, outside, history, IInv, TypeOK, Running
  <2>3. CASE StartCycle
    BY <2>3 DEF StartCycle, outside, history, IInv, TypeOK, Running
  <2>4. CASE UNCHANGED vars
    BY <2>4 DEF vars, process, outside, history, IInv, TypeOK, Running
  <2> QED BY <2>1, <2>2, <2>3, <2>4
<1>3. /\ proc' # proc => todo = <<>> /\ proc' # "init"
      /\ proc' \in Running <=> proc \in Running
  BY DEF Initialised, HealthTest, StartCycle, vars, IInv, TypeOK, Running
<1>4. TodoInv'
  BY <1>1, <1>3 DEF IInv, TodoInv
<1>5. OrphansInv' /\ HookInv' /\ BudgetInv'
  BY <1>1, <1>3 DEF IInv, OrphansInv, HookInv, BudgetInv
<1> QED BY <1>2, <1>4, <1>5 DEF IInv

(* The commands of init and of a cycle are set out.                        *)
LEMMA WritePidInv == IInv /\ WritePid => IInv'
<1> SUFFICES ASSUME IInv, WritePid PROVE IInv'
  OBVIOUS
<1>0. cfg \in Configs
  BY DEF IInv, TypeOK
<1>1. todo' \in Orderly
  BY <1>0, InitOrderly DEF WritePid
<1>2. /\ proc = "forked" /\ proc' = "init" /\ pidfile' = "current"
      /\ UNCHANGED <<kernel, cfg, active, changed, handling, locked, rechecking,
                     orphans, restarting, faults, botched, mishaps, left, raced>>
  BY DEF WritePid, history
<1>3. TypeOK'
  BY <1>2 DEF IInv, TypeOK, Running
<1>4. TodoInv'
  BY <1>1, <1>2 DEF TodoInv, Orderly
<1>5. HookInv'
  BY <1>1, <1>2, FreshTodo DEF IInv, HookInv
<1>6. OrphansInv' /\ BudgetInv'
  BY <1>2 DEF IInv, OrphansInv, BudgetInv, Running
<1> QED BY <1>3, <1>4, <1>5, <1>6 DEF IInv

LEMMA ApplyRulesInv == IInv /\ ApplyRules => IInv'
<1> SUFFICES ASSUME IInv, ApplyRules PROVE IInv'
  OBVIOUS
<1>0. cfg \in Configs /\ active \in SUBSET Ifaces /\ changed \in BOOLEAN
  BY DEF IInv, TypeOK
<1>1. todo' \in Seq(Quiet)
  <2>1. PathCmds(kernel, cfg, active) \in Seq(RunSet)
    BY <1>0, PathType
  <2>2. If(changed, RunCmds(cfg, active)) \in Seq(RunSet)
    BY <1>0, RunType, IfType
  <2>3. todo' \in Seq(RunSet)
    BY <2>1, <2>2 DEF ApplyRules
  <2> QED BY <2>3, RunQuiet, SeqMonotone
<1>2. /\ proc = "apply" /\ proc' = "run" /\ botched' \subseteq botched
      /\ UNCHANGED <<kernel, cfg, active, changed, handling, locked, rechecking,
                     orphans, pidfile, restarting, faults, mishaps, left, raced>>
  BY DEF ApplyRules, outside
<1>3. TypeOK'
  BY <1>2 DEF IInv, TypeOK, Running
<1>4. TodoInv'
  BY <1>1, <1>2 DEF TodoInv
<1>5. HookInv'
  BY <1>1, <1>2, OrderlyQuiet, FreshTodo DEF IInv, HookInv
<1>6. OrphansInv' /\ BudgetInv'
  BY <1>2 DEF IInv, OrphansInv, BudgetInv, Running
<1> QED BY <1>3, <1>4, <1>5, <1>6 DEF IInv

(* The process ends, in its handler or not.                                *)
LEMMA ExitInv == IInv /\ Exit => IInv'
<1> SUFFICES ASSUME IInv, Exit PROVE IInv'
  OBVIOUS
<1>1. /\ proc = "ending" /\ todo = <<>> /\ proc' = "off" /\ handling' = {}
      /\ pidfile' = "stale" /\ rechecking' = "none"
      /\ UNCHANGED <<kernel, cfg, todo, active, changed, locked, orphans,
                     restarting, faults, botched, mishaps, left, raced>>
  BY DEF Exit, history
<1>2. TypeOK'
  BY <1>1 DEF IInv, TypeOK, Running
<1>3. OrphansInv'
  <2>1. /\ Cardinality(handling) \in Nat /\ Cardinality(Signals) \in Nat
        /\ Cardinality(handling) <= Cardinality(Signals)
    BY HandlingFinite DEF IInv, TypeOK
  <2>2. IsFiniteSet(orphans) /\ Cardinality(orphans) \in Nat
        /\ Cardinality(orphans) <= Cardinality(handling)
    BY <1>1, FS_CardinalityType DEF IInv, OrphansInv, Running
  <2> QED BY <1>1, <2>1, <2>2 DEF OrphansInv, Running
<1>4. TodoInv' /\ HookInv' /\ BudgetInv'
  BY <1>1 DEF IInv, TodoInv, HookInv, BudgetInv
<1> QED BY <1>2, <1>3, <1>4 DEF IInv

LEMMA DiesInv ==
    ASSUME IInv, proc \in Running, Dies, restarting' \in BOOLEAN
    PROVE  IInv'
<1>1. /\ proc' = "dead" /\ todo' = <<>> /\ handling' = {} /\ ~locked'
      /\ left' = left \cup {cfg} /\ pidfile' = "stale" /\ rechecking' = "none"
      /\ active' = Ifaces /\ changed' = TRUE /\ locked' \in BOOLEAN
      /\ UNCHANGED <<kernel, cfg, orphans, faults, botched, raced>>
  BY DEF Dies, Forget
<1>2. mishaps' = mishaps + 1 /\ mishaps < MaxMishaps
  BY DEF Dies, Mishap
<1>3. TypeOK'
  BY <1>1, <1>2, LifecycleAssumption DEF IInv, TypeOK, Running
<1>4. OrphansInv'
  <2>1. /\ Cardinality(handling) \in Nat /\ Cardinality(Signals) \in Nat
        /\ Cardinality(handling) <= Cardinality(Signals)
    BY HandlingFinite DEF IInv, TypeOK
  <2>2. IsFiniteSet(orphans) /\ Cardinality(orphans) \in Nat
        /\ Cardinality(orphans) <= Cardinality(handling)
    BY FS_CardinalityType DEF IInv, OrphansInv
  <2> QED BY <1>1, <2>1, <2>2 DEF OrphansInv, Running
<1>5. TodoInv' /\ HookInv'
  BY <1>1 DEF IInv, TodoInv, HookInv
<1>6. BudgetInv'
  BY <1>1, <1>2, LifecycleAssumption DEF IInv, TypeOK, BudgetInv
<1> QED BY <1>3, <1>4, <1>5, <1>6 DEF IInv

(* A handler starts over with the commands of shutdown.                    *)
LEMMA HandleInv ==
    ASSUME IInv, proc \in {"test", "apply", "run", "ending"},
           NEW sig \in Signals, Handle(sig), restarting' \in BOOLEAN
    PROVE  IInv'
<1>1. /\ sig \notin handling /\ proc' = "ending"
      /\ todo' = ShutdownCmds(cfg) /\ handling' = handling \cup {sig}
      /\ active' = Ifaces /\ changed' = TRUE /\ locked' \in BOOLEAN
      /\ rechecking' \in {"none", "waits", "below"}
      /\ UNCHANGED <<kernel, cfg, pidfile, faults, botched, left, raced>>
  BY DEF Handle, Block, Forget, IInv, TypeOK
<1>2. \/ UNCHANGED <<orphans, mishaps>>
      \/ todo # <<>> /\ orphans' = orphans \cup {todo[1]} /\ Mishap
  BY DEF Handle, Overtaken, Head
<1>3. mishaps' \in 0..MaxMishaps /\ mishaps <= mishaps'
  BY <1>2, LifecycleAssumption DEF Mishap, IInv, TypeOK
<1>4. /\ IsFiniteSet(handling) /\ Cardinality(handling) \in Nat
      /\ Cardinality(handling') = Cardinality(handling) + 1
  BY <1>1, HandlingFinite, FS_AddElement DEF IInv, TypeOK
<1>5. OrphansInv'
  <2>1. /\ IsFiniteSet(orphans) /\ Cardinality(orphans) \in Nat
        /\ Cardinality(orphans) <= Cardinality(handling)
    BY FS_CardinalityType DEF IInv, OrphansInv, Running
  <2>2. \/ orphans' = orphans
        \/ orphans' = orphans \cup {todo[1]}
    BY <1>2
  <2>3. IsFiniteSet(orphans') /\ Cardinality(orphans') <= Cardinality(orphans) + 1
    BY <2>1, <2>2, FS_AddElement
  <2>4. Cardinality(orphans') <= Cardinality(handling')
    <3>1. Cardinality(orphans') \in Nat
      BY <2>3, FS_CardinalityType
    <3> QED BY <1>4, <2>1, <2>3, <3>1
  <2> QED BY <1>1, <2>3, <2>4 DEF OrphansInv, Running
<1>6. TypeOK'
  <2>1. Cardinality(orphans') <= Cardinality(Signals) + 1
    <3>1. handling' \in SUBSET Signals
      BY <1>1 DEF IInv, TypeOK
    <3>2. /\ Cardinality(handling') \in Nat /\ Cardinality(Signals) \in Nat
          /\ Cardinality(handling') <= Cardinality(Signals)
      BY <3>1, HandlingFinite
    <3>3. IsFiniteSet(orphans') /\ Cardinality(orphans') <= Cardinality(handling')
      BY <1>1, <1>5 DEF OrphansInv, Running
    <3>4. Cardinality(orphans') \in Nat
      BY <3>3, FS_CardinalityType
    <3> QED BY <3>2, <3>3, <3>4
  <2> QED BY <1>1, <1>3, <2>1 DEF IInv, TypeOK, Running
<1>7. todo' \in Seq(Quiet)
  <2>1. cfg \in Configs
    BY DEF IInv, TypeOK
  <2>2. ShutdownCmds(cfg) \in Seq(EndSet)
    BY <2>1, ShutdownType
  <2> QED BY <1>1, <2>2, EndQuiet, SeqMonotone
<1>8. orphans' \subseteq Quiet
  <2>1. todo # <<>> => todo[1] \in Quiet
    BY DEF IInv, TodoInv
  <2> QED BY <1>2, <2>1 DEF IInv, HookInv
<1>9. HookInv'
  BY <1>1, <1>7, <1>8, OrderlyQuiet, FreshTodo DEF IInv
<1>10. TodoInv' /\ BudgetInv'
  BY <1>1, <1>3, <1>7, LifecycleAssumption DEF TodoInv, IInv, TypeOK, BudgetInv
<1> QED BY <1>5, <1>6, <1>9, <1>10 DEF IInv

LEMMA DeliverInv ==
    ASSUME IInv, NEW sig \in Signals, Deliver(sig), restarting' \in BOOLEAN
    PROVE  IInv'
<1>1. \/ proc \in Running /\ Dies
      \/ proc \in {"test", "apply", "run", "ending"} /\ Handle(sig)
  BY DEF Deliver, Running
<1> QED BY <1>1, DiesInv, HandleInv

LEMMA StopSignalInv ==
    ASSUME IInv, StopSignal, restarting' \in BOOLEAN
    PROVE  IInv'
<1>1. CASE pidfile = "current" /\ "SIGTERM" \notin handling
  BY <1>1, DeliverInv, LifecycleAssumption DEF StopSignal
<1>2. CASE ~(pidfile = "current" /\ "SIGTERM" \notin handling)
  <2>1. UNCHANGED <<kernel, proc, cfg, todo, active, changed, handling, locked,
                    rechecking, orphans, pidfile, faults, botched, mishaps, left,
                    raced>>
    BY <1>2 DEF StopSignal, process, history
  <2>2. TypeOK'
    BY <2>1 DEF IInv, TypeOK
  <2> QED BY <2>1, <2>2 DEF IInv, OrphansInv, TodoInv, HookInv, BudgetInv
<1> QED BY <1>1, <1>2

(* A start over whatever is left of an earlier one.                        *)
LEMMA SpawnInv ==
    ASSUME IInv, Spawn, UNCHANGED <<kernel, orphans, pidfile, faults, mishaps>>,
           restarting' \in BOOLEAN
    PROVE  IInv'
<1>1. CASE proc \in {"off", "dead"}
  <2>1. /\ orphans = {} /\ proc' = "forked" /\ cfg' \in Configs
        /\ todo' = <<>> /\ active' = Ifaces /\ changed' = TRUE
        /\ handling' = {} /\ locked' = FALSE /\ rechecking' = "none"
        /\ botched' = {} /\ raced' = FALSE
        /\ left' = IF raced THEN left \cup {cfg} ELSE left
    BY <1>1 DEF Spawn
  <2>2. TypeOK'
    BY <2>1 DEF IInv, TypeOK, Running
  <2>3. OrphansInv'
    BY <2>1, FS_EmptySet DEF OrphansInv, Running
  <2>4. TodoInv' /\ HookInv' /\ BudgetInv'
    BY <2>1 DEF IInv, TodoInv, HookInv, BudgetInv
  <2> QED BY <2>2, <2>3, <2>4 DEF IInv
<1>2. CASE proc \notin {"off", "dead"}
  <2>1. UNCHANGED <<kernel, proc, cfg, todo, active, changed, handling, locked,
                    rechecking, orphans, pidfile, faults, botched, mishaps, left,
                    raced>>
    BY <1>2 DEF Spawn, process
  <2>2. TypeOK'
    BY <2>1 DEF IInv, TypeOK
  <2> QED BY <2>1, <2>2 DEF IInv, OrphansInv, TodoInv, HookInv, BudgetInv
<1> QED BY <1>1, <1>2

(* An overtaken command takes effect; it hooks nothing.                    *)
LEMMA LateInv == IInv /\ Late => IInv'
<1> SUFFICES ASSUME IInv, Late PROVE IInv'
  OBVIOUS
<1>1. PICK cmd \in orphans :
         /\ kernel' = Executed(kernel, cmd)
         /\ orphans' = orphans \ {cmd}
         /\ raced' = (raced \/ proc \in {"ending", "off"})
  BY DEF Late
<1>2. UNCHANGED <<proc, cfg, todo, active, changed, handling, locked,
                  rechecking, pidfile, restarting, faults, botched, mishaps,
                  left>>
  BY DEF Late, process, outside
<1>3. cmd \in Quiet /\ cmd \in Commands /\ \A h \in Hooks : Spares(cmd, h)
  BY DEF IInv, HookInv, Quiet
<1>4. kernel \in Kernels /\ kernel' \in Kernels
  BY <1>1, <1>3, ExecutedEffect DEF IInv, HookInv
<1>5. HookInv'
  <2>1. ASSUME NEW h \in Hooks
        PROVE  /\ h[1] \in DOMAIN kernel'.chains
               /\ Count(kernel'.chains[h[1]], h[2]) <= 1 + faults
               /\ todo # <<>> /\ todo[1] = Insert(h[1], h[2]) =>
                     Count(kernel'.chains[h[1]], h[2]) <= faults
    <3> DEFINE old == Count(kernel.chains[h[1]], h[2])
               new == Count(kernel'.chains[h[1]], h[2])
    <3>1. /\ h[1] \in DOMAIN kernel.chains /\ old <= 1 + faults
          /\ todo # <<>> /\ todo[1] = Insert(h[1], h[2]) => old <= faults
      BY DEF IInv, HookInv
    <3>2. h[1] \in DOMAIN kernel'.chains /\ new <= old
      BY <1>1, <1>3, <1>4, <3>1, SparedCount
    <3>3. old \in Nat /\ new \in Nat /\ faults \in Nat
      <4>1. /\ kernel.chains[h[1]] \in Seq(Names)
            /\ kernel'.chains[h[1]] \in Seq(Names)
        BY <1>4, <3>1, <3>2, KernelParts
      <4>2. faults \in Nat
        BY DEF IInv, TypeOK
      <4>3. old \in Nat /\ new \in Nat
        BY <4>1, CountType
      <4> QED BY <4>2, <4>3
    <3> HIDE DEF old, new
    <3>4. /\ new <= 1 + faults
          /\ todo # <<>> /\ todo[1] = Insert(h[1], h[2]) => new <= faults
      BY <3>1, <3>2, <3>3
    <3> QED BY <3>2, <3>4 DEF new
  <2>2. orphans' \subseteq Quiet
    BY <1>1 DEF IInv, HookInv
  <2> QED BY <1>2, <1>4, <2>1, <2>2 DEF HookInv
<1>6. OrphansInv'
  <2>1. /\ IsFiniteSet(orphans) /\ Cardinality(orphans) \in Nat
        /\ IsFiniteSet(orphans') /\ Cardinality(orphans') \in Nat
        /\ Cardinality(orphans') <= Cardinality(orphans)
    <3>1. IsFiniteSet(orphans) /\ orphans' \in SUBSET orphans
      BY <1>1 DEF IInv, OrphansInv
    <3> QED BY <3>1, FS_Subset, FS_CardinalityType
  <2>2. Cardinality(handling) \in Nat /\ Cardinality(Signals) \in Nat
    BY HandlingFinite DEF IInv, TypeOK
  <2> QED BY <1>2, <2>1, <2>2 DEF IInv, OrphansInv
<1>7. TypeOK'
  <2>1. Cardinality(orphans') <= Cardinality(Signals) + 1
    <3>1. /\ Cardinality(orphans) \in Nat /\ Cardinality(orphans') \in Nat
          /\ Cardinality(orphans') <= Cardinality(orphans)
          /\ Cardinality(Signals) \in Nat
          /\ Cardinality(orphans) <= Cardinality(Signals) + 1
      <4>1. IsFiniteSet(orphans) /\ orphans' \in SUBSET orphans
        BY <1>1 DEF IInv, OrphansInv
      <4>2. Cardinality(Signals) \in Nat
        BY HandlingFinite DEF IInv, TypeOK
      <4> QED BY <4>1, <4>2, FS_Subset, FS_CardinalityType DEF IInv, TypeOK
    <3> QED BY <3>1
  <2> QED BY <1>1, <1>2, <2>1 DEF IInv, TypeOK
<1>8. TodoInv' /\ BudgetInv'
  BY <1>2 DEF IInv, TodoInv, BudgetInv
<1> QED BY <1>5, <1>6, <1>7, <1>8 DEF IInv

(* sig_user2 waits.                                                        *)
LEMMA RecheckInv == IInv /\ Recheck => IInv'
<1> SUFFICES ASSUME IInv, Recheck PROVE IInv'
  OBVIOUS
<1>1. UNCHANGED <<kernel, proc, cfg, todo, active, changed, handling, orphans,
                  pidfile, restarting, faults, botched, mishaps, left, raced>>
  BY DEF Recheck, outside, history
<1>2. TypeOK'
  BY <1>1 DEF Recheck, IInv, TypeOK
<1> QED BY <1>1, <1>2 DEF IInv, OrphansInv, TodoInv, HookInv, BudgetInv

-----------------------------------------------------------------------------
(* Every step keeps the invariant.                                         *)
LEMMA NextInv == IInv /\ [Next]_vars => IInv'
<1> SUFFICES ASSUME IInv, [Next]_vars PROVE IInv'
  OBVIOUS
<1>0. restarting \in BOOLEAN
  BY DEF IInv, TypeOK
<1>1. CASE Daemon
  BY <1>1, ExecuteInv, StillInv, WritePidInv, ApplyRulesInv, ExitInv DEF Daemon
<1>2. CASE Late
  BY <1>2, LateInv
<1>3. CASE Start \/ RestartStart
  BY <1>3, <1>0, SpawnInv DEF Start, RestartStart, outside
<1>4. CASE Stop \/ Restart
  BY <1>4, <1>0, StopSignalInv DEF Stop, Restart
<1>5. CASE \E sig \in Signals : Terminate(sig)
  BY <1>5, <1>0, DeliverInv DEF Terminate
<1>6. CASE Wake \/ Crash
  BY <1>6, <1>0, DiesInv DEF Wake, Crash, Running
<1>7. CASE Recheck
  BY <1>7, RecheckInv
<1>8. CASE UNCHANGED vars
  BY <1>8, StillInv
<1> QED BY <1>1, <1>2, <1>3, <1>4, <1>5, <1>6, <1>7, <1>8 DEF Next

(* The process is where the code can be, with commands to execute only in  *)
(* init, run and shutdown, with handlers only while it ends, and no signal *)
(* overtakes more than one command.                                        *)
THEOREM TypeTheorem == Spec => []TypeOK
<1>1. IInv => TypeOK
  BY DEF IInv
<1> QED BY <1>1, InitInv, NextInv, PTL DEF Spec

-----------------------------------------------------------------------------
LEMMA IdleKinds ==
    /\ \A c : Idle(New(c)) /\ Idle(Flush(c)) /\ Idle(Delete(c))
    /\ \A c, t : Idle(RemoveRule(c, t))
    /\ \A i : /\ Idle(RouteReplace(i)) /\ Idle(RouteFlush(i))
              /\ Idle(RuleAdd(i)) /\ Idle(RuleDelete(i))
BY DEF Idle, Command, New, Flush, Delete, RemoveRule, RouteReplace, RouteFlush,
       RuleAdd, RuleDelete

LEMMA KeepingKinds ==
    /\ \A c : New(c).op # "rule delete" /\ Flush(c).op # "rule delete"
              /\ Delete(c).op # "rule delete"
    /\ \A c, t : /\ RemoveRule(c, t).op # "rule delete"
                 /\ Add(c, t).op # "rule delete" /\ Insert(c, t).op # "rule delete"
    /\ \A i : RouteReplace(i).op # "rule delete" /\ RuleAdd(i).op # "rule delete"
BY DEF Command, New, Flush, Delete, RemoveRule, Add, Insert, RouteReplace, RuleAdd

LEMMA IdleFits ==
    ASSUME NEW cmd, Idle(cmd)
    PROVE  FitCmd(cmd) /\ Mild(cmd) /\ \A h \in Hooks : Tame(cmd, h)
BY DEF Idle, FitCmd, Mild, Tame

LEMMA AddKinds ==
    ASSUME NEW c, NEW t, NEW cmd, cmd \in {Add(c, t), Insert(c, t)}
    PROVE  /\ FitCmd(cmd) <=> Fits(c, t)
           /\ Mild(cmd) <=> t[1] # "MARK"
           /\ \A h : Tame(cmd, h) <=> (c = h[2] => t[1] \in Verdicts)
<1>1. cmd.op \in {"add", "insert"} /\ cmd.about = c /\ cmd.to = t
  BY DEF Add, Insert, Command
<1> QED BY <1>1 DEF FitCmd, Mild, Tame

(* What init executes fits, and leaves the daemon's chains tame.           *)
LEMMA InitFits == \A cmd \in InitSet : FitCmd(cmd) /\ \A h \in Hooks : Tame(cmd, h)
<1> DEFINE Good(cmd) == FitCmd(cmd) /\ \A h \in Hooks : Tame(cmd, h)
<1>0. ASSUME NEW c, NEW t, Fits(c, t),
             c \notin {PRE, OUT} \/ t[1] \in Verdicts
      PROVE  Good(Add(c, t)) /\ Good(Insert(c, t))
  BY <1>0, AddKinds DEF Hooks
<1>1. \A cmd : Idle(cmd) => Good(cmd)
  BY IdleFits
<1> HIDE DEF Good
<1>2. \A cmd \in {New(NAT), Flush(NAT), Flush(HOOK), Insert(HOOK, NAT)} : Good(cmd)
  <2>1. Fits(HOOK, NAT) /\ HOOK \notin {PRE, OUT}
    BY DEF Fits, Verdicts, HOOK, NAT, PREROUTING, OUTPUT, PRE, OUT
  <2> QED BY <2>1, <1>0, <1>1, IdleKinds
<1>3. ASSUME NEW h \in Hooks PROVE \A cmd \in HookSet(h[1], h[2]) : Good(cmd)
  <2>1. Fits(h[2], ACCEPT) /\ Fits(h[1], h[2]) /\ ACCEPT[1] \in Verdicts
        /\ h[1] \notin {PRE, OUT}
    BY DEF Fits, Verdicts, ACCEPT, PREROUTING, OUTPUT, PRE, OUT, Hooks
  <2>2. Good(Add(h[2], ACCEPT)) /\ Good(Insert(h[1], h[2]))
    BY <2>1, <1>0
  <2> QED BY <2>2, <1>1, IdleKinds DEF HookSet
<1>4. ASSUME NEW i \in Ifaces PROVE \A cmd \in SetupCmds(i) : Good(cmd)
  <2>1. /\ Fits(ISP(i), CONNMARK(i)) /\ Fits(ISP(i), MARK(i)) /\ Fits(ISP(i), ACCEPT)
        /\ ISP(i) \notin {PRE, OUT}
    BY DEF Fits, Verdicts, ISP, MARK, CONNMARK, ACCEPT, PREROUTING, OUTPUT, PRE, OUT
  <2>2. /\ Fits(INBOUND(i), CONNMARK(i)) /\ Fits(PREROUTING, INBOUND(i))
        /\ Fits(NAT, SNAT(i)) /\ {INBOUND(i), PREROUTING, NAT} \cap {PRE, OUT} = {}
    BY DEF Fits, Verdicts, INBOUND, CONNMARK, SNAT, NAT, PREROUTING, OUTPUT, PRE, OUT
  <2>3. /\ Good(Add(ISP(i), CONNMARK(i))) /\ Good(Add(ISP(i), MARK(i)))
        /\ Good(Add(ISP(i), ACCEPT))
    BY <2>1, <1>0
  <2>4. /\ Good(Add(INBOUND(i), CONNMARK(i))) /\ Good(Insert(PREROUTING, INBOUND(i)))
        /\ Good(Add(NAT, SNAT(i)))
    BY <2>2, <1>0
  <2> QED BY <2>3, <2>4, <1>1, IdleKinds DEF SetupCmds
<1>5. \A cmd \in HookSet(PREROUTING, PRE) \cup HookSet(OUTPUT, OUT) : Good(cmd)
  <2>1. <<PREROUTING, PRE>> \in Hooks /\ <<OUTPUT, OUT>> \in Hooks
    BY DEF Hooks
  <2> QED BY <2>1, <1>3
<1>6. \A cmd \in InitSet : Good(cmd)
  BY <1>2, <1>4, <1>5 DEF InitSet
<1> QED BY <1>6 DEF Good

(* What run executes fits, sets no mark and leaves the policy alone.       *)
LEMMA RunFits ==
    \A cmd \in RunSet : FitCmd(cmd) /\ Mild(cmd) /\ cmd.op # "rule delete"
<1> DEFINE Good(cmd) == FitCmd(cmd) /\ Mild(cmd) /\ cmd.op # "rule delete"
<1>0. ASSUME NEW c, NEW t, Fits(c, t), t[1] # "MARK" PROVE Good(Add(c, t))
  BY <1>0, AddKinds, KeepingKinds
<1>1. ASSUME NEW c PROVE Good(New(c)) /\ Good(Flush(c))
  BY IdleFits, IdleKinds, KeepingKinds
<1>2. ASSUME NEW i PROVE Good(RouteReplace(i)) /\ Good(Add(NAT, SNAT(i)))
  <2>1. Fits(NAT, SNAT(i)) /\ SNAT(i)[1] # "MARK"
    BY DEF Fits, Verdicts, SNAT, NAT, PREROUTING, OUTPUT
  <2> QED BY <2>1, <1>0, IdleFits, IdleKinds, KeepingKinds
<1>3. ASSUME NEW c \in Balanced,
             NEW t \in {ACCEPT, RESTORE} \cup LimitChains \cup {ISP(i) : i \in Ifaces}
      PROVE  Good(Add(c, t))
  <2>1. c[1] \in {"WANLOADBALANCE_PRE", "WANLOADBALANCE_OUT",
                  "WANLOADBALANCE_PRE_LIMIT", "WANLOADBALANCE_OUT_LIMIT"}
    BY DEF Balanced, LimitChains, PRE, OUT, PreLimit, OutLimit
  <2>2. t[1] \in {"ACCEPT", "restore-mark", "WANLOADBALANCE_PRE_LIMIT",
                  "WANLOADBALANCE_OUT_LIMIT", "ISP"}
    BY DEF LimitChains, ACCEPT, RESTORE, PreLimit, OutLimit, ISP
  <2>3. Fits(c, t) /\ t[1] # "MARK"
    BY <2>1, <2>2 DEF Fits, Verdicts, PREROUTING, OUTPUT
  <2> QED BY <2>3, <1>0
<1> HIDE DEF Good
<1>4. \A cmd \in RunSet : Good(cmd)
  BY <1>1, <1>2, <1>3 DEF RunSet, PathSet
<1> QED BY <1>4 DEF Good

(* What shutdown executes adds nothing.                                    *)
LEMMA EndIdle == \A cmd \in EndSet : Idle(cmd)
<1>1. \A cmd \in UnhookSet : Idle(cmd)
  BY IdleKinds DEF UnhookSet
<1>2. \A i \in Ifaces : \A cmd \in CleanCmds(i) : Idle(cmd)
  BY IdleKinds DEF CleanCmds
<1> QED BY <1>1, <1>2 DEF EndSet

-----------------------------------------------------------------------------
(* Which jumps there are after a command.                                  *)
LEMMA ContainsCount ==
    ASSUME NEW S, NEW s \in Seq(S), NEW t
    PROVE  Contains(s, t) <=> Count(s, t) # 0
<1> DEFINE T == {n \in DOMAIN s : s[n] = t}
<1>0. DOMAIN s = 1..Len(s)
  OBVIOUS
<1>1. DOMAIN s = 1..Len(s) /\ IsFiniteSet(T)
  BY <1>0, CountType
<1>2. Contains(s, t) <=> T # {}
  BY <1>1 DEF Contains
<1>3. Cardinality(T) = 0 <=> T = {}
  <2> HIDE DEF T
  <2> QED BY <1>1, FS_EmptySet
<1> QED BY <1>2, <1>3 DEF Count

LEMMA JumpsAfter ==
    ASSUME NEW k \in Kernels, NEW cmd \in Commands, NEW b, NEW t,
           Jumps(Executed(k, cmd), b, t)
    PROVE  /\ Jumps(k, b, t) \/ Adds(cmd, b, t)
           /\ ~(cmd.op = "flush" /\ cmd.about = b)
<1> DEFINE e  == Executed(k, cmd)
<1>1. Effect(k, cmd, e) /\ e \in Kernels
  BY ExecutedEffect
<1> HIDE DEF e
<1>2. b \in DOMAIN e.chains /\ Contains(e.chains[b], t)
  BY DEF Jumps, Exists, e
<1>3. e.chains[b] # <<>>
  BY <1>2 DEF Contains
<1>4. b \in DOMAIN k.chains
  BY <1>1, <1>2, <1>3 DEF Effect
<1> DEFINE rs == k.chains[b]
<1>5. rs \in Seq(Names) /\ cmd.to \in Names
  BY <1>4, KernelParts DEF Commands
<1>6. \/ e.chains[b] = rs
      \/ e.chains[b] = NewRules(rs, cmd) /\ cmd.about = b
  BY <1>1, <1>2, <1>4 DEF Effect
<1>7. Jumps(k, b, t) <=> Contains(rs, t)
  BY <1>4 DEF Jumps, Exists
<1> HIDE DEF rs
<1>8. ~(cmd.op = "flush" /\ cmd.about = b)
  <2> SUFFICES ASSUME cmd.op = "flush", cmd.about = b PROVE FALSE
    OBVIOUS
  <2>1. e.chains[b] = <<>>
    BY <1>1, <1>4 DEF Effect, NewRules
  <2> QED BY <2>1, <1>3
<1>9. Contains(rs, t) \/ Adds(cmd, b, t)
  <2>1. CASE e.chains[b] = rs
    BY <2>1, <1>2
  <2>2. CASE /\ e.chains[b] = NewRules(rs, cmd) /\ cmd.about = b
             /\ cmd.op \in {"add", "insert"}
    <3>1. e.chains[b] \in {Append(rs, cmd.to), <<cmd.to>> \o rs}
      BY <2>2 DEF NewRules
    <3>2. PICK n \in 1..Len(e.chains[b]) : e.chains[b][n] = t
      BY <1>2 DEF Contains
    <3>3. t = cmd.to \/ \E m \in 1..Len(rs) : rs[m] = t
      <4>1. CASE e.chains[b] = Append(rs, cmd.to)
        <5> DEFINE u == Append(rs, cmd.to)
        <5>1. /\ Len(u) = Len(rs) + 1 /\ Len(rs) \in Nat
              /\ \A m \in 1..(Len(rs) + 1) :
                    u[m] = IF m = Len(rs) + 1 THEN cmd.to ELSE rs[m]
          BY <1>5
        <5> HIDE DEF u
        <5> QED BY <4>1, <5>1, <3>2 DEF u
      <4>2. CASE e.chains[b] = <<cmd.to>> \o rs
        <5> DEFINE u == <<cmd.to>> \o rs
        <5>1. /\ Len(u) = Len(rs) + 1 /\ Len(rs) \in Nat
              /\ \A m \in 1..(Len(rs) + 1) :
                    u[m] = IF m = 1 THEN cmd.to ELSE rs[m - 1]
          BY <1>5
        <5> HIDE DEF u
        <5>2. n \in 1..(Len(rs) + 1) /\ u[n] = t
          BY <4>2, <5>1, <3>2 DEF u
        <5>3. n # 1 => n - 1 \in 1..Len(rs) /\ rs[n - 1] = t
          BY <5>1, <5>2
        <5> QED BY <5>1, <5>2, <5>3
      <4> QED BY <3>1, <4>1, <4>2
    <3> QED BY <3>3, <2>2 DEF Adds, Contains
  <2>3. CASE /\ e.chains[b] = NewRules(rs, cmd) /\ cmd.about = b
             /\ cmd.op = "remove"
    <3>1. e.chains[b] = RemoveFirst(rs, cmd.to)
      BY <2>3 DEF NewRules
    <3>2. e.chains[b] \in Seq(Names) /\ Count(e.chains[b], t) <= Count(rs, t)
      BY <3>1, <1>5, CountRemove
    <3>3. Count(e.chains[b], t) # 0
      BY <3>2, <1>2, ContainsCount
    <3>4. Count(e.chains[b], t) \in Nat /\ Count(rs, t) \in Nat
      BY <3>2, <1>5, CountType
    <3>5. Count(rs, t) # 0
      BY <3>2, <3>3, <3>4
    <3> QED BY <3>5, <1>5, ContainsCount
  <2>4. CASE /\ e.chains[b] = NewRules(rs, cmd) /\ cmd.about = b
             /\ cmd.op \notin {"add", "insert", "remove", "flush"}
    <3>1. e.chains[b] = rs
      BY <2>4 DEF NewRules
    <3> QED BY <3>1, <1>2
  <2> QED BY <2>1, <2>2, <2>3, <2>4, <1>6, <1>8
<1> QED BY <1>7, <1>8, <1>9

LEMMA PolicyAfter ==
    ASSUME NEW k \in Kernels, NEW cmd \in Commands, NEW i \in Int
    PROVE  /\ i \in k.rules => i \in Executed(k, cmd).rules \/ Drops(cmd, i)
           /\ cmd = RuleAdd(i) => i \in Executed(k, cmd).rules
<1>1. Executed(k, cmd).rules = NewPolicy(k.rules, cmd)
  BY ExecutedEffect DEF Effect
<1>2. RuleAdd(i).op = "rule add" /\ RuleAdd(i).about[2] = i
  BY DEF RuleAdd, Command
<1> QED BY <1>1, <1>2 DEF NewPolicy, Drops

(* With one jump at most, removing it unhooks the chain.                   *)
LEMMA RemovedUnhooks ==
    ASSUME NEW k \in Kernels, NEW h \in Names \X Names, h[1] \in DOMAIN k.chains,
           Count(k.chains[h[1]], h[2]) <= 1
    PROVE  ~Jumps(Executed(k, RemoveRule(h[1], h[2])), h[1], h[2])
<1> DEFINE cmd == RemoveRule(h[1], h[2])
           e   == Executed(k, cmd)
           old == Count(k.chains[h[1]], h[2])
           new == Count(e.chains[h[1]], h[2])
<1>1. /\ cmd \in Commands /\ cmd.op = "remove" /\ cmd.about = h[1]
      /\ cmd.to = h[2]
  BY RemovalParts
<1>2. Spares(cmd, h)
  BY <1>1 DEF Spares
<1> HIDE DEF cmd
<1>3. /\ h[1] \in DOMAIN e.chains /\ new <= old
      /\ old # 0 => new <= old - 1
  BY <1>1, <1>2, SparedCount
<1>4. e \in Kernels
  BY <1>1, ExecutedEffect
<1> HIDE DEF e
<1>5. e.chains[h[1]] \in Seq(Names) /\ k.chains[h[1]] \in Seq(Names)
  BY <1>3, <1>4, KernelParts
<1>6. new \in Nat /\ old \in Nat
  BY <1>5, CountType
<1>7. new = 0
  <2> HIDE DEF new
  <2> QED BY <1>3, <1>6
<1>8. ~Contains(e.chains[h[1]], h[2])
  BY <1>5, <1>7, ContainsCount
<1> QED BY <1>8 DEF Jumps, e, cmd

-----------------------------------------------------------------------------
LEMMA Joined ==
    ASSUME NEW S, NEW a \in Seq(S), NEW b \in Seq(S), NEW u, u = a \o b
    PROVE  /\ u \in Seq(S) /\ Len(u) = Len(a) + Len(b)
           /\ Len(a) \in Nat /\ Len(b) \in Nat
           /\ \A n \in 1..Len(a) : u[n] = a[n]
           /\ \A n \in 1..Len(b) : u[Len(a) + n] = b[n]
           /\ \A n \in (Len(a) + 1)..Len(u) :
                 n - Len(a) \in 1..Len(b) /\ u[n] = b[n - Len(a)]
<1> DEFINE v == a \o b
<1>1. /\ v \in Seq(S) /\ Len(v) = Len(a) + Len(b)
      /\ Len(a) \in Nat /\ Len(b) \in Nat
      /\ \A n \in 1..(Len(a) + Len(b)) :
            v[n] = IF n <= Len(a) THEN a[n] ELSE b[n - Len(a)]
  OBVIOUS
<1> HIDE DEF v
<1>2. u = v
  BY DEF v
<1>3. \A n \in 1..Len(a) : u[n] = a[n]
  BY <1>1, <1>2
<1>4. \A n \in (Len(a) + 1)..Len(u) :
         n - Len(a) \in 1..Len(b) /\ u[n] = b[n - Len(a)]
  BY <1>1, <1>2
<1>5. \A n \in 1..Len(b) : u[Len(a) + n] = b[n]
  <2> SUFFICES ASSUME NEW n \in 1..Len(b) PROVE u[Len(a) + n] = b[n]
    OBVIOUS
  <2>1. /\ Len(a) + n \in 1..(Len(a) + Len(b)) /\ ~(Len(a) + n <= Len(a))
        /\ (Len(a) + n) - Len(a) = n
    BY <1>1
  <2> QED BY <2>1, <1>1, <1>2
<1> QED BY <1>1, <1>2, <1>3, <1>4, <1>5

LEMMA FirstJoin ==
    ASSUME NEW S, NEW a \in Seq(S), NEW b \in Seq(S), NEW cmd, NEW C
    PROVE  /\ First(a, cmd, C) => First(a \o b, cmd, C)
           /\ a \in Seq(C) /\ First(b, cmd, C) => First(a \o b, cmd, C)
<1> DEFINE u == a \o b
<1>1. /\ u \in Seq(S) /\ Len(u) = Len(a) + Len(b)
      /\ Len(a) \in Nat /\ Len(b) \in Nat
      /\ \A n \in 1..Len(a) : u[n] = a[n]
      /\ \A n \in 1..Len(b) : u[Len(a) + n] = b[n]
      /\ \A n \in (Len(a) + 1)..Len(u) :
            n - Len(a) \in 1..Len(b) /\ u[n] = b[n - Len(a)]
  BY Joined
<1> HIDE DEF u
<1>2. ASSUME First(a, cmd, C) PROVE First(u, cmd, C)
  <2>1. PICK n \in 1..Len(a) : a[n] = cmd /\ \A m \in 1..(n - 1) : a[m] \in C
    BY <1>2 DEF First
  <2>2. n \in 1..Len(u) /\ u[n] = cmd
    BY <1>1, <2>1
  <2>3. \A m \in 1..(n - 1) : m \in 1..Len(a)
    BY <1>1, <2>1
  <2>4. \A m \in 1..(n - 1) : u[m] \in C
    BY <1>1, <2>1, <2>3
  <2> QED BY <2>2, <2>4 DEF First
<1>3. ASSUME a \in Seq(C), First(b, cmd, C) PROVE First(u, cmd, C)
  <2>1. PICK n \in 1..Len(b) : b[n] = cmd /\ \A m \in 1..(n - 1) : b[m] \in C
    BY <1>3 DEF First
  <2> DEFINE p == Len(a) + n
  <2>2. p \in 1..Len(u) /\ u[p] = cmd
    BY <1>1, <2>1
  <2>3. ASSUME NEW m \in 1..(p - 1) PROVE u[m] \in C
    <3>1. CASE m <= Len(a)
      <4>1. m \in 1..Len(a) /\ a[m] \in C
        BY <3>1, <1>1, <1>3
      <4> QED BY <4>1, <1>1
    <3>2. CASE m > Len(a)
      <4>1. m \in (Len(a) + 1)..Len(u) /\ m - Len(a) \in 1..(n - 1)
        BY <3>2, <1>1, <2>1
      <4>2. u[m] = b[m - Len(a)]
        BY <4>1, <1>1
      <4> QED BY <4>1, <4>2, <2>1
    <3> QED BY <3>1, <3>2, <1>1
  <2> HIDE DEF p
  <2> QED BY <2>2, <2>3 DEF First
<1> QED BY <1>2, <1>3 DEF u

LEMMA Tailed ==
    ASSUME NEW S, NEW s \in Seq(S), s # <<>>
    PROVE  /\ s[1] \in S /\ Tail(s) \in Seq(S) /\ Len(Tail(s)) = Len(s) - 1
           /\ Len(s) \in Nat \ {0}
           /\ \A n \in 1..(Len(s) - 1) : Tail(s)[n] = s[n + 1]
OBVIOUS

LEMMA FirstTail ==
    ASSUME NEW S, NEW s \in Seq(S), s # <<>>, NEW cmd, NEW C, First(s, cmd, C)
    PROVE  s[1] = cmd \/ (s[1] \in C /\ First(Tail(s), cmd, C))
<1> DEFINE t == Tail(s)
<1>1. /\ Len(t) = Len(s) - 1 /\ Len(s) \in Nat \ {0}
      /\ \A n \in 1..(Len(s) - 1) : t[n] = s[n + 1]
  BY Tailed
<1> HIDE DEF t
<1>2. PICK n \in 1..Len(s) : s[n] = cmd /\ \A m \in 1..(n - 1) : s[m] \in C
  BY DEF First
<1>3. CASE n # 1
  <2> DEFINE p == n - 1
  <2>1. p \in 1..Len(t) /\ p + 1 = n /\ 1 \in 1..(n - 1)
    BY <1>1, <1>3
  <2>2. t[p] = cmd
    <3>1. t[p] = s[p + 1]
      BY <2>1, <1>1
    <3> QED BY <3>1, <2>1, <1>2
  <2>3. ASSUME NEW m \in 1..(p - 1) PROVE t[m] \in C
    <3>1. m \in 1..(Len(s) - 1) /\ m + 1 \in 1..(n - 1)
      BY <2>1, <1>1
    <3>2. t[m] = s[m + 1]
      BY <3>1, <1>1
    <3> QED BY <3>1, <3>2, <1>2
  <2> HIDE DEF p
  <2>4. First(t, cmd, C)
    BY <2>1, <2>2, <2>3 DEF First
  <2>5. s[1] \in C
    BY <2>1, <1>2
  <2> QED BY <2>4, <2>5 DEF t
<1> QED BY <1>2, <1>3 DEF t

LEMMA EndsJoin ==
    ASSUME NEW S, NEW a \in Seq(S), NEW b \in Seq(S), NEW i
    PROVE  /\ Ends(b, i) => Ends(a \o b, i)
           /\ Ends(a, i) /\ NeverDrops(b, i) => Ends(a \o b, i)
           /\ NeverDrops(a, i) /\ NeverDrops(b, i) => NeverDrops(a \o b, i)
<1> DEFINE u == a \o b
<1>1. /\ u \in Seq(S) /\ Len(u) = Len(a) + Len(b)
      /\ Len(a) \in Nat /\ Len(b) \in Nat
      /\ \A n \in 1..Len(a) : u[n] = a[n]
      /\ \A n \in 1..Len(b) : u[Len(a) + n] = b[n]
      /\ \A n \in (Len(a) + 1)..Len(u) :
            n - Len(a) \in 1..Len(b) /\ u[n] = b[n - Len(a)]
  BY Joined
<1> HIDE DEF u
<1>2. ASSUME Ends(b, i) PROVE Ends(u, i)
  <2>1. PICK n \in 1..Len(b) : b[n] = RuleAdd(i)
                               /\ \A m \in (n + 1)..Len(b) : ~Drops(b[m], i)
    BY <1>2 DEF Ends
  <2> DEFINE p == Len(a) + n
  <2>2. p \in 1..Len(u) /\ u[p] = RuleAdd(i)
    BY <1>1, <2>1
  <2>3. ASSUME NEW m \in (p + 1)..Len(u) PROVE ~Drops(u[m], i)
    <3>1. m \in (Len(a) + 1)..Len(u) /\ m - Len(a) \in (n + 1)..Len(b)
      BY <1>1
    <3>2. u[m] = b[m - Len(a)]
      BY <3>1, <1>1
    <3> QED BY <3>1, <3>2, <2>1
  <2> HIDE DEF p
  <2> QED BY <2>2, <2>3 DEF Ends
<1>3. ASSUME Ends(a, i), NeverDrops(b, i) PROVE Ends(u, i)
  <2>1. PICK n \in 1..Len(a) : a[n] = RuleAdd(i)
                               /\ \A m \in (n + 1)..Len(a) : ~Drops(a[m], i)
    BY <1>3 DEF Ends
  <2>2. n \in 1..Len(u) /\ u[n] = RuleAdd(i)
    BY <1>1, <2>1
  <2>3. ASSUME NEW m \in (n + 1)..Len(u) PROVE ~Drops(u[m], i)
    <3>1. CASE m <= Len(a)
      <4>1. m \in 1..Len(a) /\ m \in (n + 1)..Len(a)
        BY <3>1, <1>1
      <4> QED BY <4>1, <1>1, <2>1
    <3>2. CASE m > Len(a)
      <4>1. m \in (Len(a) + 1)..Len(u)
        BY <3>2, <1>1
      <4> QED BY <4>1, <1>1, <1>3 DEF NeverDrops
    <3> QED BY <3>1, <3>2, <1>1
  <2> QED BY <2>2, <2>3 DEF Ends
<1>4. ASSUME NeverDrops(a, i), NeverDrops(b, i) PROVE NeverDrops(u, i)
  <2>1. ASSUME NEW m \in 1..Len(u) PROVE ~Drops(u[m], i)
    <3>1. CASE m <= Len(a)
      <4>1. m \in 1..Len(a)
        BY <3>1, <1>1
      <4> QED BY <4>1, <1>1, <1>4 DEF NeverDrops
    <3>2. CASE m > Len(a)
      <4>1. m \in (Len(a) + 1)..Len(u)
        BY <3>2, <1>1
      <4> QED BY <4>1, <1>1, <1>4 DEF NeverDrops
    <3> QED BY <3>1, <3>2, <1>1
  <2> QED BY <2>1 DEF NeverDrops
<1> QED BY <1>2, <1>3, <1>4 DEF u

LEMMA EndsTail ==
    ASSUME NEW S, NEW s \in Seq(S), s # <<>>, NEW i
    PROVE  /\ Ends(s, i) => \/ Ends(Tail(s), i)
                            \/ s[1] = RuleAdd(i) /\ NeverDrops(Tail(s), i)
           /\ NeverDrops(s, i) => ~Drops(s[1], i) /\ NeverDrops(Tail(s), i)
<1> DEFINE t == Tail(s)
<1>1. /\ Len(t) = Len(s) - 1 /\ Len(s) \in Nat \ {0}
      /\ \A n \in 1..(Len(s) - 1) : t[n] = s[n + 1]
  BY Tailed
<1> HIDE DEF t
<1>2. ASSUME Ends(s, i)
      PROVE  Ends(t, i) \/ (s[1] = RuleAdd(i) /\ NeverDrops(t, i))
  <2>1. PICK n \in 1..Len(s) : s[n] = RuleAdd(i)
                               /\ \A m \in (n + 1)..Len(s) : ~Drops(s[m], i)
    BY <1>2 DEF Ends
  <2>2. ASSUME NEW m \in n..Len(t), 1 <= m PROVE ~Drops(t[m], i)
    <3>1. m \in 1..(Len(s) - 1) /\ m + 1 \in (n + 1)..Len(s)
      BY <2>2, <1>1
    <3> QED BY <3>1, <1>1, <2>1
  <2>3. CASE n = 1
    BY <2>1, <2>2, <2>3 DEF NeverDrops
  <2>4. CASE n # 1
    <3> DEFINE p == n - 1
    <3>1. p \in 1..Len(t) /\ p + 1 = n
      BY <1>1, <2>4
    <3>2. t[p] = RuleAdd(i)
      <4>1. t[p] = s[p + 1]
        BY <3>1, <1>1
      <4> QED BY <4>1, <3>1, <2>1
    <3>3. \A m \in (p + 1)..Len(t) : ~Drops(t[m], i)
      BY <3>1, <2>2
    <3> HIDE DEF p
    <3> QED BY <3>1, <3>2, <3>3 DEF Ends
  <2> QED BY <2>3, <2>4
<1>3. ASSUME NeverDrops(s, i) PROVE ~Drops(s[1], i) /\ NeverDrops(t, i)
  <2>1. \A n \in 1..Len(t) : n + 1 \in 1..Len(s) /\ t[n] = s[n + 1]
    BY <1>1
  <2>2. 1 \in 1..Len(s)
    BY <1>1
  <2> QED BY <2>1, <2>2, <1>3 DEF NeverDrops
<1> QED BY <1>2, <1>3 DEF t

-----------------------------------------------------------------------------
(* The order in which init and shutdown execute their commands.            *)
LEMMA QuietCommands == Quiet \subseteq Commands /\ HookCmds \subseteq Commands
BY HookParts DEF Quiet, HookCmds

LEMMA SetupDrops ==
    ASSUME NEW j, NEW i, NEW cmd \in SetupCmds(j), Drops(cmd, i) PROVE i = j
<1>1. cmd.op = "rule delete" /\ cmd.about[2] = i
  BY DEF Drops
<1>2. cmd = RuleDelete(j)
  BY <1>1, KeepingKinds DEF SetupCmds
<1>3. RuleDelete(j).about[2] = j
  BY DEF RuleDelete, Command
<1> QED BY <1>1, <1>2, <1>3

(* The rules of every interface are in place when init ends.               *)
LEMMA SetupEnds ==
    ASSUME NEW c \in Configs, NEW i \in Ifaces, NEW j \in Ifaces
    PROVE  /\ InitIface(c, j) \in Seq(Commands)
           /\ i = j => Ends(InitIface(c, j), i)
           /\ i # j => NeverDrops(InitIface(c, j), i)
<1> DEFINE a == <<New(ISP(i)), Flush(ISP(i)), Add(ISP(i), CONNMARK(i)),
                  Add(ISP(i), MARK(i)), Add(ISP(i), ACCEPT)>>
           b == <<New(INBOUND(i)), Flush(INBOUND(i)),
                  Add(INBOUND(i), CONNMARK(i)), Insert(PREROUTING, INBOUND(i))>>
           d == <<RouteReplace(i), RuleDelete(i), RuleAdd(i)>>
           e == <<Add(NAT, SNAT(i))>>
           S == Seq(SetupCmds(i))
<1>0. \A k \in Ifaces : InitIface(c, k) \in Seq(SetupCmds(k))
  BY SetupType
<1>1. InitIface(c, j) \in Seq(Commands)
  BY <1>0, SetupQuiet, QuietCommands
<1>2. i # j => NeverDrops(InitIface(c, j), i)
  BY <1>0, SetupDrops DEF NeverDrops
<1>3. a \in S /\ b \in S /\ d \in S /\ e \in S
  BY DEF SetupCmds
<1>4. InitIface(c, i) = ((a \o If(c.sticky, b)) \o d) \o If(c.nat, e)
  BY DEF InitIface
<1>5. Ends(d, i)
  BY DEF Ends
<1>6. NeverDrops(<<>>, i) /\ NeverDrops(e, i)
  <2>1. NeverDrops(<<>>, i)
    BY DEF NeverDrops
  <2>2. Add(NAT, SNAT(i)).op # "rule delete"
    BY KeepingKinds
  <2>3. ~Drops(Add(NAT, SNAT(i)), i)
    BY <2>2 DEF Drops
  <2>4. Len(e) = 1 /\ e[1] = Add(NAT, SNAT(i))
    OBVIOUS
  <2> HIDE DEF e
  <2>5. NeverDrops(e, i)
    BY <2>3, <2>4 DEF NeverDrops
  <2> QED BY <2>1, <2>5
<1> HIDE DEF a, b, d, e
<1>7. /\ If(c.sticky, b) \in S /\ If(c.nat, e) \in S
      /\ NeverDrops(If(c.nat, e), i)
  BY <1>3, <1>6 DEF If
<1>8. a \o If(c.sticky, b) \in S
  BY <1>3, <1>7
<1>9. (a \o If(c.sticky, b)) \o d \in S /\ Ends((a \o If(c.sticky, b)) \o d, i)
  <2> DEFINE x == a \o If(c.sticky, b)
  <2>1. x \in S
    BY <1>8
  <2> HIDE DEF x
  <2>2. x \o d \in S
    BY <1>3, <2>1
  <2>3. Ends(x \o d, i)
    BY <1>3, <1>5, <2>1, EndsJoin
  <2> QED BY <2>2, <2>3 DEF x
<1>10. Ends(InitIface(c, i), i)
  BY <1>4, <1>7, <1>9, EndsJoin
<1> QED BY <1>1, <1>2, <1>10

(* The parts of init.                                                      *)
LEMMA InitParts ==
    ASSUME NEW c \in Configs
    PROVE  LET n == If(c.nat, <<New(NAT), Flush(NAT), Flush(HOOK),
                                Insert(HOOK, NAT)>>)
               p == HookChain(PREROUTING, PRE)
               o == If(c.local, HookChain(OUTPUT, OUT))
               s == FlattenSeq([i \in 1..NumIfaces |-> InitIface(c, i)])
           IN  /\ InitCmds(c) = ((n \o p) \o o) \o s
               /\ n \in Seq(Commands) /\ p \in Seq(Commands)
               /\ o \in Seq(Commands) /\ s \in Seq(Commands)
               /\ \A h \in Hooks : n \in Seq(Calm(h))
               /\ p \in Seq(Calm(<<OUTPUT, OUT>>))
               /\ \A cmd \in Quiet : Spares(cmd, <<OUTPUT, OUT>>)
               /\ s \in Seq(Quiet)
               /\ \A i \in Ifaces : Ends(s, i)
<1> DEFINE a == <<New(NAT), Flush(NAT), Flush(HOOK), Insert(HOOK, NAT)>>
           n == If(c.nat, a)
           p == HookChain(PREROUTING, PRE)
           q == HookChain(OUTPUT, OUT)
           o == If(c.local, q)
           f == [i \in 1..NumIfaces |-> InitIface(c, i)]
           s == FlattenSeq(f)
<1>1. InitCmds(c) = ((n \o p) \o o) \o s
  BY DEF InitCmds, Each
<1>2. ASSUME NEW h \in Hooks, NEW cmd \in Quiet, Idle(cmd), cmd.op # "rule delete"
      PROVE  cmd \in Calm(h)
  BY <1>2, IdleFits DEF Calm, Quiet
<1>3. ASSUME NEW h \in Hooks PROVE a \in Seq(Calm(h))
  <2>1. {New(NAT), Flush(NAT), Flush(HOOK), Insert(HOOK, NAT)} \subseteq Quiet
    BY ChainNames, ChainsApart, QuietKinds
  <2>2. {New(NAT), Flush(NAT), Flush(HOOK)} \subseteq Calm(h)
    BY <2>1, <1>2, IdleKinds, KeepingKinds
  <2>3. Insert(HOOK, NAT) \in Calm(h)
    <3>1. HOOK # h[2] /\ NAT[1] # "MARK"
      BY DEF HOOK, NAT, Hooks, PRE, OUT
    <3>2. Mild(Insert(HOOK, NAT)) /\ Tame(Insert(HOOK, NAT), h)
      BY <3>1, AddKinds
    <3> QED BY <2>1, <3>2, KeepingKinds DEF Calm, Quiet
  <2> QED BY <2>2, <2>3
<1>4. \A h \in Hooks : n \in Seq(Calm(h))
  BY <1>3 DEF If
<1>5. p \in Seq(Calm(<<OUTPUT, OUT>>))
  <2> DEFINE h == <<OUTPUT, OUT>>
  <2>0. h \in Hooks /\ <<PREROUTING, PRE>> \in Hooks /\ h # <<PREROUTING, PRE>>
    BY ChainsApart DEF Hooks
  <2>1. {New(PRE), Flush(PRE), Add(PRE, ACCEPT), RemoveRule(PREROUTING, PRE)}
           \subseteq Quiet
    BY ChainNames, ChainsApart, QuietKinds
  <2>2. {New(PRE), Flush(PRE), RemoveRule(PREROUTING, PRE)} \subseteq Calm(h)
    BY <2>0, <2>1, <1>2, IdleKinds, KeepingKinds
  <2>3. Add(PRE, ACCEPT) \in Calm(h)
    <3>1. PRE # h[2] /\ ACCEPT[1] # "MARK"
      BY DEF ACCEPT, PRE, OUT
    <3>2. Mild(Add(PRE, ACCEPT)) /\ Tame(Add(PRE, ACCEPT), h)
      BY <3>1, AddKinds
    <3> QED BY <2>0, <2>1, <3>2, KeepingKinds DEF Calm, Quiet
  <2>4. Insert(PREROUTING, PRE) \in Calm(h)
    <3>1. PREROUTING # h[2] /\ PRE[1] # "MARK"
      BY DEF PREROUTING, PRE, OUT
    <3>2. Mild(Insert(PREROUTING, PRE)) /\ Tame(Insert(PREROUTING, PRE), h)
      BY <3>1, AddKinds
    <3>3. Insert(PREROUTING, PRE) \in Commands /\ Spares(Insert(PREROUTING, PRE), h)
      BY <2>0, HookParts
    <3> QED BY <3>2, <3>3, KeepingKinds DEF Calm
  <2> HIDE DEF h
  <2>5. p \in Seq(Calm(h))
    BY <2>2, <2>3, <2>4 DEF HookChain
  <2> QED BY <2>5 DEF h
<1>6. q \in Seq(Commands)
  <2>1. <<OUTPUT, OUT>> \in Hooks
    BY DEF Hooks
  <2>2. {New(OUT), Flush(OUT), Add(OUT, ACCEPT), RemoveRule(OUTPUT, OUT)}
           \subseteq Quiet
    BY ChainNames, ChainsApart, QuietKinds
  <2>3. Insert(OUTPUT, OUT) \in Commands
    BY <2>1, HookParts
  <2> QED BY <2>2, <2>3, QuietCommands DEF HookChain
<1>7. o \in Seq(Commands)
  BY <1>6 DEF If
<1>8. n \in Seq(Commands) /\ p \in Seq(Commands)
  <2>1. \A h : Calm(h) \subseteq Commands
    BY DEF Calm
  <2>2. <<OUTPUT, OUT>> \in Hooks
    BY DEF Hooks
  <2>3. n \in Seq(Calm(<<OUTPUT, OUT>>))
    BY <1>4, <2>2
  <2> HIDE DEF n, p
  <2> QED BY <1>5, <2>1, <2>3, SeqMonotone
<1>9. \A cmd \in Quiet : Spares(cmd, <<OUTPUT, OUT>>)
  BY DEF Quiet, Hooks
<1>10. s \in Seq(Quiet)
  <2>1. ASSUME NEW i \in Ifaces PROVE InitIface(c, i) \in Seq(Quiet)
    BY SetupType, SetupQuiet, SeqMonotone
  <2>2. f \in [1..NumIfaces -> Seq(Quiet)]
    BY <2>1 DEF Ifaces
  <2> HIDE DEF f
  <2> QED BY <2>2, FlattenType, NumIfacesAssumption
<1>11. s \in Seq(Commands)
  <2> HIDE DEF s
  <2> QED BY <1>10, QuietCommands, SeqMonotone
<1>12. ASSUME NEW i \in Ifaces PROVE Ends(s, i)
  <2> DEFINE P == {t \in Seq(Commands) : Ends(t, i) \/ NeverDrops(t, i)}
             Q == {t \in Seq(Commands) : Ends(t, i)}
  <2>1. \A t, u \in P : t \o u \in P
    BY EndsJoin
  <2>2. \A t \in P, u \in Q : t \o u \in Q /\ u \o t \in Q
    <3> SUFFICES ASSUME NEW t \in P, NEW u \in Q
                 PROVE  t \o u \in Q /\ u \o t \in Q
      OBVIOUS
    <3>1. t \o u \in Seq(Commands) /\ u \o t \in Seq(Commands)
      OBVIOUS
    <3>2. Ends(t \o u, i) /\ Ends(u \o t, i)
      BY EndsJoin
    <3> QED BY <3>1, <3>2
  <2>3. f \in [1..NumIfaces -> P]
    <3>1. \A j \in Ifaces : InitIface(c, j) \in P
      BY SetupEnds
    <3> HIDE DEF P
    <3> QED BY <3>1 DEF Ifaces
  <2>4. i \in 1..NumIfaces /\ f[i] \in Q
    BY SetupEnds DEF Ifaces
  <2>5. <<>> \in P
    BY DEF NeverDrops
  <2>6. s \in Q
    <3> HIDE DEF f, P, Q
    <3> QED BY <2>1, <2>2, <2>3, <2>4, <2>5, FlattenHas, NumIfacesAssumption
  <2> QED BY <2>6
<1> HIDE DEF n, p, o, s
<1> QED BY <1>1, <1>4, <1>5, <1>7, <1>8, <1>9, <1>10, <1>11, <1>12
        DEF n, p, o, s, a, q, f

(* Before anything leads from a hooked chain to a mark, init empties it;    *)
(* when init ends every interface has its policy rule; and it hooks local   *)
(* traffic only when it is to be balanced.                                  *)
LEMMA InitOrder ==
    ASSUME NEW c \in Configs
    PROVE  /\ \A i \in Ifaces : Ends(InitCmds(c), i)
           /\ \A h \in Hooks : (h[2] = OUT => c.local) =>
                 First(InitCmds(c), Flush(h[2]), Calm(h))
           /\ ~c.local => \A m \in 1..Len(InitCmds(c)) :
                             InitCmds(c)[m] # Insert(OUTPUT, OUT)
<1> DEFINE n == If(c.nat, <<New(NAT), Flush(NAT), Flush(HOOK),
                            Insert(HOOK, NAT)>>)
           p == HookChain(PREROUTING, PRE)
           o == If(c.local, HookChain(OUTPUT, OUT))
           s == FlattenSeq([i \in 1..NumIfaces |-> InitIface(c, i)])
           np == n \o p
           npo == np \o o
           out == <<OUTPUT, OUT>>
           pre == <<PREROUTING, PRE>>
<1>1. /\ InitCmds(c) = npo \o s
      /\ n \in Seq(Commands) /\ p \in Seq(Commands)
      /\ o \in Seq(Commands) /\ s \in Seq(Commands)
      /\ \A h \in Hooks : n \in Seq(Calm(h))
      /\ p \in Seq(Calm(out))
      /\ \A cmd \in Quiet : Spares(cmd, out)
      /\ s \in Seq(Quiet)
      /\ \A i \in Ifaces : Ends(s, i)
  BY InitParts
<1>2. First(p, Flush(PRE), Calm(pre))
  <2>1. p = <<New(PRE), Flush(PRE), Add(PRE, ACCEPT), RemoveRule(PREROUTING, PRE),
              Insert(PREROUTING, PRE)>>
    BY DEF HookChain
  <2>2. New(PRE) \in Quiet
    BY ChainNames, QuietKinds
  <2>3. New(PRE) \in Calm(pre)
    <3>1. pre \in Hooks
      BY DEF Hooks
    <3>2. Idle(New(PRE)) /\ New(PRE).op # "rule delete"
      BY IdleKinds, KeepingKinds
    <3> QED BY <2>2, <3>1, <3>2, IdleFits DEF Calm, Quiet
  <2>4. Len(p) = 5 /\ p[1] = New(PRE) /\ p[2] = Flush(PRE)
    BY <2>1
  <2> HIDE DEF p, pre
  <2>5. 2 \in 1..Len(p) /\ \A m \in 1..(2 - 1) : p[m] \in Calm(pre)
    BY <2>3, <2>4
  <2> QED BY <2>4, <2>5 DEF First
<1>3. c.local => First(o, Flush(OUT), Calm(out))
  <2> SUFFICES ASSUME c.local PROVE First(o, Flush(OUT), Calm(out))
    OBVIOUS
  <2>1. o = <<New(OUT), Flush(OUT), Add(OUT, ACCEPT), RemoveRule(OUTPUT, OUT),
              Insert(OUTPUT, OUT)>>
    BY DEF HookChain, If
  <2>2. New(OUT) \in Quiet
    BY ChainNames, QuietKinds
  <2>3. New(OUT) \in Calm(out)
    <3>1. out \in Hooks
      BY DEF Hooks
    <3>2. Idle(New(OUT)) /\ New(OUT).op # "rule delete"
      BY IdleKinds, KeepingKinds
    <3> QED BY <2>2, <3>1, <3>2, IdleFits DEF Calm, Quiet
  <2> HIDE DEF o, out
  <2>4. Len(o) = 5 /\ o[1] = New(OUT) /\ o[2] = Flush(OUT)
    BY <2>1
  <2>5. 2 \in 1..Len(o) /\ \A m \in 1..(2 - 1) : o[m] \in Calm(out)
    BY <2>3, <2>4
  <2> QED BY <2>4, <2>5 DEF First
<1>4. pre \in Hooks /\ out \in Hooks /\ \A h \in Hooks : h = pre \/ h = out
  BY DEF Hooks
<1>5. ~c.local => o = <<>>
  BY DEF If
<1>11. \A x, y : HookChain(x, y) = <<New(y), Flush(y), Add(y, ACCEPT),
                                     RemoveRule(x, y), Insert(x, y)>>
  BY DEF HookChain
<1> HIDE DEF n, p, o, s
<1>6. np \in Seq(Commands)
  BY <1>1
<1>7. npo \in Seq(Commands)
  BY <1>1, <1>6
<1> HIDE DEF npo, np
<1>8. ASSUME NEW i \in Ifaces PROVE Ends(InitCmds(c), i)
  BY <1>1, <1>7, EndsJoin
<1>9. ASSUME NEW h \in Hooks, h[2] = OUT => c.local
      PROVE  First(InitCmds(c), Flush(h[2]), Calm(h))
  <2>1. First(npo, Flush(h[2]), Calm(h))
    <3>1. CASE h = pre
      <4>1. First(np, Flush(PRE), Calm(pre))
        BY <1>1, <1>2, <1>4, FirstJoin DEF np
      <4>2. First(npo, Flush(PRE), Calm(pre))
        BY <1>1, <1>6, <4>1, FirstJoin DEF npo
      <4> QED BY <4>2, <3>1
    <3>2. CASE h = out
      <4>1. n \in Seq(Calm(out)) /\ p \in Seq(Calm(out))
        BY <1>1, <1>4
      <4>2. np \in Seq(Calm(out))
        BY <4>1 DEF np
      <4>3. First(npo, Flush(OUT), Calm(out))
        BY <1>1, <1>3, <1>6, <3>2, <1>9, <4>2, FirstJoin DEF npo
      <4> QED BY <4>3, <3>2
    <3> QED BY <1>4, <3>1, <3>2
  <2> QED BY <2>1, <1>1, <1>7, FirstJoin
<1>10. ASSUME ~c.local, NEW m \in 1..Len(InitCmds(c))
       PROVE  InitCmds(c)[m] # Insert(OUTPUT, OUT)
  <2> DEFINE T == {cmd \in Commands : Spares(cmd, out)}
  <2>1. n \in Seq(T) /\ p \in Seq(T)
    <3>1. Calm(out) \subseteq T
      BY DEF Calm
    <3> HIDE DEF T
    <3> QED BY <1>1, <1>4, <3>1, SeqMonotone
  <2>2. s \in Seq(T)
    <3>1. Quiet \subseteq T
      BY <1>1, QuietCommands
    <3> HIDE DEF T
    <3> QED BY <1>1, <3>1, SeqMonotone
  <2>3. Insert(OUTPUT, OUT) \notin T
    BY DEF Spares, Insert, Command
  <2> HIDE DEF T
  <2>4. np \in Seq(T)
    BY <2>1 DEF np
  <2>8. o = <<>>
    BY <1>5, <1>10
  <2>7. o \in Seq(T)
    BY <2>8
  <2>5. npo \in Seq(T)
    BY <2>4, <2>7 DEF npo
  <2>6. InitCmds(c) \in Seq(T)
    BY <2>5, <2>2, <1>1
  <2> QED BY <2>3, <2>6
<1> QED BY <1>8, <1>9, <1>10

(* Shutdown unhooks the chains before it takes a policy rule away, and     *)
(* empties the chains of all interfaces.                                   *)
LEMMA EndOrder ==
    ASSUME NEW c \in Configs
    PROVE  /\ \A h \in Hooks : (h[2] = OUT => c.local) =>
                 First(ShutdownCmds(c), RemoveRule(h[1], h[2]), Keeping)
           /\ \A i \in Ifaces : Contains(ShutdownCmds(c), Flush(ISP(i)))
<1> DEFINE one(r) == If(c.rules[r].limit,
                        Both(c, <<Flush(PreLimit(r)), Delete(PreLimit(r))>>,
                                <<Flush(OutLimit(r)), Delete(OutLimit(r))>>))
           f == [r \in 1..Len(c.rules) |-> one(r)]
           a == UnhookChain(PREROUTING, PRE)
           b == If(c.local, UnhookChain(OUTPUT, OUT))
           d == <<Flush(NAT), Delete(NAT), Flush(HOOK)>>
           ab == a \o b
           e == FlattenSeq(f) \o d
           g == [i \in 1..NumIfaces |-> ShutdownIface(c, i)]
           s == FlattenSeq(g)
<1>1. ShutdownChains(c) = (ab \o FlattenSeq(f)) \o d
  BY DEF ShutdownChains, Each
<1>2. ShutdownCmds(c) = ShutdownChains(c) \o s
  BY DEF ShutdownCmds, ShutdownIfaces, Each
<1>3. /\ a = <<RemoveRule(PREROUTING, PRE), Flush(PRE), Delete(PRE)>>
      /\ b = IF c.local THEN <<RemoveRule(OUTPUT, OUT), Flush(OUT), Delete(OUT)>>
             ELSE <<>>
  BY DEF UnhookChain, If
<1>4. /\ a \in Seq(Keeping)
      /\ b \in Seq(Keeping)
      /\ First(a, RemoveRule(PREROUTING, PRE), Keeping)
      /\ c.local => First(b, RemoveRule(OUTPUT, OUT), Keeping)
  <2>1. {RemoveRule(PREROUTING, PRE), Flush(PRE), Delete(PRE),
         RemoveRule(OUTPUT, OUT), Flush(OUT), Delete(OUT)} \subseteq Keeping
    <3>1. {RemoveRule(PREROUTING, PRE), Flush(PRE), Delete(PRE),
           RemoveRule(OUTPUT, OUT), Flush(OUT), Delete(OUT)} \subseteq Quiet
      BY ChainNames, ChainsApart, QuietKinds
    <3> QED BY <3>1, QuietCommands, KeepingKinds DEF Keeping
  <2> HIDE DEF a, b
  <2>2. a \in Seq(Keeping)
    BY <1>3, <2>1
  <2>3. b \in Seq(Keeping)
    BY <1>3, <2>1
  <2>4. First(a, RemoveRule(PREROUTING, PRE), Keeping)
    BY <1>3 DEF First
  <2>5. c.local => First(b, RemoveRule(OUTPUT, OUT), Keeping)
    BY <1>3 DEF First
  <2> QED BY <2>2, <2>3, <2>4, <2>5
<1>5. FlattenSeq(f) \in Seq(Commands)
  <2>1. ASSUME NEW r \in 1..Len(c.rules) PROVE one(r) \in Seq(Commands)
    <3>1. PreLimit(r) \in LimitChains /\ OutLimit(r) \in LimitChains
      BY DEF LimitChains
    <3>2. {Flush(PreLimit(r)), Delete(PreLimit(r)), Flush(OutLimit(r)),
           Delete(OutLimit(r))} \subseteq Commands
      BY <3>1, LimitNames, QuietKinds, ChainNames, QuietCommands
    <3>3. /\ <<Flush(PreLimit(r)), Delete(PreLimit(r))>> \in Seq(Commands)
          /\ <<Flush(OutLimit(r)), Delete(OutLimit(r))>> \in Seq(Commands)
      BY <3>2
    <3>4. Both(c, <<Flush(PreLimit(r)), Delete(PreLimit(r))>>,
                  <<Flush(OutLimit(r)), Delete(OutLimit(r))>>) \in Seq(Commands)
      BY <3>3, BothType
    <3> QED BY <3>4 DEF If
  <2>2. f \in [1..Len(c.rules) -> Seq(Commands)]
    <3> HIDE DEF one
    <3> QED BY <2>1
  <2> HIDE DEF f
  <2> QED BY <2>2, FlattenType, ConfigParts
<1>6. d \in Seq(Commands)
  BY ChainNames, ChainsApart, QuietKinds, QuietCommands
<1>7. ASSUME NEW i \in Ifaces
      PROVE  /\ ShutdownIface(c, i) \in Seq(Commands)
             /\ Contains(ShutdownIface(c, i), Flush(ISP(i)))
  <2> DEFINE x == <<RuleDelete(i), RouteFlush(i), Flush(ISP(i)), Delete(ISP(i))>>
             y == If(c.sticky, <<RemoveRule(PREROUTING, INBOUND(i)),
                                 Flush(INBOUND(i)), Delete(INBOUND(i))>>)
             u == x \o y
  <2>1. x \in Seq(EndSet) /\ y \in Seq(EndSet)
    <3>1. CleanCmds(i) \subseteq EndSet
      BY DEF EndSet
    <3>2. x \in Seq(CleanCmds(i))
      BY DEF CleanCmds
    <3>3. y \in Seq(CleanCmds(i))
      <4> DEFINE z == <<RemoveRule(PREROUTING, INBOUND(i)), Flush(INBOUND(i)),
                        Delete(INBOUND(i))>>
      <4>1. z \in Seq(CleanCmds(i))
        BY DEF CleanCmds
      <4> HIDE DEF z
      <4>2. If(c.sticky, z) \in Seq(CleanCmds(i))
        BY <4>1, ConfigParts, IfType
      <4> QED BY <4>2 DEF z
    <3> HIDE DEF x, y
    <3> QED BY <3>1, <3>2, <3>3, SeqMonotone
  <2>2. ShutdownIface(c, i) = u
    BY DEF ShutdownIface
  <2>3. Len(x) = 4 /\ x[3] = Flush(ISP(i))
    OBVIOUS
  <2>4. EndSet \subseteq Commands
    BY EndQuiet, QuietCommands
  <2> HIDE DEF x, y
  <2>5. x \in Seq(Commands) /\ y \in Seq(Commands)
    BY <2>1, <2>4, SeqMonotone
  <2>6. u \in Seq(Commands) /\ 3 \in 1..Len(u) /\ u[3] = x[3]
    <3>1. /\ u \in Seq(Commands) /\ Len(u) = Len(x) + Len(y)
          /\ Len(x) \in Nat /\ Len(y) \in Nat
          /\ \A n \in 1..Len(x) : u[n] = x[n]
      BY <2>5, Joined
    <3> HIDE DEF u
    <3>2. 3 \in 1..Len(x) /\ 3 \in 1..Len(u)
      BY <2>3, <3>1
    <3> QED BY <3>1, <3>2
  <2> QED BY <2>2, <2>3, <2>6 DEF Contains
<1>8. g \in [1..NumIfaces -> Seq(Commands)]
  BY <1>7 DEF Ifaces
<1>9. s \in Seq(Commands)
  <2> HIDE DEF g
  <2> QED BY <1>8, FlattenType, NumIfacesAssumption
<1>10. ASSUME NEW i \in Ifaces PROVE Contains(s, Flush(ISP(i)))
  <2> DEFINE Q == {t \in Seq(Commands) : Contains(t, Flush(ISP(i)))}
  <2>1. \A t \in Seq(Commands), u \in Q : t \o u \in Q /\ u \o t \in Q
    <3> SUFFICES ASSUME NEW t \in Seq(Commands), NEW u \in Q
                 PROVE  t \o u \in Q /\ u \o t \in Q
      OBVIOUS
    <3>1. PICK n \in 1..Len(u) : u[n] = Flush(ISP(i))
      BY DEF Contains
    <3>2. n \in 1..Len(u \o t) /\ (u \o t)[n] = u[n] /\ u \o t \in Seq(Commands)
      OBVIOUS
    <3> DEFINE p == Len(t) + n
    <3>3. t \o u \in Seq(Commands) /\ p \in 1..Len(t \o u) /\ (t \o u)[p] = u[n]
      <4> DEFINE w == t \o u
      <4>1. /\ w \in Seq(Commands) /\ Len(w) = Len(t) + Len(u)
            /\ Len(t) \in Nat /\ Len(u) \in Nat
            /\ \A m \in 1..Len(u) : w[Len(t) + m] = u[m]
        BY Joined
      <4> HIDE DEF w
      <4>2. w[Len(t) + n] = u[n] /\ p \in 1..Len(w)
        BY <4>1
      <4> QED BY <4>1, <4>2 DEF w
    <3> QED BY <3>1, <3>2, <3>3 DEF Contains
  <2>2. i \in 1..NumIfaces /\ g[i] \in Q
    BY <1>7 DEF Ifaces
  <2>3. \A t, u \in Seq(Commands) : t \o u \in Seq(Commands)
    OBVIOUS
  <2>4. <<>> \in Seq(Commands)
    OBVIOUS
  <2>5. s \in Q
    <3> HIDE DEF g, Q
    <3> QED BY <1>8, <2>1, <2>2, <2>3, <2>4, FlattenHas, NumIfacesAssumption
  <2> QED BY <2>5
<1> HIDE DEF a, b, d, s, f
<1>11. a \in Seq(Commands) /\ b \in Seq(Commands)
  <2>1. Keeping \subseteq Commands
    BY DEF Keeping
  <2> QED BY <1>4, <2>1, SeqMonotone
<1>12. ab \in Seq(Commands) /\ ab \in Seq(Keeping)
  BY <1>4, <1>11
<1>13. ASSUME NEW h \in Hooks, h[2] = OUT => c.local
       PROVE  First(ab, RemoveRule(h[1], h[2]), Keeping)
  <2>1. CASE h = <<PREROUTING, PRE>>
    BY <2>1, <1>4, <1>11, FirstJoin
  <2>2. CASE h = <<OUTPUT, OUT>>
    BY <2>2, <1>13, <1>4, <1>11, FirstJoin
  <2> QED BY <2>1, <2>2 DEF Hooks
<1> HIDE DEF ab
<1>14. /\ ab \o FlattenSeq(f) \in Seq(Commands)
       /\ ShutdownChains(c) \in Seq(Commands)
  <2>1. ab \o FlattenSeq(f) \in Seq(Commands)
    BY <1>5, <1>12
  <2> QED BY <2>1, <1>1, <1>6
<1>15. ASSUME NEW h \in Hooks, h[2] = OUT => c.local
       PROVE  First(ShutdownCmds(c), RemoveRule(h[1], h[2]), Keeping)
  <2>1. First(ab \o FlattenSeq(f), RemoveRule(h[1], h[2]), Keeping)
    BY <1>5, <1>12, <1>13, <1>15, FirstJoin
  <2>2. First(ShutdownChains(c), RemoveRule(h[1], h[2]), Keeping)
    BY <2>1, <1>1, <1>6, <1>14, FirstJoin
  <2> QED BY <2>2, <1>2, <1>9, <1>14, FirstJoin
<1>16. ASSUME NEW i \in Ifaces PROVE Contains(ShutdownCmds(c), Flush(ISP(i)))
  <2> DEFINE u == ShutdownChains(c)
             w == u \o s
  <2>1. PICK n \in 1..Len(s) : s[n] = Flush(ISP(i))
    BY <1>10 DEF Contains
  <2>2. /\ w \in Seq(Commands) /\ Len(w) = Len(u) + Len(s)
        /\ Len(u) \in Nat /\ Len(s) \in Nat
        /\ \A m \in 1..Len(s) : w[Len(u) + m] = s[m]
    BY <1>9, <1>14, Joined
  <2> DEFINE p == Len(u) + n
  <2>3. ShutdownCmds(c) = w
    BY <1>2
  <2> HIDE DEF u, w
  <2>4. p \in 1..Len(w) /\ w[p] = Flush(ISP(i))
    BY <2>1, <2>2
  <2> QED BY <2>3, <2>4 DEF Contains
<1> QED BY <1>15, <1>16

-----------------------------------------------------------------------------
(* The steps of the kernel that keep these.                                *)
LEMMA ShapeStep ==
    ASSUME NEW k \in Kernels, NEW cmd \in Commands, Shape(k), FitCmd(cmd)
    PROVE  Shape(Executed(k, cmd))
<1> SUFFICES ASSUME NEW b, NEW t, Jumps(Executed(k, cmd), b, t) PROVE Fits(b, t)
  BY DEF Shape
<1>1. Jumps(k, b, t) \/ Adds(cmd, b, t)
  BY JumpsAfter
<1>2. CASE Jumps(k, b, t)
  BY <1>2 DEF Shape
<1>3. CASE Adds(cmd, b, t)
  BY <1>3 DEF Adds, FitCmd
<1> QED BY <1>1, <1>2, <1>3

LEMMA UnhookedStep ==
    ASSUME NEW k \in Kernels, NEW cmd \in Commands, NEW h, Unhooked(k, h),
           Spares(cmd, h)
    PROVE  Unhooked(Executed(k, cmd), h)
<1>1. ~Adds(cmd, h[1], h[2])
  BY DEF Adds, Spares
<1> QED BY <1>1, JumpsAfter DEF Unhooked

LEMMA ClearStep ==
    ASSUME NEW k \in Kernels, NEW cmd \in Commands, NEW h,
           (Clear(k, h) /\ Tame(cmd, h)) \/ cmd = Flush(h[2])
    PROVE  Clear(Executed(k, cmd), h)
<1> SUFFICES ASSUME NEW t, Jumps(Executed(k, cmd), h[2], t)
             PROVE  t[1] \in Verdicts
  BY DEF Clear
<1>1. /\ Jumps(k, h[2], t) \/ Adds(cmd, h[2], t)
      /\ ~(cmd.op = "flush" /\ cmd.about = h[2])
  BY JumpsAfter
<1>2. Flush(h[2]).op = "flush" /\ Flush(h[2]).about = h[2]
  BY DEF Flush, Command
<1>3. Clear(k, h) /\ Tame(cmd, h)
  BY <1>1, <1>2
<1> QED BY <1>1, <1>3 DEF Clear, Tame, Adds

LEMMA MarksStep ==
    ASSUME NEW k \in Kernels, NEW cmd \in Commands, NEW i, Mild(cmd),
           Marks(Executed(k, cmd), i)
    PROVE  Marks(k, i) /\ cmd # Flush(ISP(i))
<1>1. /\ Jumps(k, ISP(i), MARK(i)) \/ Adds(cmd, ISP(i), MARK(i))
      /\ ~(cmd.op = "flush" /\ cmd.about = ISP(i))
  BY JumpsAfter DEF Marks
<1>2. Flush(ISP(i)).op = "flush" /\ Flush(ISP(i)).about = ISP(i)
  BY DEF Flush, Command
<1>3. ~Adds(cmd, ISP(i), MARK(i))
  <2>1. MARK(i)[1] = "MARK"
    BY DEF MARK
  <2> QED BY <2>1 DEF Adds, Mild
<1> QED BY <1>1, <1>2, <1>3 DEF Marks

LEMMA RulesStep ==
    ASSUME NEW k \in Kernels, NEW cmd \in Commands, cmd.op # "rule delete",
           Ifaces \subseteq k.rules
    PROVE  Ifaces \subseteq Executed(k, cmd).rules
<1> SUFFICES ASSUME NEW i \in Ifaces PROVE i \in Executed(k, cmd).rules
  OBVIOUS
<1>1. i \in Int /\ i \in k.rules
  BY LimitNames
<1>2. ~Drops(cmd, i)
  BY DEF Drops
<1> QED BY <1>1, <1>2, PolicyAfter

LEMMA RoutedStep ==
    ASSUME NEW k \in Kernels, NEW cmd \in Commands, NEW S, NEW T, Routed(k, S),
           Mild(cmd), T \subseteq S, cmd \in S \/ cmd.op # "rule delete"
    PROVE  Routed(Executed(k, cmd), T)
<1> DEFINE e == Executed(k, cmd)
<1> SUFFICES ASSUME NEW i \in Ifaces, Marks(e, i)
             PROVE  i \in e.rules /\ \A c \in T : ~Drops(c, i)
  BY DEF Routed
<1>1. Marks(k, i)
  BY MarksStep
<1>2. i \in k.rules /\ \A c \in S : ~Drops(c, i)
  BY <1>1 DEF Routed
<1>3. ~Drops(cmd, i)
  BY <1>2 DEF Drops
<1>4. i \in Int
  BY LimitNames
<1>5. i \in e.rules
  BY <1>2, <1>3, <1>4, PolicyAfter
<1> QED BY <1>2, <1>5

LEMMA CalmStep ==
    ASSUME NEW k \in Kernels, NEW h \in Hooks, NEW cmd \in Calm(h), NEW S,
           Safe(k, S, h)
    PROVE  Safe(Executed(k, cmd), S, h)
<1>1. /\ cmd \in Commands /\ cmd.op # "rule delete" /\ Mild(cmd)
      /\ Spares(cmd, h) /\ Tame(cmd, h)
  BY DEF Calm
<1>2. CASE Unhooked(k, h)
  BY <1>1, <1>2, UnhookedStep DEF Safe
<1>3. CASE Clear(k, h) /\ S = {}
  BY <1>1, <1>3, ClearStep DEF Safe
<1>4. CASE Routed(k, S)
  BY <1>1, <1>4, RoutedStep DEF Safe
<1> QED BY <1>2, <1>3, <1>4 DEF Safe

LEMMA LateStep ==
    ASSUME NEW k \in Kernels, NEW h \in Hooks, NEW S, NEW cmd \in S,
           cmd \in Commands, Spares(cmd, h), Mild(cmd), Safe(k, S, h)
    PROVE  Safe(Executed(k, cmd), S \ {cmd}, h)
<1>2. CASE Unhooked(k, h)
  BY <1>2, UnhookedStep DEF Safe
<1>4. CASE Routed(k, S)
  <2> DEFINE T == S \ {cmd}
  <2>1. T \subseteq S
    OBVIOUS
  <2> HIDE DEF T
  <2>2. Routed(Executed(k, cmd), T)
    BY <1>4, <2>1, RoutedStep
  <2> QED BY <2>2 DEF Safe, T
<1> QED BY <1>2, <1>4 DEF Safe

(* With all policy rules in place every hook is safe.                      *)
LEMMA RulesSafe ==
    ASSUME NEW k, NEW S, NEW h, Ifaces \subseteq k.rules,
           \A cmd \in S : cmd.op # "rule delete"
    PROVE  Safe(k, S, h)
BY DEF Safe, Routed, Drops

-----------------------------------------------------------------------------
(* No command is overtaken before there are handlers.                      *)
LEMMA NoOrphans ==
    ASSUME IInv, proc \in {"forked", "init", "test", "apply", "run"}
    PROVE  orphans = {}
<1>1. handling = {}
  BY DEF IInv, TypeOK
<1>2. IsFiniteSet(orphans) /\ Cardinality(orphans) <= Cardinality(handling)
  BY DEF IInv, OrphansInv, Running
<1>3. Cardinality(handling) = 0 /\ Cardinality(orphans) \in Nat
  BY <1>1, <1>2, FS_EmptySet, FS_CardinalityType
<1>4. Cardinality(orphans) = 0
  BY <1>2, <1>3
<1> QED BY <1>2, <1>4, FS_EmptySet

LEMMA TwoHooks ==
    ASSUME NEW h \in Hooks
    PROVE  (h = <<PREROUTING, PRE>> /\ h[2] # OUT) \/ h = <<OUTPUT, OUT>>
<1> DEFINE pre == <<PREROUTING, PRE>>
           out == <<OUTPUT, OUT>>
<1>1. h = pre \/ h = out
  BY DEF Hooks
<1>2. pre[2] # OUT
  BY ChainsApart
<1> HIDE DEF pre, out
<1>3. (h = pre /\ h[2] # OUT) \/ h = out
  BY <1>1, <1>2
<1> QED BY <1>3 DEF pre, out

(* A hook this instance does not work on none of them did.                 *)
LEMMA AlikeFeeds ==
    ASSUME NEW h \in Hooks, Alike(h), ~Feeds(h)
    PROVE  h = <<OUTPUT, OUT>> /\ NoneLocal /\ ~cfg.local
<1>1. h[2] = OUT /\ ~cfg.local
  BY DEF Feeds
<1>2. ~(\A c \in left \cup {cfg} : c.local)
  BY <1>1
<1>3. NoneLocal
  BY <1>1, <1>2 DEF Alike
<1>4. h = <<OUTPUT, OUT>>
  BY <1>1, TwoHooks
<1> QED BY <1>1, <1>3, <1>4

LEMMA InitMInv == Init => MInv
<1> SUFFICES ASSUME Init PROVE MInv
  OBVIOUS
<1>1. ASSUME NEW b, NEW t PROVE ~Jumps(kernel, b, t)
  BY DEF Init, Bare, Jumps, Exists, Contains
<1>2. proc = "off" /\ todo = <<>> /\ orphans = {} /\ left = {}
  BY DEF Init
<1>3. ListsInv
  BY <1>1, <1>2 DEF ListsInv, Shape
<1>4. PhaseInv /\ PolicyInv /\ MarksInv
  BY <1>1, <1>2 DEF PhaseInv, PolicyInv, MarksInv, Marks
<1>5. LocalInv
  BY <1>1, <1>2 DEF LocalInv, Unhooked
<1>6. SafeInv
  BY <1>1 DEF SafeInv, Safe, Unhooked
<1> QED BY <1>3, <1>4, <1>5, <1>6, InitInv DEF MInv, RouteInv

(* Behind a safe hook marks are routed.                                    *)
LEMMA SafeMarked ==
    ASSUME HookInv, Shape(kernel), NEW h \in Hooks, Safe(kernel, orphans, h)
    PROVE  Marked(h[1]) \subseteq kernel.rules
<1> DEFINE D == DOMAIN kernel.chains
<1>1. h[1] \in D
  BY DEF HookInv
<1>2. ASSUME NEW b \in D, NEW t \in Range(kernel.chains[b])
      PROVE  Jumps(kernel, b, t) /\ Fits(b, t)
  <2>1. kernel.chains[b] \in Seq(Names)
    BY KernelParts DEF HookInv
  <2>2. PICK n \in DOMAIN kernel.chains[b] : kernel.chains[b][n] = t
    BY DEF Range
  <2>3. n \in 1..Len(kernel.chains[b])
    BY <2>1, <2>2
  <2>4. Jumps(kernel, b, t)
    BY <2>2, <2>3 DEF Jumps, Exists, Contains
  <2> QED BY <2>4 DEF Shape
<1>3. ASSUME NEW S \in SUBSET D PROVE Entered(S) \in SUBSET D
  BY DEF Entered
<1>4. Entered(Entered(Entered({h[1]}))) \in SUBSET D
  <2>1. {h[1]} \in SUBSET D
    BY <1>1
  <2> QED BY <2>1, <1>3
<1> SUFFICES ASSUME NEW i \in Ifaces, i \in Marked(h[1]) PROVE i \in kernel.rules
  BY DEF Marked
<1>5. PICK c \in Entered(Entered(Entered({h[1]}))) :
         MARK(i) \in Range(kernel.chains[c])
  BY DEF Marked
<1>6. Jumps(kernel, c, MARK(i)) /\ Fits(c, MARK(i))
  BY <1>2, <1>4, <1>5
<1>7. c = ISP(i)
  <2>1. MARK(i)[1] = "MARK" /\ MARK(i)[2] = i
    BY DEF MARK
  <2> QED BY <2>1, <1>6 DEF Fits
<1>8. CASE Routed(kernel, orphans)
  BY <1>6, <1>7, <1>8 DEF Routed, Marks
<1>9. CASE Unhooked(kernel, h) \/ Clear(kernel, h)
  <2> DEFINE G == {x \in D : \/ x = h[1] \/ x[1] = "ISP_IN" \/ x[1] \in Verdicts
                             \/ x = h[2] /\ Clear(kernel, h)}
  <2>1. ASSUME NEW b \in G, NEW t \in D, t \in Range(kernel.chains[b])
        PROVE  t \in G
    <3>0. b \in D /\ Jumps(kernel, b, t) /\ Fits(b, t)
      BY <1>2, <2>1
    <3>1. CASE b = h[1]
      <4>1. t = h[2] \/ t[1] = "ISP_IN"
        <5>1. CASE h = <<PREROUTING, PRE>>
          <6>1. h[1] = PREROUTING /\ h[2] = PRE
            BY <5>1
          <6> QED BY <6>1, <3>0, <3>1 DEF Fits
        <5>2. CASE h = <<OUTPUT, OUT>>
          <6>1. h[1] = OUTPUT /\ h[2] = OUT
            BY <5>2
          <6> QED BY <6>1, <3>0, <3>1 DEF Fits
        <5> QED BY <5>1, <5>2, TwoHooks
      <4>2. t = h[2] => Clear(kernel, h)
        BY <3>0, <3>1, <1>9 DEF Unhooked
      <4> QED BY <4>1, <4>2
    <3>2. CASE b[1] = "ISP_IN"
      BY <3>0, <3>2 DEF Fits, Verdicts
    <3>3. CASE b[1] \in Verdicts
      BY <3>0, <3>3 DEF Fits
    <3>4. CASE b = h[2] /\ Clear(kernel, h)
      BY <3>0, <3>4 DEF Clear
    <3> QED BY <3>1, <3>2, <3>3, <3>4
  <2> HIDE DEF G
  <2>2. ASSUME NEW S \in SUBSET G PROVE Entered(S) \in SUBSET G
    BY <2>1 DEF Entered
  <2>3. {h[1]} \in SUBSET G
    BY <1>1 DEF G
  <2>4. c \in G
    BY <2>2, <2>3, <1>5
  <2>5. ISP(i) # h[1] /\ ISP(i) # h[2] /\ ISP(i)[1] = "ISP"
    <3>1. h[1] \in {PREROUTING, OUTPUT} /\ h[2] \in {PRE, OUT}
      BY DEF Hooks
    <3>2. ISP(i)[1] = "ISP"
      BY DEF ISP
    <3> QED BY <3>1, <3>2, ChainsApart
  <2> QED BY <2>4, <2>5, <1>7 DEF G, Verdicts
<1> QED BY <1>8, <1>9 DEF Safe

LEMMA MInvMarked == MInv => MarkedIsRouted
<1> SUFFICES ASSUME MInv, faults = 0
             PROVE  /\ Marked(PREROUTING) \subseteq kernel.rules
                    /\ (\A c \in left \cup {cfg} : c.local)
                       \/ (\A c \in left : ~c.local) =>
                           Marked(OUTPUT) \subseteq kernel.rules
  BY DEF MarkedIsRouted
<1>1. HookInv /\ Shape(kernel) /\ SafeInv
  BY DEF MInv, IInv, ListsInv, RouteInv
<1>2. ASSUME NEW h \in Hooks, Alike(h) PROVE Marked(h[1]) \subseteq kernel.rules
  BY <1>1, <1>2, SafeMarked DEF SafeInv
<1>3. Marked(PREROUTING) \subseteq kernel.rules
  <2> DEFINE h == <<PREROUTING, PRE>>
  <2>1. h \in Hooks /\ h[1] = PREROUTING /\ h[2] # OUT
    BY ChainsApart DEF Hooks
  <2> HIDE DEF h
  <2>2. Alike(h)
    BY <2>1 DEF Alike
  <2> QED BY <2>1, <2>2, <1>2
<1>4. ASSUME (\A c \in left \cup {cfg} : c.local) \/ (\A c \in left : ~c.local)
      PROVE  Marked(OUTPUT) \subseteq kernel.rules
  <2> DEFINE h == <<OUTPUT, OUT>>
  <2>1. h \in Hooks /\ h[1] = OUTPUT
    BY DEF Hooks
  <2> HIDE DEF h
  <2>2. Alike(h)
    BY <1>4 DEF Alike, NoneLocal
  <2> QED BY <2>1, <2>2, <1>2
<1> QED BY <1>3, <1>4

-----------------------------------------------------------------------------
(* No quiet command hooks local traffic.                                   *)
LEMMA QuietHooks ==
    ASSUME NEW s \in Seq(Quiet)
    PROVE  \A n \in 1..Len(s) : s[n] # Insert(OUTPUT, OUT)
<1>1. Insert(OUTPUT, OUT) \in HookCmds
  BY DEF HookCmds, Hooks
<1>2. \A n \in 1..Len(s) : s[n] \in Quiet
  OBVIOUS
<1> QED BY <1>1, <1>2, HookLoud

(* One command, in init.                                                   *)
LEMMA ExecutedInInit ==
    ASSUME MInv, faults = 0, proc = "init", todo # <<>>,
           kernel' = Executed(kernel, todo[1]), todo' = Tail(todo),
           UNCHANGED <<proc, cfg, left, orphans>>
    PROVE  RouteInv'
<1> DEFINE cmd == todo[1]
           out == <<OUTPUT, OUT>>
<1>0. /\ kernel \in Kernels /\ todo \in Seq(InitSet) /\ orphans = {}
      /\ todo \in Seq(Quiet \cup HookCmds) /\ RouteInv
  BY NoOrphans DEF MInv, IInv, ListsInv, HookInv, TodoInv
<1>1. /\ cmd \in InitSet /\ cmd \in Quiet \cup HookCmds /\ cmd \in Commands
      /\ Len(todo') = Len(todo) - 1 /\ Len(todo) \in Nat \ {0}
      /\ \A n \in 1..(Len(todo) - 1) : todo'[n] = todo[n + 1]
  BY <1>0, Tailed, QuietCommands
<1>2. \A h \in Hooks : Tame(cmd, h)
  BY <1>1, InitFits
<1>3. kernel' = Executed(kernel, cmd) /\ todo' = Tail(todo)
  OBVIOUS
<1> HIDE DEF cmd
<1>4. ASSUME NEW h \in Hooks, Feeds(h)
      PROVE  \/ Clear(kernel', h)
             \/ cmd \in Calm(h) /\ First(todo', Flush(h[2]), Calm(h))
  <2>1. InitSafe(h)
    BY <1>0, <1>4 DEF RouteInv, PhaseInv
  <2>2. CASE Clear(kernel, h)
    BY <2>2, <1>0, <1>1, <1>2, <1>3, ClearStep
  <2>3. CASE First(todo, Flush(h[2]), Calm(h))
    <3>1. \/ cmd = Flush(h[2])
          \/ cmd \in Calm(h) /\ First(todo', Flush(h[2]), Calm(h))
      BY <2>3, <1>0, <1>3, FirstTail DEF cmd
    <3>2. cmd = Flush(h[2]) => Clear(kernel', h)
      BY <1>0, <1>1, <1>3, ClearStep
    <3> QED BY <3>1, <3>2
  <2> QED BY <2>1, <2>2, <2>3 DEF InitSafe
<1>5. PhaseInv'
  <2>1. \A h \in Hooks : Feeds(h) => InitSafe(h)'
    BY <1>4 DEF InitSafe
  <2> QED BY <2>1 DEF PhaseInv, Feeds
<1>6. PolicyInv'
  <2>1. ASSUME NEW i \in Ifaces
        PROVE  Ends(todo', i) \/ (i \in kernel'.rules /\ NeverDrops(todo', i))
    <3>0. i \in Int
      BY LimitNames
    <3>1. CASE Ends(todo, i)
      <4>1. Ends(todo', i) \/ (cmd = RuleAdd(i) /\ NeverDrops(todo', i))
        BY <3>1, <1>0, <1>3, EndsTail DEF cmd
      <4>2. cmd = RuleAdd(i) => i \in kernel'.rules
        BY <3>0, <1>0, <1>1, <1>3, PolicyAfter
      <4> QED BY <4>1, <4>2
    <3>2. CASE i \in kernel.rules /\ NeverDrops(todo, i)
      <4>1. ~Drops(cmd, i) /\ NeverDrops(todo', i)
        BY <3>2, <1>0, <1>3, EndsTail DEF cmd
      <4>2. i \in kernel'.rules
        BY <4>1, <3>0, <3>2, <1>0, <1>1, <1>3, PolicyAfter
      <4> QED BY <4>1, <4>2
    <3> QED BY <3>1, <3>2, <1>0 DEF RouteInv, PolicyInv
  <2> QED BY <2>1 DEF PolicyInv
<1>7. MarksInv'
  BY DEF MarksInv
<1>8. ~cfg.local => cmd # Insert(OUTPUT, OUT)
                    /\ \A n \in 1..Len(todo') : todo'[n] # Insert(OUTPUT, OUT)
  <2>1. ~cfg.local => \A n \in 1..Len(todo) : todo[n] # Insert(OUTPUT, OUT)
    BY <1>0 DEF RouteInv, LocalInv
  <2>2. 1 \in 1..Len(todo) /\ \A n \in 1..Len(todo') :
                                 n + 1 \in 1..Len(todo) /\ todo'[n] = todo[n + 1]
    BY <1>1
  <2> QED BY <2>1, <2>2 DEF cmd
<1>9. NoneLocal /\ ~cfg.local => Unhooked(kernel', out)
  <2> SUFFICES ASSUME NoneLocal, ~cfg.local PROVE Unhooked(kernel', out)
    OBVIOUS
  <2>1. Unhooked(kernel, out)
    BY <1>0 DEF RouteInv, LocalInv
  <2>2. out \in Hooks /\ Insert(out[1], out[2]) = Insert(OUTPUT, OUT)
    BY DEF Hooks
  <2> HIDE DEF out
  <2>3. Spares(cmd, out)
    <3>1. CASE cmd \in Quiet
      BY <2>2, <3>1 DEF Quiet
    <3>2. CASE cmd \in HookCmds
      <4>1. PICK g \in Hooks : cmd = Insert(g[1], g[2])
        BY <3>2 DEF HookCmds
      <4>2. g # out
        BY <4>1, <1>8, <2>2
      <4> QED BY <4>1, <4>2, <2>2, HookParts
    <3> QED BY <3>1, <3>2, <1>1
  <2> QED BY <2>1, <2>3, <1>0, <1>1, <1>3, UnhookedStep
<1>10. LocalInv'
  <2>1. NoneLocal' <=> NoneLocal
    BY DEF NoneLocal
  <2> QED BY <2>1, <1>8, <1>9 DEF LocalInv
<1>11. SafeInv'
  <2> SUFFICES ASSUME NEW h \in Hooks, Alike(h) PROVE Safe(kernel', orphans', h)
    BY DEF SafeInv, Alike, NoneLocal
  <2>1. CASE Feeds(h)
    <3>1. CASE Clear(kernel', h)
      BY <3>1, <1>0 DEF Safe
    <3>2. CASE cmd \in Calm(h)
      <4>1. Safe(kernel, orphans, h)
        BY <1>0 DEF RouteInv, SafeInv
      <4> QED BY <4>1, <3>2, <1>0, <1>3, CalmStep
    <3> QED BY <3>1, <3>2, <1>4, <2>1
  <2>2. CASE ~Feeds(h)
    BY <2>2, <1>9, AlikeFeeds DEF Safe
  <2> QED BY <2>1, <2>2
<1> QED BY <1>5, <1>6, <1>7, <1>10, <1>11 DEF RouteInv

(* One command, in run.                                                    *)
LEMMA ExecutedInRun ==
    ASSUME MInv, faults = 0, proc = "run", todo # <<>>,
           kernel' = Executed(kernel, todo[1]), todo' = Tail(todo),
           UNCHANGED <<proc, cfg, left, orphans>>
    PROVE  RouteInv'
<1> DEFINE cmd == todo[1]
           out == <<OUTPUT, OUT>>
<1>0. /\ kernel \in Kernels /\ todo \in Seq(RunSet) /\ orphans = {} /\ RouteInv
  BY NoOrphans DEF MInv, IInv, ListsInv, HookInv
<1>1. /\ cmd \in RunSet /\ cmd \in Quiet /\ cmd \in Commands
      /\ Mild(cmd) /\ cmd.op # "rule delete" /\ todo' \in Seq(RunSet)
  <2>1. cmd \in RunSet /\ todo' \in Seq(RunSet)
    BY <1>0, Tailed
  <2> HIDE DEF cmd
  <2> QED BY <2>1, RunQuiet, QuietCommands, RunFits
<1>2. kernel' = Executed(kernel, cmd)
  OBVIOUS
<1> HIDE DEF cmd
<1>3. Ifaces \subseteq kernel'.rules
  BY <1>0, <1>1, <1>2, RulesStep DEF RouteInv, PolicyInv
<1>4. PhaseInv' /\ PolicyInv' /\ MarksInv'
  BY <1>3 DEF PhaseInv, PolicyInv, MarksInv
<1>5. LocalInv'
  <2>1. out \in Hooks
    BY DEF Hooks
  <2>2. NoneLocal /\ ~cfg.local => Unhooked(kernel, out)
    BY <1>0 DEF RouteInv, LocalInv
  <2>3. Unhooked(kernel, out) => Unhooked(kernel', out)
    BY <2>1, <1>0, <1>1, <1>2, UnhookedStep DEF Quiet
  <2>4. \A n \in 1..Len(todo') : todo'[n] # Insert(OUTPUT, OUT)
    BY <1>1, RunQuiet, SeqMonotone, QuietHooks
  <2>5. NoneLocal' <=> NoneLocal
    BY DEF NoneLocal
  <2> QED BY <2>2, <2>3, <2>4, <2>5 DEF LocalInv
<1>6. SafeInv'
  BY <1>0, <1>3, RulesSafe DEF SafeInv
<1> QED BY <1>4, <1>5, <1>6 DEF RouteInv

(* One command, in shutdown.                                               *)
LEMMA ExecutedInEnding ==
    ASSUME MInv, faults = 0, proc = "ending", todo # <<>>,
           kernel' = Executed(kernel, todo[1]), todo' = Tail(todo),
           UNCHANGED <<proc, cfg, left, orphans>>
    PROVE  RouteInv'
<1> DEFINE cmd == todo[1]
           out == <<OUTPUT, OUT>>
<1>0. /\ kernel \in Kernels /\ todo \in Seq(EndSet) /\ RouteInv
      /\ \A h \in Hooks : /\ h[1] \in DOMAIN kernel.chains
                          /\ Count(kernel.chains[h[1]], h[2]) <= 1 + faults
  BY DEF MInv, IInv, ListsInv, HookInv
<1>1. /\ cmd \in EndSet /\ cmd \in Quiet /\ cmd \in Commands
      /\ Mild(cmd) /\ todo' \in Seq(EndSet)
      /\ Len(todo') = Len(todo) - 1 /\ Len(todo) \in Nat \ {0}
      /\ \A n \in 1..(Len(todo) - 1) : todo'[n] = todo[n + 1]
  <2>1. /\ cmd \in EndSet /\ todo' \in Seq(EndSet)
        /\ Len(todo') = Len(todo) - 1 /\ Len(todo) \in Nat \ {0}
        /\ \A n \in 1..(Len(todo) - 1) : todo'[n] = todo[n + 1]
    BY <1>0, Tailed
  <2> HIDE DEF cmd
  <2> QED BY <2>1, EndQuiet, QuietCommands, EndIdle, IdleFits
<1>2. kernel' = Executed(kernel, cmd) /\ todo' = Tail(todo)
  OBVIOUS
<1> HIDE DEF cmd
<1>3. \A h \in Hooks : Unhooked(kernel, h) => Unhooked(kernel', h)
  BY <1>0, <1>1, <1>2, UnhookedStep DEF Quiet
<1>4. ASSUME NEW h \in Hooks, Feeds(h) PROVE EndSafe(h)'
  <2>1. EndSafe(h)
    BY <1>0, <1>4 DEF RouteInv, PhaseInv
  <2>2. CASE Unhooked(kernel, h)
    BY <2>2, <1>3 DEF EndSafe
  <2>3. CASE /\ Ifaces \subseteq kernel.rules
             /\ \A c \in orphans : c.op # "rule delete"
             /\ First(todo, RemoveRule(h[1], h[2]), Keeping)
    <3>1. \/ cmd = RemoveRule(h[1], h[2])
          \/ cmd \in Keeping /\ First(todo', RemoveRule(h[1], h[2]), Keeping)
      BY <2>3, <1>0, <1>2, FirstTail DEF cmd
    <3>2. CASE cmd = RemoveRule(h[1], h[2])
      <4>1. Count(kernel.chains[h[1]], h[2]) <= 1
        BY <1>0
      <4>2. Unhooked(kernel', h)
        BY <4>1, <3>2, <1>0, <1>2, RemovedUnhooks, HookParts DEF Unhooked
      <4> QED BY <4>2 DEF EndSafe
    <3>3. CASE cmd \in Keeping /\ First(todo', RemoveRule(h[1], h[2]), Keeping)
      <4>1. Ifaces \subseteq kernel'.rules
        BY <2>3, <3>3, <1>0, <1>1, <1>2, RulesStep DEF Keeping
      <4> QED BY <4>1, <2>3, <3>3 DEF EndSafe
    <3> QED BY <3>1, <3>2, <3>3
  <2> QED BY <2>1, <2>2, <2>3 DEF EndSafe
<1>5. PhaseInv'
  BY <1>4 DEF PhaseInv, Feeds
<1>6. PolicyInv'
  BY DEF PolicyInv
<1>7. MarksInv'
  <2> SUFFICES ASSUME NEW i \in Ifaces, Marks(kernel', i)
               PROVE  Contains(todo', Flush(ISP(i)))
    BY DEF MarksInv
  <2>1. Marks(kernel, i) /\ cmd # Flush(ISP(i))
    BY <1>0, <1>1, <1>2, MarksStep
  <2>2. PICK n \in 1..Len(todo) : todo[n] = Flush(ISP(i))
    BY <2>1, <1>0 DEF RouteInv, MarksInv, Contains
  <2>3. n # 1
    BY <2>1, <2>2 DEF cmd
  <2> DEFINE p == n - 1
  <2>4. p \in 1..Len(todo') /\ p \in 1..(Len(todo) - 1) /\ p + 1 = n
    BY <2>2, <2>3, <1>1
  <2>5. todo'[p] = todo[p + 1]
    BY <2>4, <1>1
  <2> HIDE DEF p
  <2> QED BY <2>2, <2>4, <2>5 DEF Contains
<1>8. LocalInv'
  <2>1. out \in Hooks
    BY DEF Hooks
  <2>2. NoneLocal /\ ~cfg.local => Unhooked(kernel, out)
    BY <1>0 DEF RouteInv, LocalInv
  <2>3. Unhooked(kernel, out) => Unhooked(kernel', out)
    BY <2>1, <1>3
  <2>4. \A n \in 1..Len(todo') : todo'[n] # Insert(OUTPUT, OUT)
    BY <1>1, EndQuiet, SeqMonotone, QuietHooks
  <2>5. NoneLocal' <=> NoneLocal
    BY DEF NoneLocal
  <2> QED BY <2>2, <2>3, <2>4, <2>5 DEF LocalInv
<1>9. SafeInv'
  <2> SUFFICES ASSUME NEW h \in Hooks, Alike(h) PROVE Safe(kernel', orphans', h)
    BY DEF SafeInv, Alike, NoneLocal
  <2>1. CASE Feeds(h)
    <3>1. EndSafe(h)'
      BY <1>4, <2>1
    <3> QED BY <3>1, RulesSafe DEF EndSafe, Safe
  <2>2. CASE ~Feeds(h)
    <3>1. Unhooked(kernel, h)
      BY <2>2, AlikeFeeds, <1>0 DEF RouteInv, LocalInv
    <3> QED BY <3>1, <1>3 DEF Safe
  <2> QED BY <2>1, <2>2
<1> QED BY <1>5, <1>6, <1>7, <1>8, <1>9 DEF RouteInv

LEMMA ExecuteMInv == MInv /\ Execute => MInv'
<1> SUFFICES ASSUME MInv, Execute PROVE MInv'
  OBVIOUS
<1>0. /\ todo # <<>> /\ todo' = Tail(todo)
      /\ UNCHANGED <<proc, cfg, left, orphans>>
      /\ \/ kernel' = Executed(kernel, todo[1]) /\ UNCHANGED faults
         \/ kernel' = kernel /\ faults' = faults + 1
  BY DEF Execute, Head
<1>1. IInv'
  BY ExecuteInv DEF MInv
<1>2. proc \in {"init", "run", "ending"} /\ faults \in Nat
  BY <1>0 DEF MInv, IInv, TypeOK
<1>3. ListsInv'
  <2>1. /\ proc = "init" => todo[1] \in InitSet /\ todo' \in Seq(InitSet)
        /\ proc = "run" => todo[1] \in RunSet /\ todo' \in Seq(RunSet)
        /\ proc = "ending" => todo[1] \in EndSet /\ todo' \in Seq(EndSet)
    BY <1>0 DEF MInv, ListsInv
  <2>2. FitCmd(todo[1])
    BY <2>1, <1>2, InitFits, RunFits, EndIdle, IdleFits
  <2>3. todo[1] \in Commands
    <3>1. todo[1] \in Quiet \cup HookCmds
      BY <1>0 DEF MInv, IInv, TodoInv
    <3> QED BY <3>1, QuietCommands
  <2>4. Shape(kernel')
    <3>1. kernel \in Kernels /\ Shape(kernel)
      BY DEF MInv, IInv, HookInv, ListsInv
    <3>2. Shape(Executed(kernel, todo[1]))
      BY <3>1, <2>2, <2>3, ShapeStep
    <3> QED BY <3>1, <3>2, <1>0
  <2> QED BY <2>1, <2>4, <1>0 DEF MInv, ListsInv
<1>4. faults' = 0 => RouteInv'
  <2> SUFFICES ASSUME faults' = 0 PROVE RouteInv'
    OBVIOUS
  <2>1. faults = 0 /\ kernel' = Executed(kernel, todo[1])
    BY <1>0, <1>2
  <2> QED BY <2>1, <1>0, <1>2, ExecutedInInit, ExecutedInRun, ExecutedInEnding
<1> QED BY <1>1, <1>3, <1>4 DEF MInv

(* Steps of the daemon between commands.                                   *)
LEMMA StillMInv ==
    MInv /\ (Initialised \/ HealthTest \/ StartCycle \/ UNCHANGED vars) => MInv'
<1> SUFFICES ASSUME MInv,
                    Initialised \/ HealthTest \/ StartCycle \/ UNCHANGED vars
             PROVE  MInv'
  OBVIOUS
<1>1. UNCHANGED <<kernel, todo, orphans, cfg, left, faults>>
  BY DEF Initialised, HealthTest, StartCycle, vars, process, history
<1>2. \/ proc' = proc
      \/ /\ proc = "init" /\ todo = <<>> /\ proc' = "test"
      \/ /\ proc \in {"test", "run"} /\ proc' \in {"apply", "test"}
  BY DEF Initialised, HealthTest, StartCycle, vars
<1>3. IInv'
  BY StillInv DEF MInv
<1>4. ListsInv'
  BY <1>1, <1>2 DEF MInv, ListsInv
<1>5. faults' = 0 => RouteInv'
  <2> SUFFICES ASSUME faults' = 0 PROVE RouteInv'
    OBVIOUS
  <2>0. RouteInv
    BY <1>1 DEF MInv
  <2>1. \A h \in Hooks : /\ Feeds(h)' <=> Feeds(h)
                         /\ InitSafe(h)' <=> InitSafe(h)
                         /\ EndSafe(h)' <=> EndSafe(h)
                         /\ Alike(h)' <=> Alike(h)
    BY <1>1 DEF Feeds, InitSafe, EndSafe, Alike, NoneLocal
  <2>2. PhaseInv'
    BY <2>0, <2>1, <1>2 DEF RouteInv, PhaseInv
  <2>3. PolicyInv'
    <3>1. CASE proc = "init" /\ todo = <<>> /\ proc' = "test"
      <4>1. \A i \in Ifaces : ~Ends(todo, i)
        BY <3>1 DEF Ends
      <4> QED BY <3>1, <4>1, <2>0, <1>1 DEF RouteInv, PolicyInv
    <3>2. CASE ~(proc = "init" /\ todo = <<>> /\ proc' = "test")
      BY <3>2, <2>0, <1>1, <1>2 DEF RouteInv, PolicyInv
    <3> QED BY <3>1, <3>2
  <2>4. MarksInv'
    BY <2>0, <1>1, <1>2 DEF RouteInv, MarksInv
  <2>5. LocalInv'
    BY <2>0, <1>1, <1>2 DEF RouteInv, LocalInv, NoneLocal
  <2>6. SafeInv'
    BY <2>0, <2>1, <1>1 DEF RouteInv, SafeInv
  <2> QED BY <2>2, <2>3, <2>4, <2>5, <2>6 DEF RouteInv
<1> QED BY <1>3, <1>4, <1>5 DEF MInv

(* The commands of init and of a cycle are set out.                        *)
LEMMA WritePidMInv == MInv /\ WritePid => MInv'
<1> SUFFICES ASSUME MInv, WritePid PROVE MInv'
  OBVIOUS
<1>1. /\ proc = "forked" /\ proc' = "init" /\ todo' = InitCmds(cfg)
      /\ UNCHANGED <<kernel, cfg, orphans, left, faults>>
  BY DEF WritePid, history
<1>2. cfg \in Configs
  BY DEF MInv, IInv, TypeOK
<1>3. IInv'
  BY WritePidInv DEF MInv
<1>4. ListsInv'
  BY <1>1, <1>2, InitType DEF MInv, ListsInv
<1>5. faults' = 0 => RouteInv'
  <2> SUFFICES ASSUME faults' = 0 PROVE RouteInv'
    OBVIOUS
  <2>0. RouteInv
    BY <1>1 DEF MInv
  <2>1. /\ \A i \in Ifaces : Ends(todo', i)
        /\ \A h \in Hooks : (h[2] = OUT => cfg.local) =>
              First(todo', Flush(h[2]), Calm(h))
        /\ ~cfg.local => \A m \in 1..Len(todo') : todo'[m] # Insert(OUTPUT, OUT)
    BY <1>1, <1>2, InitOrder
  <2>2. PhaseInv'
    BY <2>1, <1>1 DEF PhaseInv, InitSafe, Feeds
  <2>3. PolicyInv'
    BY <2>1, <1>1 DEF PolicyInv
  <2>4. MarksInv'
    BY <1>1 DEF MarksInv
  <2>5. LocalInv'
    BY <2>0, <2>1, <1>1 DEF RouteInv, LocalInv, NoneLocal
  <2>6. SafeInv'
    BY <2>0, <1>1 DEF RouteInv, SafeInv, Alike, NoneLocal
  <2> QED BY <2>2, <2>3, <2>4, <2>5, <2>6 DEF RouteInv
<1> QED BY <1>3, <1>4, <1>5 DEF MInv

LEMMA ApplyRulesMInv == MInv /\ ApplyRules => MInv'
<1> SUFFICES ASSUME MInv, ApplyRules PROVE MInv'
  OBVIOUS
<1>1. /\ proc = "apply" /\ proc' = "run"
      /\ UNCHANGED <<kernel, cfg, orphans, left, faults>>
  BY DEF ApplyRules
<1>2. todo' \in Seq(RunSet)
  <2>0. cfg \in Configs /\ active \in SUBSET Ifaces /\ changed \in BOOLEAN
    BY DEF MInv, IInv, TypeOK
  <2>1. PathCmds(kernel, cfg, active) \in Seq(RunSet)
    BY <2>0, PathType
  <2>2. If(changed, RunCmds(cfg, active)) \in Seq(RunSet)
    BY <2>0, RunType, IfType
  <2> QED BY <2>1, <2>2 DEF ApplyRules
<1>3. IInv'
  BY ApplyRulesInv DEF MInv
<1>4. ListsInv'
  BY <1>1, <1>2 DEF MInv, ListsInv
<1>5. faults' = 0 => RouteInv'
  <2> SUFFICES ASSUME faults' = 0 PROVE RouteInv'
    OBVIOUS
  <2>0. RouteInv
    BY <1>1 DEF MInv
  <2>1. \A n \in 1..Len(todo') : todo'[n] # Insert(OUTPUT, OUT)
    BY <1>2, RunQuiet, SeqMonotone, QuietHooks
  <2>2. PhaseInv' /\ PolicyInv' /\ MarksInv'
    BY <2>0, <1>1 DEF RouteInv, PhaseInv, PolicyInv, MarksInv
  <2>3. LocalInv'
    BY <2>0, <2>1, <1>1 DEF RouteInv, LocalInv, NoneLocal
  <2>4. SafeInv'
    BY <2>0, <1>1 DEF RouteInv, SafeInv, Alike, NoneLocal
  <2> QED BY <2>2, <2>3, <2>4 DEF RouteInv
<1> QED BY <1>3, <1>4, <1>5 DEF MInv

(* The process ends, in its handler or not.  After a whole shutdown no     *)
(* mark is set any more.                                                   *)
LEMMA ExitMInv == MInv /\ Exit => MInv'
<1> SUFFICES ASSUME MInv, Exit PROVE MInv'
  OBVIOUS
<1>1. /\ proc = "ending" /\ todo = <<>> /\ proc' = "off"
      /\ UNCHANGED <<kernel, cfg, todo, orphans, left, faults>>
  BY DEF Exit, history
<1>2. IInv'
  BY ExitInv DEF MInv
<1>3. ListsInv'
  BY <1>1 DEF MInv, ListsInv
<1>4. faults' = 0 => RouteInv'
  <2> SUFFICES ASSUME faults' = 0 PROVE RouteInv'
    OBVIOUS
  <2>0. RouteInv
    BY <1>1 DEF MInv
  <2>1. PhaseInv' /\ PolicyInv'
    BY <1>1 DEF PhaseInv, PolicyInv
  <2>2. MarksInv'
    <3>1. \A i \in Ifaces : ~Contains(todo, Flush(ISP(i)))
      BY <1>1 DEF Contains
    <3>2. \A i \in Ifaces : ~Marks(kernel, i)
      BY <3>1, <2>0, <1>1 DEF RouteInv, MarksInv
    <3> QED BY <3>2, <1>1 DEF MarksInv
  <2>3. LocalInv'
    <3> DEFINE h == <<OUTPUT, OUT>>
    <3>1. NoneLocal => Unhooked(kernel, h)
      <4>1. CASE ~cfg.local
        BY <4>1, <2>0 DEF RouteInv, LocalInv
      <4>2. CASE cfg.local
        <5>1. h \in Hooks /\ Feeds(h)
          BY <4>2 DEF Hooks, Feeds
        <5>2. EndSafe(h)
          BY <5>1, <2>0, <1>1 DEF RouteInv, PhaseInv
        <5>3. ~First(todo, RemoveRule(h[1], h[2]), Keeping)
          BY <1>1 DEF First
        <5> QED BY <5>2, <5>3 DEF EndSafe
      <4> QED BY <4>1, <4>2
    <3> QED BY <3>1, <2>0, <1>1 DEF RouteInv, LocalInv, NoneLocal
  <2>4. SafeInv'
    BY <2>0, <1>1 DEF RouteInv, SafeInv, Alike, NoneLocal
  <2> QED BY <2>1, <2>2, <2>3, <2>4 DEF RouteInv
<1> QED BY <1>2, <1>3, <1>4 DEF MInv

LEMMA DiesMInv ==
    ASSUME MInv, proc \in Running, Dies, restarting' \in BOOLEAN
    PROVE  MInv'
<1>1. /\ proc' = "dead" /\ todo' = <<>> /\ left' = left \cup {cfg}
      /\ UNCHANGED <<kernel, cfg, orphans, faults>>
  BY DEF Dies
<1>2. IInv'
  BY DiesInv DEF MInv
<1>3. ListsInv'
  BY <1>1 DEF MInv, ListsInv
<1>4. faults' = 0 => RouteInv'
  <2> SUFFICES ASSUME faults' = 0 PROVE RouteInv'
    OBVIOUS
  <2>0. RouteInv
    BY <1>1 DEF MInv
  <2>1. PhaseInv' /\ PolicyInv' /\ MarksInv'
    BY <1>1 DEF PhaseInv, PolicyInv, MarksInv
  <2>2. NoneLocal' => NoneLocal /\ ~cfg.local
    BY <1>1 DEF NoneLocal
  <2>3. LocalInv'
    BY <2>0, <2>2, <1>1 DEF RouteInv, LocalInv
  <2>4. ASSUME NEW h, Alike(h)' PROVE Alike(h)
    BY <2>2, <2>4, <1>1 DEF Alike
  <2>5. SafeInv'
    BY <2>0, <2>4, <1>1 DEF RouteInv, SafeInv
  <2> QED BY <2>1, <2>3, <2>5 DEF RouteInv
<1> QED BY <1>2, <1>3, <1>4 DEF MInv

(* A handler starts over with the commands of shutdown: the hooks are safe *)
(* until they are removed, for all policy rules are there and the command  *)
(* it overtook takes none away.                                            *)
LEMMA HandleMInv ==
    ASSUME MInv, proc \in {"test", "apply", "run", "ending"},
           NEW sig \in Signals, Handle(sig), restarting' \in BOOLEAN
    PROVE  MInv'
<1>1. /\ proc' = "ending" /\ todo' = ShutdownCmds(cfg)
      /\ UNCHANGED <<kernel, cfg, left, faults>>
  BY DEF Handle
<1>2. orphans' = orphans \/ (todo # <<>> /\ orphans' = orphans \cup {todo[1]})
  BY DEF Handle, Overtaken, Head
<1>3. cfg \in Configs
  BY DEF MInv, IInv, TypeOK
<1>4. todo' \in Seq(EndSet)
  BY <1>1, <1>3, ShutdownType
<1>5. /\ \A h \in Hooks : Feeds(h) =>
            First(todo', RemoveRule(h[1], h[2]), Keeping)
      /\ \A i \in Ifaces : Contains(todo', Flush(ISP(i)))
  BY <1>1, <1>3, EndOrder DEF Feeds
<1>6. /\ todo # <<>> => proc \in {"run", "ending"}
      /\ proc = "run" /\ todo # <<>> => todo[1] \in RunSet
      /\ proc = "ending" /\ todo # <<>> => todo[1] \in EndSet
  BY DEF MInv, IInv, TypeOK, ListsInv
<1>7. IInv'
  BY HandleInv DEF MInv
<1>8. ListsInv'
  <2>1. orphans' \subseteq RunSet \cup EndSet
    BY <1>2, <1>6 DEF MInv, ListsInv
  <2> QED BY <2>1, <1>1, <1>4 DEF MInv, ListsInv
<1>9. faults' = 0 => RouteInv'
  <2> SUFFICES ASSUME faults' = 0 PROVE RouteInv'
    OBVIOUS
  <2>0. RouteInv
    BY <1>1 DEF MInv
  <2>1. proc # "ending" => /\ Ifaces \subseteq kernel.rules
                           /\ \A cmd \in orphans' : cmd.op # "rule delete"
    <3> SUFFICES ASSUME proc # "ending"
                 PROVE  /\ Ifaces \subseteq kernel.rules
                        /\ \A cmd \in orphans' : cmd.op # "rule delete"
      OBVIOUS
    <3>1. Ifaces \subseteq kernel.rules
      BY <2>0 DEF RouteInv, PolicyInv
    <3>2. orphans = {}
      BY NoOrphans DEF MInv
    <3>3. todo # <<>> => todo[1].op # "rule delete"
      BY <1>6, RunFits
    <3> QED BY <3>1, <3>2, <3>3, <1>2
  <2>2. ASSUME NEW h \in Hooks, Feeds(h)
        PROVE  \/ Unhooked(kernel, h)
               \/ /\ Ifaces \subseteq kernel.rules
                  /\ \A cmd \in orphans' : cmd.op # "rule delete"
    <3>1. CASE proc = "ending"
      <4>1. EndSafe(h)
        BY <3>1, <2>0, <2>2 DEF RouteInv, PhaseInv
      <4>2. CASE /\ Ifaces \subseteq kernel.rules
                 /\ \A cmd \in orphans : cmd.op # "rule delete"
                 /\ First(todo, RemoveRule(h[1], h[2]), Keeping)
        <5>1. todo # <<>> => todo[1].op # "rule delete"
          <6> SUFFICES ASSUME todo # <<>> PROVE todo[1].op # "rule delete"
            OBVIOUS
          <6>1. todo \in Seq(EndSet)
            BY <3>1 DEF MInv, ListsInv
          <6>2. todo[1] = RemoveRule(h[1], h[2]) \/ todo[1] \in Keeping
            BY <6>1, <4>2, FirstTail
          <6> QED BY <6>2, KeepingKinds DEF Keeping
        <5> QED BY <5>1, <4>2, <1>2
      <4> QED BY <4>1, <4>2 DEF EndSafe
    <3> QED BY <3>1, <2>1
  <2>3. PhaseInv'
    <3>1. ASSUME NEW h \in Hooks, Feeds(h) PROVE EndSafe(h)'
      BY <3>1, <2>2, <1>1, <1>5 DEF EndSafe
    <3> QED BY <3>1, <1>1 DEF PhaseInv, Feeds
  <2>4. PolicyInv' /\ MarksInv'
    BY <1>1, <1>5 DEF PolicyInv, MarksInv
  <2>5. LocalInv'
    <3>1. \A n \in 1..Len(todo') : todo'[n] # Insert(OUTPUT, OUT)
      BY <1>4, EndQuiet, SeqMonotone, QuietHooks
    <3> QED BY <3>1, <2>0, <1>1 DEF RouteInv, LocalInv, NoneLocal
  <2>6. SafeInv'
    <3> SUFFICES ASSUME NEW h \in Hooks, Alike(h) PROVE Safe(kernel, orphans', h)
      BY <1>1 DEF SafeInv, Alike, NoneLocal
    <3>1. CASE Feeds(h)
      BY <3>1, <2>2, RulesSafe DEF Safe
    <3>2. CASE ~Feeds(h)
      <4>1. Unhooked(kernel, h)
        BY <3>2, AlikeFeeds, <2>0 DEF RouteInv, LocalInv
      <4> QED BY <4>1 DEF Safe
    <3> QED BY <3>1, <3>2
  <2> QED BY <2>3, <2>4, <2>5, <2>6 DEF RouteInv
<1> QED BY <1>7, <1>8, <1>9 DEF MInv

LEMMA DeliverMInv ==
    ASSUME MInv, NEW sig \in Signals, Deliver(sig), restarting' \in BOOLEAN
    PROVE  MInv'
<1>1. \/ proc \in Running /\ Dies
      \/ proc \in {"test", "apply", "run", "ending"} /\ Handle(sig)
  BY DEF Deliver, Running
<1> QED BY <1>1, DiesMInv, HandleMInv

(* What the invariant is about stays as it is.                             *)
LEMMA SameMInv ==
    ASSUME MInv, IInv', UNCHANGED <<kernel, proc, todo, orphans, cfg, left, faults>>
    PROVE  MInv'
<1>1. ListsInv'
  BY DEF MInv, ListsInv
<1>2. faults' = 0 => RouteInv'
  <2> SUFFICES ASSUME faults' = 0 PROVE RouteInv'
    OBVIOUS
  <2>0. RouteInv
    BY DEF MInv
  <2>1. PhaseInv'
    BY <2>0 DEF RouteInv, PhaseInv, Feeds, InitSafe, EndSafe
  <2>2. PolicyInv' /\ MarksInv'
    BY <2>0 DEF RouteInv, PolicyInv, MarksInv
  <2>3. LocalInv'
    BY <2>0 DEF RouteInv, LocalInv, NoneLocal
  <2>4. SafeInv'
    BY <2>0 DEF RouteInv, SafeInv, Alike, NoneLocal
  <2> QED BY <2>1, <2>2, <2>3, <2>4 DEF RouteInv
<1> QED BY <1>1, <1>2 DEF MInv

LEMMA StopSignalMInv ==
    ASSUME MInv, StopSignal, restarting' \in BOOLEAN
    PROVE  MInv'
<1>1. CASE pidfile = "current" /\ "SIGTERM" \notin handling
  BY <1>1, DeliverMInv, LifecycleAssumption DEF StopSignal
<1>2. CASE ~(pidfile = "current" /\ "SIGTERM" \notin handling)
  <2>1. UNCHANGED <<kernel, proc, todo, orphans, cfg, left, faults>>
    BY <1>2 DEF StopSignal, process, history
  <2>2. IInv'
    BY StopSignalInv DEF MInv
  <2> QED BY <2>1, <2>2, SameMInv
<1> QED BY <1>1, <1>2

(* A start over whatever is left of an earlier one.  After an orderly end  *)
(* no mark is set; a kill counts what was configured as left.              *)
LEMMA SpawnMInv ==
    ASSUME MInv, Spawn, UNCHANGED <<kernel, orphans, pidfile, faults, mishaps>>,
           restarting' \in BOOLEAN
    PROVE  MInv'
<1>0. IInv'
  BY SpawnInv DEF MInv
<1>1. CASE proc \in {"off", "dead"}
  <2>1. /\ orphans = {} /\ proc' = "forked" /\ todo' = <<>>
        /\ left' = IF raced THEN left \cup {cfg} ELSE left
    BY <1>1 DEF Spawn
  <2>2. ListsInv'
    BY <2>1 DEF MInv, ListsInv
  <2>3. faults' = 0 => RouteInv'
    <3> SUFFICES ASSUME faults' = 0 PROVE RouteInv'
      OBVIOUS
    <3>0. RouteInv
      BY DEF MInv
    <3>1. PhaseInv' /\ PolicyInv' /\ MarksInv'
      BY <2>1 DEF PhaseInv, PolicyInv, MarksInv
    <3>2. left \subseteq left' /\ (NoneLocal' => NoneLocal)
      BY <2>1 DEF NoneLocal
    <3>3. LocalInv'
      <4>1. NoneLocal => Unhooked(kernel, <<OUTPUT, OUT>>)
        BY <1>1, <3>0 DEF RouteInv, LocalInv
      <4> QED BY <4>1, <3>2, <2>1 DEF LocalInv
    <3>4. SafeInv'
      <4> SUFFICES ASSUME NEW h \in Hooks, Alike(h)' PROVE Safe(kernel, orphans, h)
        BY DEF SafeInv
      <4>1. CASE proc = "off"
        <5>1. \A i \in Ifaces : ~Marks(kernel, i)
          BY <4>1, <3>0 DEF RouteInv, MarksInv
        <5> QED BY <5>1 DEF Safe, Routed
      <4>2. CASE proc = "dead"
        <5>1. cfg \in left
          BY <4>2, <3>0 DEF RouteInv, LocalInv
        <5>2. (\A c \in left' : c.local) => (\A c \in left \cup {cfg} : c.local)
          BY <5>1, <3>2
        <5>3. Alike(h)
          BY <5>2, <3>2 DEF Alike
        <5> QED BY <5>3, <3>0 DEF RouteInv, SafeInv
      <4> QED BY <4>1, <4>2, <1>1
    <3> QED BY <3>1, <3>3, <3>4 DEF RouteInv
  <2> QED BY <1>0, <2>2, <2>3 DEF MInv
<1>2. CASE proc \notin {"off", "dead"}
  <2>1. UNCHANGED <<kernel, proc, todo, orphans, cfg, left, faults>>
    BY <1>2 DEF Spawn, process
  <2> QED BY <1>0, <2>1, SameMInv
<1> QED BY <1>1, <1>2

(* An overtaken command takes effect: it hooks nothing, sets no mark, and  *)
(* takes a policy rule away only where no packet needs it.                 *)
LEMMA LateMInv == MInv /\ Late => MInv'
<1> SUFFICES ASSUME MInv, Late PROVE MInv'
  OBVIOUS
<1>1. PICK cmd \in orphans : /\ kernel' = Executed(kernel, cmd)
                             /\ orphans' = orphans \ {cmd}
  BY DEF Late
<1>2. UNCHANGED <<proc, cfg, todo, left, faults>>
  BY DEF Late, process
<1>3. proc \notin {"forked", "init", "test", "apply", "run"}
  BY <1>1, NoOrphans DEF MInv
<1>4. /\ kernel \in Kernels /\ cmd \in Quiet /\ cmd \in RunSet \cup EndSet
      /\ Shape(kernel)
  BY DEF MInv, IInv, HookInv, ListsInv
<1>5. /\ cmd \in Commands /\ FitCmd(cmd) /\ Mild(cmd)
      /\ \A h \in Hooks : Spares(cmd, h)
  BY <1>4, QuietCommands, RunFits, EndIdle, IdleFits DEF Quiet
<1>6. IInv'
  BY LateInv DEF MInv
<1>7. ListsInv'
  <2>1. Shape(kernel')
    BY <1>1, <1>4, <1>5, ShapeStep
  <2> QED BY <2>1, <1>1, <1>2 DEF MInv, ListsInv
<1>8. faults' = 0 => RouteInv'
  <2> SUFFICES ASSUME faults' = 0 PROVE RouteInv'
    OBVIOUS
  <2>0. RouteInv
    BY <1>2 DEF MInv
  <2>1. \A h \in Hooks : Unhooked(kernel, h) => Unhooked(kernel', h)
    BY <1>1, <1>4, <1>5, UnhookedStep
  <2>2. PhaseInv'
    <3>1. ASSUME NEW h \in Hooks, Feeds(h), proc = "ending" PROVE EndSafe(h)'
      <4>1. EndSafe(h)
        BY <3>1, <2>0 DEF RouteInv, PhaseInv
      <4>2. CASE Unhooked(kernel, h)
        BY <4>2, <2>1 DEF EndSafe
      <4>3. CASE /\ Ifaces \subseteq kernel.rules
                 /\ \A c \in orphans : c.op # "rule delete"
                 /\ First(todo, RemoveRule(h[1], h[2]), Keeping)
        <5>1. Ifaces \subseteq kernel'.rules
          BY <4>3, <1>1, <1>4, <1>5, RulesStep
        <5> QED BY <5>1, <4>3, <1>1, <1>2 DEF EndSafe
      <4> QED BY <4>1, <4>2, <4>3 DEF EndSafe
    <3> QED BY <3>1, <1>2, <1>3 DEF PhaseInv, Feeds
  <2>3. PolicyInv'
    BY <1>2, <1>3 DEF PolicyInv
  <2>4. MarksInv'
    <3>1. \A i \in Ifaces : Marks(kernel', i) => Marks(kernel, i)
      BY <1>1, <1>4, <1>5, MarksStep
    <3> QED BY <3>1, <2>0, <1>2 DEF RouteInv, MarksInv
  <2>5. LocalInv'
    <3>1. <<OUTPUT, OUT>> \in Hooks
      BY DEF Hooks
    <3> QED BY <3>1, <2>0, <2>1, <1>2 DEF RouteInv, LocalInv, NoneLocal
  <2>6. SafeInv'
    <3> SUFFICES ASSUME NEW h \in Hooks, Alike(h) PROVE Safe(kernel', orphans', h)
      BY <1>2 DEF SafeInv, Alike, NoneLocal
    <3>1. Safe(kernel, orphans, h)
      BY <2>0 DEF RouteInv, SafeInv
    <3> QED BY <3>1, <1>1, <1>4, <1>5, LateStep
  <2> QED BY <2>2, <2>3, <2>4, <2>5, <2>6 DEF RouteInv
<1> QED BY <1>6, <1>7, <1>8 DEF MInv

LEMMA NextMInv == MInv /\ [Next]_vars => MInv'
<1> SUFFICES ASSUME MInv, [Next]_vars PROVE MInv'
  OBVIOUS
<1>0. restarting \in BOOLEAN
  BY DEF MInv, IInv, TypeOK
<1>1. CASE Daemon
  BY <1>1, ExecuteMInv, StillMInv, WritePidMInv, ApplyRulesMInv, ExitMInv DEF Daemon
<1>2. CASE Late
  BY <1>2, LateMInv
<1>3. CASE Start \/ RestartStart
  BY <1>3, <1>0, SpawnMInv DEF Start, RestartStart, outside
<1>4. CASE Stop \/ Restart
  BY <1>4, <1>0, StopSignalMInv DEF Stop, Restart
<1>5. CASE \E sig \in Signals : Terminate(sig)
  BY <1>5, <1>0, DeliverMInv DEF Terminate
<1>6. CASE Wake \/ Crash
  BY <1>6, <1>0, DiesMInv DEF Wake, Crash, Running
<1>7. CASE Recheck
  <2>1. UNCHANGED <<kernel, proc, todo, orphans, cfg, left, faults>>
    BY <1>7 DEF Recheck, history
  <2>2. IInv'
    BY <1>7, RecheckInv DEF MInv
  <2> QED BY <2>1, <2>2, SameMInv
<1>8. CASE UNCHANGED vars
  BY <1>8, StillMInv
<1> QED BY <1>1, <1>2, <1>3, <1>4, <1>5, <1>6, <1>7, <1>8 DEF Next

(* As long as no command fails no packet gets the mark of an interface     *)
(* without the policy rule of that mark, whatever kills the daemon at any  *)
(* point, whatever configuration it is started with next, and however late *)
(* the commands overtaken by signals take effect.                          *)
THEOREM MarkedTheorem == Spec => []MarkedIsRouted
<1> QED BY InitMInv, NextMInv, MInvMarked, PTL DEF Spec

-----------------------------------------------------------------------------
(* Lists of commands, one after the other.                                 *)
LEMMA MaxIn ==
    ASSUME NEW n \in Nat, NEW T \in SUBSET (1..n), T # {}
    PROVE  Max(T) \in T /\ \A x \in T : x <= Max(T)
<1>1. T \subseteq 0..n
  OBVIOUS
<1>2. PICK m \in T : \A x \in T : x <= m
  BY <1>1, GreatestNatural
<1>3. \E x \in T : \A y \in T : x >= y
  <2>1. \A y \in T : m >= y
    BY <1>2
  <2> QED BY <2>1
<1>4. Max(T) \in T /\ \A y \in T : Max(T) >= y
  BY <1>3 DEF Max
<1> QED BY <1>4

(* Such a function for one command more.                                   *)
LEMMA FoldExtends ==
    ASSUME NEW k \in Kernels, NEW s \in Seq(Commands), NEW n \in 0..(Len(s) - 1),
           NEW f \in [SUBSET (1..n) -> Kernels], FoldOf(k, s, n, f)
    PROVE  \E g \in [SUBSET (1..(n + 1)) -> Kernels] : FoldOf(k, s, n + 1, g)
<1> DEFINE m == n + 1
           g == [T \in SUBSET (1..m) |-> IF m \in T THEN Executed(f[T \ {m}], s[m])
                                         ELSE f[T]]
<1>0. n \in Nat /\ m \in 1..Len(s) /\ s[m] \in Commands /\ m \in Nat
  OBVIOUS
<1>1. \A T \in SUBSET (1..m) : /\ T \ {m} \in SUBSET (1..n)
                               /\ m \notin T => T \in SUBSET (1..n)
  OBVIOUS
<1>2. g \in [SUBSET (1..m) -> Kernels]
  <2> SUFFICES ASSUME NEW T \in SUBSET (1..m)
               PROVE  (IF m \in T THEN Executed(f[T \ {m}], s[m]) ELSE f[T]) \in Kernels
    OBVIOUS
  <2>1. CASE m \in T
    <3>1. f[T \ {m}] \in Kernels
      BY <1>1
    <3> QED BY <3>1, <2>1, <1>0, ExecutedEffect
  <2>2. CASE m \notin T
    BY <1>1, <2>2
  <2> QED BY <2>1, <2>2
<1>3. ASSUME NEW T \in SUBSET (1..m)
      PROVE  g[T] = IF T = {} THEN k ELSE Executed(g[T \ {Max(T)}], s[Max(T)])
  <2>1. CASE m \in T
    <3>1. Max(T) = m
      <4>1. Max(T) \in T /\ \A x \in T : x <= Max(T)
        BY <2>1, <1>0, MaxIn
      <4>2. Max(T) \in 1..m /\ m <= Max(T)
        BY <4>1, <2>1
      <4> QED BY <4>2
    <3>2. /\ T \ {m} \in SUBSET (1..m) /\ m \notin T \ {m}
      OBVIOUS
    <3>3. g[T \ {m}] = f[T \ {m}]
      BY <3>2
    <3>4. g[T] = Executed(f[T \ {m}], s[m])
      BY <2>1
    <3> QED BY <3>1, <3>3, <3>4, <2>1
  <2>2. CASE m \notin T
    <3>1. T \in SUBSET (1..n) /\ g[T] = f[T]
      BY <2>2, <1>1
    <3>2. f[T] = IF T = {} THEN k ELSE Executed(f[T \ {Max(T)}], s[Max(T)])
      BY <3>1 DEF FoldOf
    <3>3. m \notin T \ {Max(T)} /\ T \ {Max(T)} \in SUBSET (1..m)
      BY <2>2
    <3>4. g[T \ {Max(T)}] = f[T \ {Max(T)}]
      BY <3>3
    <3> QED BY <3>1, <3>2, <3>4
  <2> QED BY <2>1, <2>2
<1>4. FoldOf(k, s, m, g)
  <2>1. g = [T \in SUBSET (1..m) |-> g[T]]
    OBVIOUS
  <2> HIDE DEF g
  <2> QED BY <2>1, <1>3 DEF FoldOf
<1> QED BY <1>2, <1>4

(* There is one, for every list.                                           *)
LEMMA FoldExists ==
    ASSUME NEW k \in Kernels, NEW s \in Seq(Commands)
    PROVE  \E f \in [SUBSET (1..Len(s)) -> Kernels] : FoldOf(k, s, Len(s), f)
<1> DEFINE S == {n \in 0..Len(s) : \E f \in [SUBSET (1..n) -> Kernels] :
                                      FoldOf(k, s, n, f)}
<1>0. Len(s) \in Nat
  OBVIOUS
<1>1. 0 \in S
  <2> DEFINE f == [T \in SUBSET (1..0) |-> k]
  <2>1. \A T \in SUBSET (1..0) : T = {}
    OBVIOUS
  <2>2. f \in [SUBSET (1..0) -> Kernels]
    OBVIOUS
  <2>3. \A T \in SUBSET (1..0) :
          f[T] = IF T = {} THEN k ELSE Executed(f[T \ {Max(T)}], s[Max(T)])
    BY <2>1
  <2>4. f = [T \in SUBSET (1..0) |-> f[T]]
    OBVIOUS
  <2> HIDE DEF f
  <2>5. FoldOf(k, s, 0, f)
    BY <2>3, <2>4 DEF FoldOf
  <2>6. \E h \in [SUBSET (1..0) -> Kernels] : FoldOf(k, s, 0, h)
    BY <2>2, <2>5
  <2>7. 0 \in 0..Len(s)
    BY <1>0
  <2> QED BY <2>6, <2>7
<1>2. ASSUME NEW n \in 0..(Len(s) - 1), n \in S PROVE n + 1 \in S
  <2>1. PICK f \in [SUBSET (1..n) -> Kernels] : FoldOf(k, s, n, f)
    BY <1>2
  <2>2. \E g \in [SUBSET (1..(n + 1)) -> Kernels] : FoldOf(k, s, n + 1, g)
    BY <2>1, FoldExtends
  <2> QED BY <2>2, <1>0
<1>3. 0..Len(s) \subseteq S
  <2> HIDE DEF S
  <2> QED BY <1>0, <1>1, <1>2, InductTo
<1>4. Len(s) \in 0..Len(s)
  BY <1>0
<1>5. Len(s) \in S
  <2> HIDE DEF S
  <2> QED BY <1>3, <1>4
<1> QED BY <1>5

(* The kernels a list of commands leads through, one command after the     *)
(* other.                                                                  *)
LEMMA FoldSteps ==
    ASSUME NEW k \in Kernels, NEW s \in Seq(Commands)
    PROVE  \E g : /\ g[0] = k /\ ExecutedAll(k, s) = g[Len(s)]
                  /\ \A n \in 1..Len(s) : g[n] = Executed(g[n - 1], s[n])
                  /\ \A n \in 0..Len(s) : g[n] \in Kernels
<1> DEFINE N == Len(s)
           iter == CHOOSE f : FoldOf(k, s, N, f)
<1>0. N \in Nat /\ DOMAIN s = 1..N
  OBVIOUS
<1>1. ExecutedAll(k, s) = iter[1..N]
  BY <1>0 DEF ExecutedAll, FoldLeft, MapThenFoldSet, FoldOf
<1>2. \E f \in [SUBSET (1..N) -> Kernels] : FoldOf(k, s, N, f)
  BY FoldExists
<1>3. FoldOf(k, s, N, iter)
  BY <1>2
<1> HIDE DEF iter, N
<1>4. \A T \in SUBSET (1..N) :
         iter[T] = IF T = {} THEN k ELSE Executed(iter[T \ {Max(T)}], s[Max(T)])
  BY <1>3 DEF FoldOf
<1> DEFINE g == [n \in 0..N |-> iter[1..n]]
<1>5. g[0] = k /\ ExecutedAll(k, s) = g[N]
  <2>1. 1..0 = {} /\ 0 \in 0..N /\ N \in 0..N
    BY <1>0
  <2> QED BY <2>1, <1>1, <1>4
<1>6. ASSUME NEW n \in 1..N PROVE g[n] = Executed(g[n - 1], s[n])
  <2>0. n \in Nat /\ 1..n \in SUBSET (1..N) /\ 1..n # {} /\ 1..n \in SUBSET (1..n)
    <3>1. n \in Nat /\ n <= N /\ n \in 1..n
      BY <1>0
    <3>2. \A m \in 1..n : m \in 1..N
      BY <1>0
    <3> QED BY <3>1, <3>2
  <2>1. Max(1..n) = n
    <3>1. Max(1..n) \in 1..n /\ \A x \in 1..n : x <= Max(1..n)
      BY <2>0, MaxIn
    <3>2. n \in 1..n
      BY <1>0
    <3> QED BY <3>1, <3>2, <2>0
  <2>2. (1..n) \ {n} = 1..(n - 1) /\ n - 1 \in 0..N /\ n \in 0..N
    BY <1>0
  <2>3. iter[1..n] = Executed(iter[1..(n - 1)], s[n])
    BY <2>0, <2>1, <2>2, <1>4
  <2> QED BY <2>2, <2>3
<1> HIDE DEF g
<1>7. \A n \in 0..N : g[n] \in Kernels
  <2> DEFINE S == {n \in 0..N : g[n] \in Kernels}
  <2>1. 0 \in S
    BY <1>5, <1>0
  <2>2. ASSUME NEW n \in 0..(N - 1), n \in S PROVE n + 1 \in S
    <3>1. n + 1 \in 1..N /\ (n + 1) - 1 = n /\ n + 1 \in 0..N
      BY <1>0
    <3>2. g[n + 1] = Executed(g[n], s[n + 1])
      BY <3>1, <1>6
    <3>3. s[n + 1] \in Commands
      BY <3>1 DEF N
    <3> QED BY <3>1, <3>2, <3>3, <2>2, ExecutedEffect
  <2>3. 0..N \subseteq S
    <3> HIDE DEF S
    <3> QED BY <1>0, <2>1, <2>2, InductTo
  <2> QED BY <2>3
<1>8. \A n \in 1..N : g[n] = Executed(g[n - 1], s[n])
  BY <1>6
<1> QED BY <1>5, <1>7, <1>8 DEF N

(* The effect of a list is that of its tail after its first command.       *)
LEMMA ExecutedFirst ==
    ASSUME NEW k \in Kernels, NEW s \in Seq(Commands), s # <<>>
    PROVE  ExecutedAll(k, s) = ExecutedAll(Executed(k, s[1]), Tail(s))
<1> DEFINE t == Tail(s)
           e == Executed(k, s[1])
<1>1. /\ s[1] \in Commands /\ t \in Seq(Commands) /\ Len(t) = Len(s) - 1
      /\ Len(s) \in Nat \ {0} /\ \A n \in 1..(Len(s) - 1) : t[n] = s[n + 1]
  BY Tailed
<1>2. e \in Kernels
  BY <1>1, ExecutedEffect
<1> HIDE DEF t, e
<1>3. PICK g : /\ g[0] = k /\ ExecutedAll(k, s) = g[Len(s)]
               /\ \A n \in 1..Len(s) : g[n] = Executed(g[n - 1], s[n])
  BY FoldSteps
<1>4. PICK h : /\ h[0] = e /\ ExecutedAll(e, t) = h[Len(t)]
               /\ \A n \in 1..Len(t) : h[n] = Executed(h[n - 1], t[n])
  BY <1>1, <1>2, FoldSteps
<1> DEFINE S == {n \in 0..Len(t) : g[n + 1] = h[n]}
<1>5. 0 \in S
  <2>1. 1 \in 1..Len(s) /\ 1 - 1 = 0 /\ 0 \in 0..Len(t) /\ 0 + 1 = 1
    BY <1>1
  <2>2. g[1] = Executed(k, s[1])
    BY <2>1, <1>3
  <2> QED BY <2>1, <2>2, <1>4 DEF e
<1>6. ASSUME NEW n \in 0..(Len(t) - 1), n \in S PROVE n + 1 \in S
  <2>1. /\ n + 1 \in 1..Len(t) /\ n + 2 \in 1..Len(s) /\ (n + 2) - 1 = n + 1
        /\ (n + 1) + 1 = n + 2 /\ (n + 1) - 1 = n /\ n + 1 \in 0..Len(t)
        /\ n + 1 \in 1..(Len(s) - 1)
    BY <1>1
  <2>2. g[n + 2] = Executed(g[n + 1], s[n + 2])
    BY <2>1, <1>3
  <2>3. h[n + 1] = Executed(h[n], t[n + 1])
    BY <2>1, <1>4
  <2>4. t[n + 1] = s[n + 2]
    BY <2>1, <1>1
  <2> QED BY <2>1, <2>2, <2>3, <2>4, <1>6
<1>7. 0..Len(t) \subseteq S
  <2>1. Len(t) \in Nat
    BY <1>1
  <2> HIDE DEF S
  <2> QED BY <2>1, <1>5, <1>6, InductTo
<1>8. Len(t) \in S /\ Len(t) + 1 = Len(s)
  BY <1>1, <1>7
<1> QED BY <1>3, <1>4, <1>8 DEF t, e

(* No commands, no effect.                                                 *)
LEMMA ExecutedNone ==
    ASSUME NEW k \in Kernels, NEW s \in Seq(Commands), Len(s) = 0
    PROVE  ExecutedAll(k, s) = k
<1>2. PICK g : /\ g[0] = k /\ ExecutedAll(k, s) = g[Len(s)]
               /\ \A n \in 1..Len(s) : g[n] = Executed(g[n - 1], s[n])
               /\ \A n \in 0..Len(s) : g[n] \in Kernels
  BY FoldSteps
<1> QED BY <1>2

(* The two cases, for a command that deletes no chain.                     *)
LEMMA RewrittenChain ==
    ASSUME NEW k \in Kernels, NEW cmd \in Commands,
           cmd.op \in {"add", "insert"}, cmd.about \in DOMAIN k.chains
    PROVE  Executed(k, cmd).chains[cmd.about] =
              IF IsTarget(k, cmd.to) THEN NewRules(k.chains[cmd.about], cmd)
              ELSE k.chains[cmd.about]
<1> DEFINE c == cmd.about
           rs == NewRules(k.chains[c], cmd)
<1>1. CASE IsTarget(k, cmd.to)
  <2>1. Executed(k, cmd) = WithRules(k, c, rs)
    BY <1>1 DEF Executed, Exists, NewRules
  <2>2. k.chains \in [DOMAIN k.chains -> Seq(Names)]
        /\ k = [chains |-> k.chains, rules |-> k.rules, routes |-> k.routes]
    BY KernelParts
  <2> HIDE DEF rs
  <2>3. WithRules(k, c, rs).chains = [k.chains EXCEPT ![c] = rs]
    BY <2>2 DEF WithRules, WithChains
  <2>4. WithRules(k, c, rs).chains[c] = rs
    BY <2>2, <2>3
  <2> QED BY <1>1, <2>1, <2>4 DEF rs
<1>2. CASE ~IsTarget(k, cmd.to)
  <2>1. Executed(k, cmd) = k
    BY <1>2 DEF Executed
  <2> QED BY <2>1, <1>2
<1> QED BY <1>1, <1>2

(* Said of the commands one by one.                                        *)
LEMMA ChainAfter ==
    ASSUME NEW k \in Kernels, NEW cmd \in Commands, cmd.op # "delete", NEW c,
           NEW e, e = Executed(k, cmd)
    PROVE  /\ c \in DOMAIN e.chains <=>
                 c \in DOMAIN k.chains \/ (cmd.op = "new" /\ c = cmd.about)
           /\ c \in DOMAIN k.chains =>
                 e.chains[c] = IF Rewrites(k, cmd, c) THEN NewRules(k.chains[c], cmd)
                               ELSE k.chains[c]
           /\ c \in DOMAIN e.chains \ DOMAIN k.chains => e.chains[c] = <<>>
<1>1. Effect(k, cmd, e)
  BY ExecutedEffect
<1>2. /\ \A b \in DOMAIN k.chains : b \in DOMAIN e.chains
      /\ \A b \in DOMAIN e.chains :
          \/ /\ b \in DOMAIN k.chains
             /\ \/ e.chains[b] = k.chains[b]
                \/ b = cmd.about /\ e.chains[b] = NewRules(k.chains[b], cmd)
          \/ /\ b \notin DOMAIN k.chains /\ cmd.op = "new" /\ b = cmd.about
             /\ e.chains[b] = <<>>
  BY <1>1 DEF Effect
<1>3. c \in DOMAIN e.chains <=>
         c \in DOMAIN k.chains \/ (cmd.op = "new" /\ c = cmd.about)
  <2>1. cmd.op = "new" /\ c = cmd.about /\ c \notin DOMAIN k.chains =>
           c \in DOMAIN e.chains
    <3> SUFFICES ASSUME cmd.op = "new", c = cmd.about, c \notin DOMAIN k.chains
                 PROVE  c \in DOMAIN e.chains
      OBVIOUS
    <3> DEFINE f == [b \in DOMAIN k.chains \cup {c} |->
                        IF b = c THEN <<>> ELSE k.chains[b]]
    <3>1. e = WithChains(k, f)
      BY DEF Executed, Exists
    <3>2. k = [chains |-> k.chains, rules |-> k.rules, routes |-> k.routes]
      BY KernelParts
    <3>3. DOMAIN f = DOMAIN k.chains \cup {c}
      OBVIOUS
    <3> HIDE DEF f
    <3>4. e.chains = f
      BY <3>1, <3>2 DEF WithChains
    <3> QED BY <3>3, <3>4
  <2> QED BY <2>1, <1>2
<1>4. ASSUME c \in DOMAIN k.chains
      PROVE  e.chains[c] = IF Rewrites(k, cmd, c) THEN NewRules(k.chains[c], cmd)
                           ELSE k.chains[c]
  <2>1. c \in DOMAIN e.chains
    BY <1>3, <1>4
  <2>2. CASE c # cmd.about
    BY <2>1, <2>2, <1>2, <1>4 DEF Rewrites
  <2>3. CASE c = cmd.about /\ cmd.op \in {"flush", "remove"}
    BY <2>3, <1>1, <1>4 DEF Effect, Rewrites
  <2>4. CASE c = cmd.about /\ cmd.op \in {"add", "insert"}
    <3>1. e.chains[c] = IF IsTarget(k, cmd.to) THEN NewRules(k.chains[c], cmd)
                        ELSE k.chains[c]
      BY <2>4, <1>4, RewrittenChain
    <3>2. Rewrites(k, cmd, c) <=> IsTarget(k, cmd.to)
      BY <2>4 DEF Rewrites
    <3> QED BY <3>1, <3>2
  <2>5. CASE c = cmd.about /\ cmd.op \notin {"flush", "remove", "add", "insert"}
    <3>1. NewRules(k.chains[c], cmd) = k.chains[c]
      BY <2>5 DEF NewRules
    <3>2. ~Rewrites(k, cmd, c)
      BY <2>5 DEF Rewrites
    <3> QED BY <2>1, <3>1, <3>2, <1>2, <1>4
  <2> QED BY <2>2, <2>3, <2>4, <2>5
<1>5. c \in DOMAIN e.chains \ DOMAIN k.chains => e.chains[c] = <<>>
  BY <1>2
<1> QED BY <1>3, <1>4, <1>5

(* What becomes of the routes.                                             *)
LEMMA RoutesAfter ==
    ASSUME NEW k \in Kernels, NEW cmd \in Commands
    PROVE  Executed(k, cmd).routes =
              CASE cmd.op = "route replace" -> k.routes \cup {cmd.about[2]}
                [] cmd.op = "route flush"   -> k.routes \ {cmd.about[2]}
                [] OTHER -> k.routes
<1> DEFINE c == cmd.about
           e == Executed(k, cmd)
           t == cmd.to
<1>1. k = [chains |-> k.chains, rules |-> k.rules, routes |-> k.routes]
  BY KernelParts
<1>2. CASE cmd.op = "route replace"
  <2>1. e = [k EXCEPT !.routes = @ \cup {c[2]}]
    BY <1>2 DEF Executed
  <2> QED BY <2>1, <1>1, <1>2
<1>3. CASE cmd.op = "route flush"
  <2>1. e = [k EXCEPT !.routes = @ \ {c[2]}]
    BY <1>3 DEF Executed
  <2> QED BY <2>1, <1>1, <1>3
<1>4. CASE cmd.op \notin {"route replace", "route flush"}
  <2>1. \/ e = k \/ (\E f : e = WithChains(k, f))
        \/ e = [k EXCEPT !.rules = @ \cup {c[2]}]
        \/ e = [k EXCEPT !.rules = @ \ {c[2]}]
    <3>1. \/ e = k
          \/ cmd.op = "new" /\ ~Exists(k, c)
          \/ cmd.op = "flush" /\ Exists(k, c)
          \/ /\ cmd.op = "delete" /\ Exists(k, c) /\ ~Referenced(k, c)
             /\ k.chains[c] = <<>>
          \/ cmd.op = "add" /\ Exists(k, c) /\ IsTarget(k, t)
          \/ cmd.op = "insert" /\ Exists(k, c) /\ IsTarget(k, t)
          \/ cmd.op = "remove" /\ Exists(k, c)
          \/ cmd.op \in {"rule add", "rule delete"}
      BY <1>4 DEF Executed
    <3>2. CASE cmd.op = "new" /\ ~Exists(k, c)
      <4>1. e = WithChains(k, [b \in DOMAIN k.chains \cup {c} |->
                                  IF b = c THEN <<>> ELSE k.chains[b]])
        BY <3>2 DEF Executed
      <4> QED BY <4>1
    <3>3. CASE /\ cmd.op = "delete" /\ Exists(k, c) /\ ~Referenced(k, c)
               /\ k.chains[c] = <<>>
      <4>1. e = WithChains(k, [b \in DOMAIN k.chains \ {c} |-> k.chains[b]])
        BY <3>3 DEF Executed
      <4> QED BY <4>1
    <3>4. CASE cmd.op = "flush" /\ Exists(k, c)
      <4>1. e = WithChains(k, [k.chains EXCEPT ![c] = <<>>])
        BY <3>4 DEF Executed, WithRules
      <4> QED BY <4>1
    <3>5. CASE cmd.op = "add" /\ Exists(k, c) /\ IsTarget(k, t)
      <4>1. e = WithChains(k, [k.chains EXCEPT ![c] = Append(k.chains[c], t)])
        BY <3>5 DEF Executed, WithRules
      <4> QED BY <4>1
    <3>6. CASE cmd.op = "insert" /\ Exists(k, c) /\ IsTarget(k, t)
      <4>1. e = WithChains(k, [k.chains EXCEPT ![c] = <<t>> \o k.chains[c]])
        BY <3>6 DEF Executed, WithRules
      <4> QED BY <4>1
    <3>7. CASE cmd.op = "remove" /\ Exists(k, c)
      <4>1. e = WithChains(k, [k.chains EXCEPT ![c] = RemoveFirst(k.chains[c], t)])
        BY <3>7 DEF Executed, WithRules
      <4> QED BY <4>1
    <3>8. CASE cmd.op \in {"rule add", "rule delete"}
      BY <3>8 DEF Executed
    <3> QED BY <3>1, <3>2, <3>3, <3>4, <3>5, <3>6, <3>7, <3>8
  <2> HIDE DEF e
  <2>2. e.routes = k.routes
    <3>1. CASE e = k
      BY <3>1
    <3>2. CASE \E f : e = WithChains(k, f)
      BY <3>2, <1>1 DEF WithChains
    <3>3. CASE e = [k EXCEPT !.rules = @ \cup {c[2]}]
      BY <3>3, <1>1
    <3>4. CASE e = [k EXCEPT !.rules = @ \ {c[2]}]
      BY <3>4, <1>1
    <3> QED BY <2>1, <3>1, <3>2, <3>3, <3>4
  <2> QED BY <1>4, <2>2 DEF e
<1> QED BY <1>2, <1>3, <1>4

-----------------------------------------------------------------------------
(* The parts of commands.                                                  *)
LEMMA CommandParts ==
    /\ \A c : /\ New(c).op = "new" /\ New(c).about = c
              /\ Flush(c).op = "flush" /\ Flush(c).about = c
              /\ Delete(c).op = "delete" /\ Delete(c).about = c
    /\ \A c, t : /\ Add(c, t).op = "add" /\ Add(c, t).about = c /\ Add(c, t).to = t
                 /\ Insert(c, t).op = "insert" /\ Insert(c, t).about = c
                 /\ Insert(c, t).to = t
                 /\ RemoveRule(c, t).op = "remove" /\ RemoveRule(c, t).about = c
                 /\ RemoveRule(c, t).to = t
BY DEF New, Flush, Delete, Add, Insert, RemoveRule, Command

LEMMA PolicyParts ==
    \A i : /\ RouteReplace(i).op = "route replace"
           /\ RouteReplace(i).about = <<"table", i>>
           /\ RouteFlush(i).op = "route flush" /\ RouteFlush(i).about = <<"table", i>>
           /\ RuleAdd(i).op = "rule add" /\ RuleAdd(i).about = <<"table", i>>
           /\ RuleDelete(i).op = "rule delete" /\ RuleDelete(i).about = <<"table", i>>
BY DEF RouteReplace, RouteFlush, RuleAdd, RuleDelete, Command

-----------------------------------------------------------------------------
(* What lists that are like this are like after their first command.       *)
LEMMA ContainsTail ==
    ASSUME NEW S, NEW s \in Seq(S), s # <<>>, NEW x, Contains(s, x)
    PROVE  s[1] = x \/ Contains(Tail(s), x)
<1>1. /\ Len(Tail(s)) = Len(s) - 1 /\ Len(s) \in Nat \ {0}
      /\ \A n \in 1..(Len(s) - 1) : Tail(s)[n] = s[n + 1]
  BY Tailed
<1>2. PICK n \in 1..Len(s) : s[n] = x
  BY DEF Contains
<1> DEFINE t == Tail(s)
<1> HIDE DEF t
<1>3. CASE n # 1
  <2>1. n - 1 \in 1..Len(t) /\ (n - 1) + 1 = n
    BY <1>1, <1>3 DEF t
  <2>2. t[n - 1] = x
    BY <1>1, <1>2, <2>1 DEF t
  <2> QED BY <2>1, <2>2 DEF Contains, t
<1> QED BY <1>2, <1>3

LEMMA FreshTail ==
    ASSUME NEW S, NEW s \in Seq(S), s # <<>>, Fresh(s)
    PROVE  /\ Fresh(Tail(s))
           /\ s[1].op = "new" => Contains(Tail(s), Flush(s[1].about))
<1> DEFINE t == Tail(s)
<1>1. /\ Len(t) = Len(s) - 1 /\ Len(s) \in Nat \ {0}
      /\ \A n \in 1..(Len(s) - 1) : t[n] = s[n + 1]
  BY Tailed
<1> HIDE DEF t
<1>2. ASSUME NEW n \in 1..Len(t), t[n].op = "new"
      PROVE  \E m \in (n + 1)..Len(t) : t[m] = Flush(t[n].about)
  <2>1. n + 1 \in 1..Len(s) /\ t[n] = s[n + 1]
    BY <1>1
  <2>2. PICK m \in ((n + 1) + 1)..Len(s) : s[m] = Flush(s[n + 1].about)
    BY <1>2, <2>1 DEF Fresh
  <2>3. m - 1 \in (n + 1)..Len(t) /\ t[m - 1] = s[m]
    <3>1. m - 1 \in 1..(Len(s) - 1) /\ (m - 1) + 1 = m
      BY <1>1
    <3> QED BY <3>1, <1>1
  <2> QED BY <2>1, <2>2, <2>3
<1>3. ASSUME s[1].op = "new" PROVE Contains(t, Flush(s[1].about))
  <2>1. 1 \in 1..Len(s)
    BY <1>1
  <2>2. PICK m \in (1 + 1)..Len(s) : s[m] = Flush(s[1].about)
    BY <1>3, <2>1 DEF Fresh
  <2>3. m - 1 \in 1..Len(t) /\ t[m - 1] = s[m]
    <3>1. m - 1 \in 1..(Len(s) - 1) /\ (m - 1) + 1 = m
      BY <1>1
    <3> QED BY <3>1, <1>1
  <2> QED BY <2>2, <2>3 DEF Contains
<1> QED BY <1>2, <1>3 DEF Fresh, t

(* A chain that is ready stays so, and one that is next is made.           *)
LEMMA ReadyTail ==
    ASSUME NEW k \in Kernels, NEW s \in Seq(Commands), s # <<>>,
           s[1].op # "delete", NEW n \in 2..Len(s), NEW c,
           Ready(DOMAIN k.chains, s, n, c)
    PROVE  Ready(DOMAIN Executed(k, s[1]).chains, Tail(s), n - 1, c)
<1> DEFINE t == Tail(s)
           e == Executed(k, s[1])
<1>1. /\ Len(t) = Len(s) - 1 /\ Len(s) \in Nat \ {0} /\ s[1] \in Commands
      /\ \A m \in 1..(Len(s) - 1) : t[m] = s[m + 1]
  BY Tailed
<1>2. /\ c \in DOMAIN k.chains => c \in DOMAIN e.chains
      /\ s[1] = New(c) => c \in DOMAIN e.chains
  BY <1>1, ChainAfter, CommandParts
<1> HIDE DEF t, e
<1>3. CASE \E m \in 1..(n - 1) : s[m] = New(c)
  <2>1. PICK m \in 1..(n - 1) : s[m] = New(c)
    BY <1>3
  <2>2. CASE m # 1
    <3>1. m - 1 \in 1..((n - 1) - 1) /\ m - 1 \in 1..(Len(s) - 1) /\ (m - 1) + 1 = m
      BY <1>1, <2>2
    <3>2. t[m - 1] = New(c)
      BY <1>1, <2>1, <3>1
    <3> QED BY <3>1, <3>2 DEF Ready, t, e
  <2> QED BY <1>2, <2>1, <2>2 DEF Ready, t, e
<1>4. CASE c \in DOMAIN k.chains
  BY <1>2, <1>4 DEF Ready, t, e
<1> QED BY <1>3, <1>4 DEF Ready

LEMMA ReadyFirst ==
    ASSUME NEW D, NEW s, NEW c, Ready(D, s, 1, c) PROVE c \in D
<1>1. 1..(1 - 1) = {}
  OBVIOUS
<1> QED BY <1>1 DEF Ready

LEMMA GroundedTail ==
    ASSUME NEW w \in Kernels, NEW s \in Seq(Commands), s # <<>>,
           s[1].op # "delete", Grounded(w, s)
    PROVE  /\ Grounded(Executed(w, s[1]), Tail(s))
           /\ s[1].op \in {"add", "insert"} /\ s[1].about \notin Base =>
                 IsTarget(w, s[1].to)
<1> DEFINE t == Tail(s)
           e == Executed(w, s[1])
           D == DOMAIN w.chains
           E == DOMAIN e.chains
<1>1. /\ Len(t) = Len(s) - 1 /\ Len(s) \in Nat \ {0} /\ s[1] \in Commands
      /\ \A m \in 1..(Len(s) - 1) : t[m] = s[m + 1]
  BY Tailed
<1>2. ASSUME NEW n \in 1..Len(s), s[n].op \in {"add", "insert"}, s[n].about \notin Base
      PROVE  s[n].to[1] \in Verdicts \/ Ready(D, s, n, s[n].to)
  BY <1>2 DEF Grounded, IsTarget, Exists, Ready
<1>3. ASSUME NEW n \in 1..Len(t), t[n].op \in {"add", "insert"}, t[n].about \notin Base
      PROVE  t[n].to[1] \in Verdicts \/ Ready(E, t, n, t[n].to)
  <2>1. n + 1 \in 1..Len(s) /\ t[n] = s[n + 1] /\ n + 1 \in 2..Len(s) /\ (n + 1) - 1 = n
    BY <1>1
  <2>2. s[n + 1].to[1] \in Verdicts \/ Ready(D, s, n + 1, s[n + 1].to)
    BY <1>2, <1>3, <2>1
  <2> QED BY <2>1, <2>2, ReadyTail
<1> HIDE DEF t, e
<1>4. Grounded(e, t)
  BY <1>3 DEF Grounded, IsTarget, Exists, Ready
<1>5. s[1].op \in {"add", "insert"} /\ s[1].about \notin Base => IsTarget(w, s[1].to)
  <2>1. 1 \in 1..Len(s)
    BY <1>1
  <2> QED BY <1>2, <2>1, ReadyFirst DEF IsTarget, Exists
<1> QED BY <1>4, <1>5 DEF t, e

(* One command more, in both kernels.                                      *)
LEMMA TracksStep ==
    ASSUME NEW k \in Kernels, NEW w \in Kernels, NEW s \in Seq(Commands), s # <<>>,
           s[1].op # "delete", Base \subseteq DOMAIN k.chains,
           Tracks(k, w, s), Fresh(s), Grounded(w, s)
    PROVE  Tracks(Executed(k, s[1]), Executed(w, s[1]), Tail(s))
<1> DEFINE cmd == s[1]
           t == Tail(s)
           e == Executed(k, cmd)
           f == Executed(w, cmd)
<1>0. cmd \in Commands
  BY Tailed
<1>1. IsTarget(w, cmd.to) => IsTarget(k, cmd.to)
  BY DEF IsTarget, Exists, Tracks
<1>2. cmd.op \in {"add", "insert"} /\ cmd.about \notin Base => IsTarget(w, cmd.to)
  BY GroundedTail
<1>3. cmd.op = "new" => Contains(t, Flush(cmd.about))
  BY FreshTail
<1>4. \A c : Contains(s, Flush(c)) => cmd = Flush(c) \/ Contains(t, Flush(c))
  BY ContainsTail
<1>5. SUFFICES ASSUME NEW c \in DOMAIN f.chains \ Base
               PROVE  /\ c \in DOMAIN e.chains
                      /\ e.chains[c] = f.chains[c] \/ Contains(t, Flush(c))
  BY DEF Tracks, Exists
<1>6. /\ c \in DOMAIN e.chains <=>
            c \in DOMAIN k.chains \/ (cmd.op = "new" /\ c = cmd.about)
      /\ c \in DOMAIN k.chains =>
            e.chains[c] = IF Rewrites(k, cmd, c) THEN NewRules(k.chains[c], cmd)
                          ELSE k.chains[c]
  BY <1>0, ChainAfter
<1>7. /\ c \in DOMAIN w.chains \/ (cmd.op = "new" /\ c = cmd.about)
      /\ c \in DOMAIN w.chains =>
            f.chains[c] = IF Rewrites(w, cmd, c) THEN NewRules(w.chains[c], cmd)
                          ELSE w.chains[c]
  BY <1>0, ChainAfter
<1> HIDE DEF e, f, t, cmd
<1>8. CASE c \notin DOMAIN w.chains
  BY <1>3, <1>6, <1>7, <1>8
<1>9. CASE c \in DOMAIN w.chains
  <2>1. /\ c \in DOMAIN k.chains
        /\ k.chains[c] = w.chains[c] \/ Contains(s, Flush(c))
    BY <1>9 DEF Tracks, Exists
  <2>2. c = cmd.about => (Rewrites(k, cmd, c) <=> Rewrites(w, cmd, c))
    BY <1>1, <1>2 DEF Rewrites
  <2>3. Rewrites(k, cmd, c) <=> Rewrites(w, cmd, c)
    BY <2>2 DEF Rewrites
  <2>4. CASE k.chains[c] = w.chains[c]
    BY <2>1, <2>3, <2>4, <1>6, <1>7, <1>9
  <2>5. CASE cmd = Flush(c)
    <3>1. /\ Rewrites(k, cmd, c) /\ Rewrites(w, cmd, c)
          /\ NewRules(k.chains[c], cmd) = <<>> /\ NewRules(w.chains[c], cmd) = <<>>
      BY <2>5, CommandParts DEF Rewrites, NewRules
    <3> QED BY <3>1, <2>1, <1>6, <1>7, <1>9
  <2>6. CASE Contains(t, Flush(c))
    BY <2>1, <2>6, <1>6
  <2> QED BY <2>1, <2>4, <2>5, <2>6, <1>4
<1> QED BY <1>8, <1>9

(* A sequence with one element put before it.                              *)
LEMMA Prefixed ==
    ASSUME NEW S, NEW rs \in Seq(S), NEW x \in S, NEW u, u = <<x>> \o rs
    PROVE  /\ Len(u) = Len(rs) + 1 /\ u[1] = x
           /\ \A n \in 1..Len(rs) : u[1 + n] = rs[n]
<1>1. DOMAIN u = 1..(Len(rs) + 1) /\ Len(u) = Len(rs) + 1
  OBVIOUS
<1>2. \A n \in 1..(Len(rs) + 1) : u[n] = IF n = 1 THEN x ELSE rs[n - 1]
  OBVIOUS
<1>3. Len(rs) \in Nat /\ 1 \in 1..(Len(rs) + 1)
  OBVIOUS
<1>4. \A n \in 1..Len(rs) : 1 + n \in 1..(Len(rs) + 1) /\ 1 + n # 1 /\ (1 + n) - 1 = n
  BY <1>3
<1> QED BY <1>1, <1>2, <1>3, <1>4

(* A rule more does not hide a jump.                                       *)
LEMMA ContainsMore ==
    ASSUME NEW S, NEW rs \in Seq(S), NEW x \in S, NEW t
    PROVE  /\ Contains(rs, t) \/ x = t => Contains(Append(rs, x), t)
           /\ Contains(rs, t) \/ x = t => Contains(<<x>> \o rs, t)
<1>1. /\ Len(Append(rs, x)) = Len(rs) + 1 /\ Len(rs) \in Nat
      /\ \A n \in 1..Len(rs) : Append(rs, x)[n] = rs[n]
      /\ Append(rs, x)[Len(rs) + 1] = x
  OBVIOUS
<1>2. /\ Len(<<x>> \o rs) = Len(rs) + 1 /\ (<<x>> \o rs)[1] = x
      /\ \A n \in 1..Len(rs) : (<<x>> \o rs)[1 + n] = rs[n]
  BY Prefixed
<1>3. ASSUME Contains(rs, t) \/ x = t PROVE Contains(Append(rs, x), t)
  <2> DEFINE u == Append(rs, x)
  <2> HIDE DEF u
  <2>1. CASE x = t
    <3>1. Len(u) \in 1..Len(u) /\ u[Len(u)] = t
      BY <1>1, <2>1 DEF u
    <3> QED BY <3>1 DEF Contains, u
  <2>2. CASE Contains(rs, t)
    <3>1. PICK n \in 1..Len(rs) : rs[n] = t
      BY <2>2 DEF Contains
    <3>2. n \in 1..Len(u) /\ u[n] = t
      BY <1>1, <3>1 DEF u
    <3> QED BY <3>2 DEF Contains, u
  <2> QED BY <1>3, <2>1, <2>2
<1>4. ASSUME Contains(rs, t) \/ x = t PROVE Contains(<<x>> \o rs, t)
  <2> DEFINE u == <<x>> \o rs
  <2> HIDE DEF u
  <2>1. CASE x = t
    <3>1. 1 \in 1..Len(u) /\ u[1] = t
      BY <1>1, <1>2, <2>1 DEF u
    <3> QED BY <3>1 DEF Contains, u
  <2>2. CASE Contains(rs, t)
    <3>1. PICK n \in 1..Len(rs) : rs[n] = t
      BY <2>2 DEF Contains
    <3>2. 1 + n \in 1..Len(u) /\ u[1 + n] = t
      BY <1>1, <1>2, <3>1 DEF u
    <3> QED BY <3>2 DEF Contains, u
  <2> QED BY <1>4, <2>1, <2>2
<1> QED BY <1>3, <1>4

(* A jump nothing is taken from its chain, or that is added, is there.     *)
LEMMA JumpKept ==
    ASSUME NEW k \in Kernels, NEW cmd \in Commands, NEW b, NEW t,
           cmd.op # "delete",
           \/ Jumps(k, b, t) /\ ~Undoes(cmd, b)
           \/ /\ cmd \in {Add(b, t), Insert(b, t)} /\ b \in DOMAIN k.chains
              /\ IsTarget(k, t)
    PROVE  Jumps(Executed(k, cmd), b, t)
<1> DEFINE e == Executed(k, cmd)
<1>1. b \in DOMAIN k.chains
  BY DEF Jumps, Exists
<1>2. /\ b \in DOMAIN e.chains
      /\ e.chains[b] = IF Rewrites(k, cmd, b) THEN NewRules(k.chains[b], cmd)
                       ELSE k.chains[b]
  BY <1>1, ChainAfter
<1>3. k.chains[b] \in Seq(Names) /\ cmd.to \in Names
  BY <1>1, KernelParts DEF Commands
<1> HIDE DEF e
<1>4. CASE Rewrites(k, cmd, b) /\ cmd.op \in {"add", "insert"}
  <2>1. Contains(k.chains[b], t) \/ cmd.to = t
    BY CommandParts DEF Jumps
  <2>2. Contains(NewRules(k.chains[b], cmd), t)
    <3>1. CASE cmd.op = "add"
      BY <3>1, <2>1, <1>3, ContainsMore DEF NewRules
    <3>2. CASE cmd.op = "insert"
      BY <3>2, <2>1, <1>3, ContainsMore DEF NewRules
    <3> QED BY <3>1, <3>2, <1>4
  <2> QED BY <2>2, <1>2, <1>4 DEF Jumps, Exists, e
<1>5. CASE ~Rewrites(k, cmd, b)
  <2>1. Jumps(k, b, t)
    BY <1>5, CommandParts DEF Rewrites
  <2> QED BY <2>1, <1>2, <1>5 DEF Jumps, Exists, e
<1>6. CASE Rewrites(k, cmd, b) /\ cmd.op \in {"flush", "remove"}
  BY <1>6, CommandParts DEF Rewrites, Undoes
<1> QED BY <1>4, <1>5, <1>6 DEF Rewrites

(* What is to be settled stays so over a command of the list.              *)
LEMMA SettlesStep ==
    ASSUME NEW k \in Kernels, NEW s \in Seq(Commands), s # <<>>,
           s[1].op # "delete", NEW b, NEW t, Settles(k, s, b, t)
    PROVE  Settles(Executed(k, s[1]), Tail(s), b, t)
<1> DEFINE r == Tail(s)
           e == Executed(k, s[1])
<1>1. /\ Len(r) = Len(s) - 1 /\ Len(s) \in Nat \ {0} /\ s[1] \in Commands
      /\ \A m \in 1..(Len(s) - 1) : r[m] = s[m + 1]
  BY Tailed
<1>2. ASSUME NEW n \in 1..Len(s), \A m \in (n + 1)..Len(s) : ~Undoes(s[m], b)
      PROVE  \A m \in n..Len(r) : ~Undoes(r[m], b)
  <2> SUFFICES ASSUME NEW m \in n..Len(r) PROVE ~Undoes(r[m], b)
    OBVIOUS
  <2>1. m \in 1..(Len(s) - 1) /\ m + 1 \in (n + 1)..Len(s)
    BY <1>1
  <2> QED BY <2>1, <1>1, <1>2
<1>3. CASE Jumps(k, b, t) /\ \A n \in 1..Len(s) : ~Undoes(s[n], b)
  <2>1. 1 \in 1..Len(s) /\ \A m \in (1 + 1)..Len(s) : m \in 1..Len(s)
    BY <1>1
  <2>2. ~Undoes(s[1], b) /\ \A m \in 1..Len(r) : ~Undoes(r[m], b)
    BY <2>1, <1>2, <1>3
  <2>3. Jumps(e, b, t)
    BY <2>2, <1>1, <1>3, JumpKept
  <2> QED BY <2>2, <2>3 DEF Settles
<1>4. CASE Lands(DOMAIN k.chains, s, b, t)
  <2>1. PICK n \in 1..Len(s) :
          /\ s[n] \in {Add(b, t), Insert(b, t)}
          /\ \A m \in (n + 1)..Len(s) : ~Undoes(s[m], b)
          /\ Ready(DOMAIN k.chains, s, n, b)
          /\ t[1] \in Verdicts \/ Ready(DOMAIN k.chains, s, n, t)
    BY <1>4 DEF Lands
  <2>2. \A m \in n..Len(r) : ~Undoes(r[m], b)
    BY <1>2, <2>1
  <2>3. CASE n = 1
    <3>1. b \in DOMAIN k.chains /\ IsTarget(k, t)
      BY <2>1, <2>3, ReadyFirst DEF IsTarget, Exists
    <3>2. Jumps(e, b, t)
      BY <3>1, <2>1, <2>3, <1>1, JumpKept
    <3> QED BY <3>2, <2>2, <2>3 DEF Settles
  <2>4. CASE n # 1
    <3>1. /\ n \in 2..Len(s) /\ n - 1 \in 1..Len(r) /\ (n - 1) + 1 = n
          /\ n - 1 \in 1..(Len(s) - 1)
      BY <2>4, <1>1
    <3>2. r[n - 1] \in {Add(b, t), Insert(b, t)}
      BY <3>1, <2>1, <1>1
    <3>3. /\ Ready(DOMAIN e.chains, r, n - 1, b)
          /\ t[1] \in Verdicts \/ Ready(DOMAIN e.chains, r, n - 1, t)
      BY <3>1, <2>1, ReadyTail
    <3> HIDE DEF r, e
    <3>4. \A m \in ((n - 1) + 1)..Len(r) : ~Undoes(r[m], b)
      BY <3>1, <2>2
    <3> QED BY <3>1, <3>2, <3>3, <3>4 DEF Lands, Settles, r, e
  <2> QED BY <2>3, <2>4
<1> QED BY <1>3, <1>4 DEF Settles

(* So is what is to be alone in the hook.                                  *)
LEMMA AloneStep ==
    ASSUME NEW k \in Kernels, NEW s \in Seq(Commands), s # <<>>,
           s[1].op # "delete", HOOK \in DOMAIN k.chains, Alone(k, s)
    PROVE  Alone(Executed(k, s[1]), Tail(s))
<1> DEFINE r == Tail(s)
           e == Executed(k, s[1])
<1>1. /\ Len(r) = Len(s) - 1 /\ Len(s) \in Nat \ {0} /\ s[1] \in Commands
      /\ \A m \in 1..(Len(s) - 1) : r[m] = s[m + 1]
  BY Tailed
<1>2. ASSUME NEW n \in 1..Len(s), \A m \in (n + 1)..Len(s) : s[m].about # HOOK
      PROVE  \A m \in n..Len(r) : r[m].about # HOOK
  <2> SUFFICES ASSUME NEW m \in n..Len(r) PROVE r[m].about # HOOK
    OBVIOUS
  <2>1. m \in 1..(Len(s) - 1) /\ m + 1 \in (n + 1)..Len(s)
    BY <1>1
  <2> QED BY <2>1, <1>1, <1>2
<1>3. e.chains[HOOK] = IF Rewrites(k, s[1], HOOK) THEN NewRules(k.chains[HOOK], s[1])
                       ELSE k.chains[HOOK]
  BY <1>1, ChainAfter
<1>4. CASE k.chains[HOOK] = <<NAT>> /\ \A n \in 1..Len(s) : s[n].about # HOOK
  <2>1. 1 \in 1..Len(s) /\ \A m \in (1 + 1)..Len(s) : m \in 1..Len(s)
    BY <1>1
  <2>2. s[1].about # HOOK /\ \A m \in 1..Len(r) : r[m].about # HOOK
    BY <2>1, <1>2, <1>4
  <2>3. e.chains[HOOK] = <<NAT>>
    BY <2>2, <1>3, <1>4 DEF Rewrites
  <2> QED BY <2>2, <2>3 DEF Alone
<1>5. CASE Empties(DOMAIN k.chains, s, k.chains[HOOK] = <<>>)
  <2>1. PICK n \in 1..Len(s) :
          /\ s[n] = Insert(HOOK, NAT)
          /\ \A m \in (n + 1)..Len(s) : s[m].about # HOOK
          /\ Ready(DOMAIN k.chains, s, n, NAT)
          /\ n = 1 => k.chains[HOOK] = <<>>
          /\ n # 1 => s[n - 1] = Flush(HOOK)
    BY <1>5 DEF Empties
  <2>2. \A m \in n..Len(r) : r[m].about # HOOK
    BY <1>2, <2>1
  <2>3. CASE n = 1
    <3>1. NAT \in DOMAIN k.chains
      BY <2>1, <2>3, ReadyFirst
    <3>2. Rewrites(k, s[1], HOOK)
      BY <3>1, <2>1, <2>3, CommandParts DEF Rewrites, IsTarget, Exists
    <3>3. NewRules(k.chains[HOOK], s[1]) = <<NAT>>
      <4>1. NewRules(k.chains[HOOK], s[1]) = <<NAT>> \o k.chains[HOOK]
        BY <2>1, <2>3, CommandParts DEF NewRules
      <4>2. k.chains[HOOK] = <<>>
        BY <2>1, <2>3
      <4>3. <<NAT>> \o <<>> = <<NAT>>
        OBVIOUS
      <4> QED BY <4>1, <4>2, <4>3
    <3>4. e.chains[HOOK] = <<NAT>>
      BY <3>2, <3>3, <1>3
    <3> QED BY <3>4, <2>2, <2>3 DEF Alone
  <2>4. CASE n # 1
    <3>1. /\ n \in 2..Len(s) /\ n - 1 \in 1..Len(r) /\ (n - 1) + 1 = n
          /\ n - 1 \in 1..(Len(s) - 1)
      BY <2>4, <1>1
    <3>2. r[n - 1] = Insert(HOOK, NAT)
      BY <3>1, <2>1, <1>1
    <3>3. Ready(DOMAIN e.chains, r, n - 1, NAT)
      BY <3>1, <2>1, ReadyTail
    <3>4. n - 1 = 1 => e.chains[HOOK] = <<>>
      <4> SUFFICES ASSUME n - 1 = 1 PROVE e.chains[HOOK] = <<>>
        OBVIOUS
      <4>1. s[1] = Flush(HOOK)
        BY <2>1, <2>4
      <4>2. Rewrites(k, s[1], HOOK) /\ NewRules(k.chains[HOOK], s[1]) = <<>>
        BY <4>1, CommandParts DEF Rewrites, NewRules
      <4> QED BY <4>2, <1>3
    <3>5. n - 1 # 1 => r[(n - 1) - 1] = Flush(HOOK)
      <4> SUFFICES ASSUME n - 1 # 1 PROVE r[(n - 1) - 1] = Flush(HOOK)
        OBVIOUS
      <4>1. (n - 1) - 1 \in 1..(Len(s) - 1) /\ ((n - 1) - 1) + 1 = n - 1
        BY <3>1
      <4> QED BY <4>1, <2>1, <2>4, <1>1
    <3> HIDE DEF r, e
    <3>6. \A m \in ((n - 1) + 1)..Len(r) : r[m].about # HOOK
      BY <3>1, <2>2
    <3>7. Empties(DOMAIN e.chains, r, e.chains[HOOK] = <<>>)
      BY <3>1, <3>2, <3>3, <3>4, <3>5, <3>6 DEF Empties
    <3> QED BY <3>7 DEF Alone, r, e
  <2> QED BY <2>3, <2>4
<1> QED BY <1>4, <1>5 DEF Alone

-----------------------------------------------------------------------------
(* A beginning of a chain is one of the longer chain.                      *)
LEMMA PrefixAppend ==
    ASSUME NEW S, NEW a \in Seq(S), NEW b \in Seq(S), NEW x \in S, IsPrefix(a, b)
    PROVE  IsPrefix(a, Append(b, x))
<1>1. /\ Len(a) \in Nat /\ Len(b) \in Nat /\ Len(a) <= Len(b)
      /\ SubSeq(a, 1, Len(a)) = SubSeq(b, 1, Len(a))
  BY DEF IsPrefix
<1>2. SubSeq(Append(b, x), 1, Len(a)) = SubSeq(b, 1, Len(a))
  BY <1>1
<1> QED BY <1>1, <1>2 DEF IsPrefix

LEMMA Grows ==
    ASSUME NEW k \in Kernels, NEW c \in DOMAIN k.chains, NEW s \in Seq(Adding(c))
    PROVE  LET e == ExecutedAll(k, s) IN
           e \in Kernels /\ c \in DOMAIN e.chains /\ IsPrefix(k.chains[c], e.chains[c])
<1>0. s \in Seq(Commands)
  BY SeqMonotone DEF Adding
<1>1. PICK g : /\ g[0] = k /\ ExecutedAll(k, s) = g[Len(s)]
               /\ \A n \in 1..Len(s) : g[n] = Executed(g[n - 1], s[n])
               /\ \A n \in 0..Len(s) : g[n] \in Kernels
  BY <1>0, FoldSteps
<1> DEFINE S == {n \in 0..Len(s) : /\ c \in DOMAIN g[n].chains
                                   /\ IsPrefix(k.chains[c], g[n].chains[c])}
<1>2. 0 \in S
  <2>1. k.chains[c] \in Seq(Names)
    BY KernelParts
  <2>2. IsPrefix(k.chains[c], k.chains[c])
    BY <2>1 DEF IsPrefix
  <2>3. 0 \in 0..Len(s)
    OBVIOUS
  <2> QED BY <1>1, <2>2, <2>3
<1>3. ASSUME NEW n \in 0..(Len(s) - 1), n \in S PROVE n + 1 \in S
  <2>1. /\ n + 1 \in 1..Len(s) /\ n + 1 \in 0..Len(s) /\ (n + 1) - 1 = n
        /\ n \in 0..Len(s)
    OBVIOUS
  <2> DEFINE a == g[n]
             b == g[n + 1]
             cmd == s[n + 1]
  <2>2. a \in Kernels /\ cmd \in Adding(c) /\ b = Executed(a, cmd)
    BY <2>1, <1>1
  <2>3. c \in DOMAIN a.chains /\ IsPrefix(k.chains[c], a.chains[c])
    BY <1>3
  <2> HIDE DEF a, b, cmd
  <2>4. cmd \in Commands /\ cmd.op # "delete" /\ cmd.to \in Names
    BY <2>2 DEF Adding, Commands
  <2>5. /\ c \in DOMAIN b.chains
        /\ b.chains[c] = IF Rewrites(a, cmd, c) THEN NewRules(a.chains[c], cmd)
                         ELSE a.chains[c]
    BY <2>2, <2>3, <2>4, ChainAfter
  <2>6. b.chains[c] = a.chains[c] \/ b.chains[c] = Append(a.chains[c], cmd.to)
    <3>1. Rewrites(a, cmd, c) => cmd.op = "add"
      BY <2>2 DEF Adding, Rewrites
    <3> QED BY <3>1, <2>5 DEF NewRules
  <2>7. k.chains[c] \in Seq(Names) /\ a.chains[c] \in Seq(Names)
    BY <2>2, <2>3, KernelParts
  <2>8. IsPrefix(k.chains[c], b.chains[c])
    BY <2>3, <2>4, <2>6, <2>7, PrefixAppend
  <2> QED BY <2>1, <2>5, <2>8 DEF b
<1>4. Len(s) \in Nat
  OBVIOUS
<1>5. 0..Len(s) \subseteq S
  <2> HIDE DEF S
  <2> QED BY <1>2, <1>3, <1>4, InductTo
<1>6. Len(s) \in 0..Len(s)
  BY <1>4
<1> QED BY <1>1, <1>5, <1>6

-----------------------------------------------------------------------------
(* What lists that are put together are like.                              *)
LEMMA ContainsJoin ==
    ASSUME NEW S, NEW a \in Seq(S), NEW b \in Seq(S), NEW x
    PROVE  Contains(a, x) \/ Contains(b, x) => Contains(a \o b, x)
<1> DEFINE u == a \o b
<1>1. u = a \o b
  OBVIOUS
<1> HIDE DEF u
<1>2. /\ Len(u) = Len(a) + Len(b) /\ Len(a) \in Nat /\ Len(b) \in Nat
      /\ \A n \in 1..Len(a) : u[n] = a[n]
      /\ \A n \in 1..Len(b) : u[Len(a) + n] = b[n]
  BY <1>1, Joined
<1>3. ASSUME NEW n \in 1..Len(a), a[n] = x PROVE Contains(u, x)
  <2>1. n \in 1..Len(u) /\ u[n] = x
    BY <1>2, <1>3
  <2> QED BY <2>1 DEF Contains
<1>4. ASSUME NEW n \in 1..Len(b), b[n] = x PROVE Contains(u, x)
  <2>1. Len(a) + n \in 1..Len(u) /\ u[Len(a) + n] = x
    BY <1>2, <1>4
  <2> QED BY <2>1 DEF Contains
<1> QED BY <1>1, <1>3, <1>4 DEF Contains

LEMMA FreshJoin ==
    ASSUME NEW S, NEW a \in Seq(S), NEW b \in Seq(S), Fresh(a), Fresh(b)
    PROVE  Fresh(a \o b)
<1> DEFINE u == a \o b
<1>1. u = a \o b
  OBVIOUS
<1> HIDE DEF u
<1>2. /\ Len(u) = Len(a) + Len(b) /\ Len(a) \in Nat /\ Len(b) \in Nat
      /\ \A n \in 1..Len(a) : u[n] = a[n]
      /\ \A n \in 1..Len(b) : u[Len(a) + n] = b[n]
      /\ \A n \in (Len(a) + 1)..Len(u) :
            n - Len(a) \in 1..Len(b) /\ u[n] = b[n - Len(a)]
  BY <1>1, Joined
<1>3. ASSUME NEW n \in 1..Len(u), u[n].op = "new"
      PROVE  \E m \in (n + 1)..Len(u) : u[m] = Flush(u[n].about)
  <2>1. CASE n \in 1..Len(a)
    <3>1. PICK m \in (n + 1)..Len(a) : a[m] = Flush(a[n].about)
      BY <1>2, <1>3, <2>1 DEF Fresh
    <3>2. m \in 1..Len(a) /\ m \in (n + 1)..Len(u)
      BY <1>2, <2>1
    <3> QED BY <1>2, <2>1, <3>1, <3>2
  <2>2. CASE n \in (Len(a) + 1)..Len(u)
    <3> DEFINE l == n - Len(a)
    <3>1. l \in 1..Len(b) /\ u[n] = b[l]
      BY <1>2, <2>2
    <3>2. PICK m \in (l + 1)..Len(b) : b[m] = Flush(b[l].about)
      BY <1>3, <3>1 DEF Fresh
    <3>3. m \in 1..Len(b) /\ Len(a) + m \in (n + 1)..Len(u)
      BY <1>2, <3>1, <2>2
    <3> QED BY <1>2, <3>1, <3>2, <3>3
  <2>3. n \in 1..Len(a) \/ n \in (Len(a) + 1)..Len(u)
    BY <1>2
  <2> QED BY <2>1, <2>2, <2>3
<1> QED BY <1>1, <1>3 DEF Fresh

LEMMA GroundedJoin ==
    ASSUME NEW S, NEW a \in Seq(S), NEW b \in Seq(S), NEW w,
           Grounded(w, a), Grounded(w, b)
    PROVE  Grounded(w, a \o b)
<1> DEFINE u == a \o b
<1>1. u = a \o b
  OBVIOUS
<1> HIDE DEF u
<1>2. /\ Len(u) = Len(a) + Len(b) /\ Len(a) \in Nat /\ Len(b) \in Nat
      /\ \A n \in 1..Len(a) : u[n] = a[n]
      /\ \A n \in 1..Len(b) : u[Len(a) + n] = b[n]
      /\ \A n \in (Len(a) + 1)..Len(u) :
            n - Len(a) \in 1..Len(b) /\ u[n] = b[n - Len(a)]
  BY <1>1, Joined
<1>3. ASSUME NEW n \in 1..Len(u), u[n].op \in {"add", "insert"}, u[n].about \notin Base
      PROVE  IsTarget(w, u[n].to) \/ \E m \in 1..(n - 1) : u[m] = New(u[n].to)
  <2>1. CASE n \in 1..Len(a)
    <3>1. IsTarget(w, a[n].to) \/ \E m \in 1..(n - 1) : a[m] = New(a[n].to)
      BY <1>2, <1>3, <2>1 DEF Grounded
    <3>2. \A m \in 1..(n - 1) : m \in 1..Len(a)
      BY <1>2, <2>1
    <3> QED BY <1>2, <2>1, <3>1, <3>2
  <2>2. CASE n \in (Len(a) + 1)..Len(u)
    <3> DEFINE l == n - Len(a)
    <3>1. l \in 1..Len(b) /\ u[n] = b[l]
      BY <1>2, <2>2
    <3>2. IsTarget(w, b[l].to) \/ \E m \in 1..(l - 1) : b[m] = New(b[l].to)
      BY <1>3, <3>1 DEF Grounded
    <3>3. \A m \in 1..(l - 1) : m \in 1..Len(b) /\ Len(a) + m \in 1..(n - 1)
      BY <1>2, <3>1, <2>2
    <3> QED BY <1>2, <3>1, <3>2, <3>3
  <2>3. n \in 1..Len(a) \/ n \in (Len(a) + 1)..Len(u)
    BY <1>2
  <2> QED BY <2>1, <2>2, <2>3
<1> QED BY <1>1, <1>3 DEF Grounded

(* Before a list one may come that makes the chains of E; behind it one    *)
(* that takes nothing from chain b.                                        *)
LEMMA LandsJoin ==
    ASSUME NEW S, NEW a \in Seq(S), NEW s \in Seq(S), NEW D, NEW E, NEW b, NEW t
    PROVE  /\ Lands(D, a, b, t) /\ (\A n \in 1..Len(s) : ~Undoes(s[n], b)) =>
                 Lands(D, a \o s, b, t)
           /\ Lands(E, s, b, t) /\ (\A x \in E : x \in D \/ Contains(a, New(x))) =>
                 Lands(D, a \o s, b, t)
<1> DEFINE u == a \o s
<1>1. u = a \o s
  OBVIOUS
<1> HIDE DEF u
<1>2. /\ Len(u) = Len(a) + Len(s) /\ Len(a) \in Nat /\ Len(s) \in Nat
      /\ \A n \in 1..Len(a) : u[n] = a[n]
      /\ \A n \in 1..Len(s) : u[Len(a) + n] = s[n]
      /\ \A n \in (Len(a) + 1)..Len(u) :
            n - Len(a) \in 1..Len(s) /\ u[n] = s[n - Len(a)]
  BY <1>1, Joined
<1>3. ASSUME Lands(D, a, b, t), \A n \in 1..Len(s) : ~Undoes(s[n], b)
      PROVE  Lands(D, u, b, t)
  <2>1. PICK n \in 1..Len(a) :
          /\ a[n] \in {Add(b, t), Insert(b, t)}
          /\ \A m \in (n + 1)..Len(a) : ~Undoes(a[m], b)
          /\ Ready(D, a, n, b) /\ (t[1] \in Verdicts \/ Ready(D, a, n, t))
    BY <1>3 DEF Lands
  <2>2. n \in 1..Len(u) /\ u[n] = a[n]
    BY <1>2
  <2>3. ASSUME NEW m \in (n + 1)..Len(u) PROVE ~Undoes(u[m], b)
    <3>1. CASE m \in (n + 1)..Len(a)
      <4>1. m \in 1..Len(a)
        BY <1>2, <3>1
      <4> QED BY <4>1, <1>2, <2>1, <3>1
    <3>2. CASE m \in (Len(a) + 1)..Len(u)
      BY <1>2, <1>3, <3>2
    <3>3. m \in (n + 1)..Len(a) \/ m \in (Len(a) + 1)..Len(u)
      BY <1>2
    <3> QED BY <3>1, <3>2, <3>3
  <2>4. ASSUME NEW x, Ready(D, a, n, x) PROVE Ready(D, u, n, x)
    <3>1. \A m \in 1..(n - 1) : m \in 1..Len(a)
      BY <1>2
    <3> QED BY <3>1, <2>4, <1>2 DEF Ready
  <2> QED BY <2>1, <2>2, <2>3, <2>4 DEF Lands
<1>4. ASSUME Lands(E, s, b, t), \A x \in E : x \in D \/ Contains(a, New(x))
      PROVE  Lands(D, u, b, t)
  <2>1. PICK n \in 1..Len(s) :
          /\ s[n] \in {Add(b, t), Insert(b, t)}
          /\ \A m \in (n + 1)..Len(s) : ~Undoes(s[m], b)
          /\ Ready(E, s, n, b)
          /\ t[1] \in Verdicts \/ Ready(E, s, n, t)
    BY <1>4 DEF Lands
  <2> DEFINE l == Len(a) + n
  <2>2. l \in 1..Len(u) /\ u[l] = s[n]
    BY <1>2
  <2>3. ASSUME NEW m \in (l + 1)..Len(u) PROVE ~Undoes(u[m], b)
    <3>1. m \in (Len(a) + 1)..Len(u) /\ m - Len(a) \in (n + 1)..Len(s)
      BY <1>2
    <3> QED BY <3>1, <1>2, <2>1
  <2>4. ASSUME NEW x, Ready(E, s, n, x) PROVE Ready(D, u, l, x)
    <3>1. CASE Contains(a, New(x))
      <4>1. PICK m \in 1..Len(a) : a[m] = New(x)
        BY <3>1 DEF Contains
      <4>2. m \in 1..(l - 1) /\ u[m] = New(x)
        BY <1>2, <4>1
      <4> QED BY <4>2 DEF Ready
    <3>2. CASE \E m \in 1..(n - 1) : s[m] = New(x)
      <4>1. PICK m \in 1..(n - 1) : s[m] = New(x)
        BY <3>2
      <4>2. m \in 1..Len(s) /\ Len(a) + m \in 1..(l - 1)
        BY <1>2
      <4>3. u[Len(a) + m] = New(x)
        BY <1>2, <4>1, <4>2
      <4> QED BY <4>2, <4>3 DEF Ready
    <3> QED BY <1>4, <2>4, <3>1, <3>2 DEF Ready
  <2> HIDE DEF l
  <2> QED BY <2>1, <2>2, <2>3, <2>4 DEF Lands
<1> QED BY <1>1, <1>3, <1>4

LEMMA EmptiesJoin ==
    ASSUME NEW S, NEW a \in Seq(S), NEW s \in Seq(S), NEW D, NEW e,
           Empties(D, a, e), \A n \in 1..Len(s) : s[n].about # HOOK
    PROVE  Empties(D, a \o s, e)
<1> DEFINE u == a \o s
<1>1. u = a \o s
  OBVIOUS
<1> HIDE DEF u
<1>2. /\ Len(u) = Len(a) + Len(s) /\ Len(a) \in Nat /\ Len(s) \in Nat
      /\ \A n \in 1..Len(a) : u[n] = a[n]
      /\ \A n \in (Len(a) + 1)..Len(u) :
            n - Len(a) \in 1..Len(s) /\ u[n] = s[n - Len(a)]
  BY <1>1, Joined
<1>3. PICK n \in 1..Len(a) :
        /\ a[n] = Insert(HOOK, NAT)
        /\ \A m \in (n + 1)..Len(a) : a[m].about # HOOK
        /\ Ready(D, a, n, NAT)
        /\ n = 1 => e
        /\ n # 1 => a[n - 1] = Flush(HOOK)
  BY DEF Empties
<1>4. n \in 1..Len(u) /\ u[n] = a[n]
  BY <1>2
<1>5. ASSUME NEW m \in (n + 1)..Len(u) PROVE u[m].about # HOOK
  <2>1. CASE m \in (n + 1)..Len(a)
    <3>1. m \in 1..Len(a)
      BY <1>2, <2>1
    <3> QED BY <3>1, <1>2, <1>3, <2>1
  <2>2. CASE m \in (Len(a) + 1)..Len(u)
    BY <1>2, <2>2
  <2>3. m \in (n + 1)..Len(a) \/ m \in (Len(a) + 1)..Len(u)
    BY <1>2
  <2> QED BY <2>1, <2>2, <2>3
<1>6. Ready(D, u, n, NAT)
  <2>1. \A m \in 1..(n - 1) : m \in 1..Len(a)
    BY <1>2
  <2> QED BY <2>1, <1>2, <1>3 DEF Ready
<1>7. n # 1 => u[n - 1] = Flush(HOOK)
  <2> SUFFICES ASSUME n # 1 PROVE u[n - 1] = Flush(HOOK)
    OBVIOUS
  <2>1. n - 1 \in 1..Len(a)
    BY <1>2
  <2> QED BY <2>1, <1>2, <1>3
<1>8. Empties(D, u, e)
  BY <1>3, <1>4, <1>5, <1>6, <1>7 DEF Empties
<1> QED BY <1>1, <1>8

-----------------------------------------------------------------------------
(* Lists that make no chain, or one first and empty it next.               *)
LEMMA FreshPlain ==
    ASSUME NEW S, NEW s \in Seq(S), \A x \in S : x.op # "new"
    PROVE  Fresh(s)
<1>1. \A n \in 1..Len(s) : s[n] \in S
  OBVIOUS
<1> QED BY <1>1 DEF Fresh

LEMMA FreshHead ==
    ASSUME NEW s, NEW N \in Nat \ {0, 1}, Len(s) = N, s[2] = Flush(s[1].about),
           \A n \in 2..N : s[n].op # "new"
    PROVE  Fresh(s)
<1>1. ASSUME NEW n \in 1..Len(s), s[n].op = "new"
      PROVE  \E m \in (n + 1)..Len(s) : s[m] = Flush(s[n].about)
  <2>1. n = 1 /\ 2 \in (n + 1)..Len(s)
    BY <1>1
  <2> QED BY <2>1
<1> QED BY <1>1 DEF Fresh

LEMMA OpKinds ==
    /\ \A c : New(c).op = "new" /\ New(c).about = c
    /\ \A c : Flush(c).op # "new" /\ Flush(c).about = c
    /\ \A c, t : /\ Add(c, t).op # "new" /\ Insert(c, t).op # "new"
                 /\ RemoveRule(c, t).op # "new"
    /\ \A i : /\ RouteReplace(i).op # "new" /\ RuleAdd(i).op # "new"
              /\ RuleDelete(i).op # "new"
BY CommandParts, PolicyParts

LEMMA HeadFresh ==
    /\ \A c, t : Fresh(<<New(c), Flush(c), t>>) \/ t.op = "new"
    /\ \A c, t, u : \/ Fresh(<<New(c), Flush(c), t, u>>) \/ t.op = "new"
                    \/ u.op = "new"
    /\ \A c, t, u, v : \/ Fresh(<<New(c), Flush(c), t, u, v>>) \/ t.op = "new"
                       \/ u.op = "new" \/ v.op = "new"
<1>1. ASSUME NEW c, NEW t, t.op # "new" PROVE Fresh(<<New(c), Flush(c), t>>)
  <2> DEFINE s == <<New(c), Flush(c), t>>
  <2>1. Len(s) = 3 /\ s[1] = New(c) /\ s[2] = Flush(c) /\ s[3] = t
    OBVIOUS
  <2> HIDE DEF s
  <2>2. \A n \in 2..3 : s[n].op # "new"
    <3>1. \A n \in 2..3 : n = 2 \/ n = 3
      OBVIOUS
    <3> QED BY <1>1, <2>1, <3>1, OpKinds
  <2>3. s[2] = Flush(s[1].about)
    BY <2>1, OpKinds
  <2>4. Fresh(s)
    <3>1. 3 \in Nat \ {0, 1}
      OBVIOUS
    <3> QED BY <2>1, <2>2, <2>3, <3>1, FreshHead
  <2> QED BY <2>4 DEF s
<1>2. ASSUME NEW c, NEW t, NEW u, t.op # "new", u.op # "new"
      PROVE Fresh(<<New(c), Flush(c), t, u>>)
  <2> DEFINE s == <<New(c), Flush(c), t, u>>
  <2>1. Len(s) = 4 /\ s[1] = New(c) /\ s[2] = Flush(c) /\ s[3] = t /\ s[4] = u
    OBVIOUS
  <2> HIDE DEF s
  <2>2. \A n \in 2..4 : s[n].op # "new"
    <3>1. \A n \in 2..4 : n = 2 \/ n = 3 \/ n = 4
      OBVIOUS
    <3> QED BY <1>2, <2>1, <3>1, OpKinds
  <2>3. s[2] = Flush(s[1].about)
    BY <2>1, OpKinds
  <2>4. Fresh(s)
    <3>1. 4 \in Nat \ {0, 1}
      OBVIOUS
    <3> QED BY <2>1, <2>2, <2>3, <3>1, FreshHead
  <2> QED BY <2>4 DEF s
<1>3. ASSUME NEW c, NEW t, NEW u, NEW v, t.op # "new", u.op # "new", v.op # "new"
      PROVE Fresh(<<New(c), Flush(c), t, u, v>>)
  <2> DEFINE s == <<New(c), Flush(c), t, u, v>>
  <2>1. Len(s) = 5 /\ s[1] = New(c) /\ s[2] = Flush(c) /\ s[3] = t /\ s[4] = u
        /\ s[5] = v
    OBVIOUS
  <2> HIDE DEF s
  <2>2. \A n \in 2..5 : s[n].op # "new"
    <3>1. \A n \in 2..5 : n = 2 \/ n = 3 \/ n = 4 \/ n = 5
      OBVIOUS
    <3> QED BY <1>3, <2>1, <3>1, OpKinds
  <2>3. s[2] = Flush(s[1].about)
    BY <2>1, OpKinds
  <2>4. Fresh(s)
    <3>1. 5 \in Nat \ {0, 1}
      OBVIOUS
    <3> QED BY <2>1, <2>2, <2>3, <3>1, FreshHead
  <2> QED BY <2>4 DEF s
<1> QED BY <1>1, <1>2, <1>3

-----------------------------------------------------------------------------
(* What init does for an interface, and for all of them.                   *)
LEMMA SetupShape ==
    ASSUME NEW c \in Configs, NEW i \in Ifaces
    PROVE  /\ InitIface(c, i) \in Seq(Commands) /\ Fresh(InitIface(c, i))
           /\ Contains(InitIface(c, i), New(ISP(i)))
           /\ Contains(InitIface(c, i), RouteReplace(i))
           /\ c.nat => Contains(InitIface(c, i), Add(NAT, SNAT(i)))
<1> DEFINE a == <<New(ISP(i)), Flush(ISP(i)), Add(ISP(i), CONNMARK(i)),
                  Add(ISP(i), MARK(i)), Add(ISP(i), ACCEPT)>>
           b == <<New(INBOUND(i)), Flush(INBOUND(i)),
                  Add(INBOUND(i), CONNMARK(i)), Insert(PREROUTING, INBOUND(i))>>
           d == <<RouteReplace(i), RuleDelete(i), RuleAdd(i)>>
           e == <<Add(NAT, SNAT(i))>>
           S == SetupCmds(i)
           ab == a \o If(c.sticky, b)
           abd == ab \o d
<1>0. InitIface(c, i) \in Seq(Commands)
  BY SetupEnds
<1>1. a \in Seq(S) /\ b \in Seq(S) /\ d \in Seq(S) /\ e \in Seq(S)
  BY DEF SetupCmds
<1>2. InitIface(c, i) = abd \o If(c.nat, e)
  BY DEF InitIface
<1>3. Fresh(a) /\ Fresh(b)
  BY HeadFresh, OpKinds
<1>4. Fresh(<<>>)
  BY DEF Fresh
<1>5. Fresh(d)
  <2>1. d \in Seq({RouteReplace(i), RuleDelete(i), RuleAdd(i)})
    OBVIOUS
  <2>2. \A x \in {RouteReplace(i), RuleDelete(i), RuleAdd(i)} : x.op # "new"
    BY OpKinds
  <2> HIDE DEF d
  <2> QED BY <2>1, <2>2, FreshPlain
<1>6. Fresh(e)
  <2>1. e \in Seq({Add(NAT, SNAT(i))})
    OBVIOUS
  <2>2. \A x \in {Add(NAT, SNAT(i))} : x.op # "new"
    BY OpKinds
  <2> HIDE DEF e
  <2> QED BY <2>1, <2>2, FreshPlain
<1>7. Contains(a, New(ISP(i)))
  <2>1. Len(a) = 5 /\ a[1] = New(ISP(i))
    OBVIOUS
  <2> HIDE DEF a
  <2>2. 1 \in 1..Len(a)
    BY <2>1
  <2> QED BY <2>1, <2>2 DEF Contains
<1>8. Contains(d, RouteReplace(i))
  <2>1. Len(d) = 3 /\ d[1] = RouteReplace(i)
    OBVIOUS
  <2> HIDE DEF d
  <2>2. 1 \in 1..Len(d)
    BY <2>1
  <2> QED BY <2>1, <2>2 DEF Contains
<1>9. Contains(e, Add(NAT, SNAT(i)))
  <2>1. Len(e) = 1 /\ e[1] = Add(NAT, SNAT(i))
    OBVIOUS
  <2> HIDE DEF e
  <2>2. 1 \in 1..Len(e)
    BY <2>1
  <2> QED BY <2>1, <2>2 DEF Contains
<1> HIDE DEF a, b, d, e, S
<1>10. /\ If(c.sticky, b) \in Seq(S) /\ If(c.nat, e) \in Seq(S)
       /\ Fresh(If(c.sticky, b)) /\ Fresh(If(c.nat, e))
       /\ c.nat => Contains(If(c.nat, e), Add(NAT, SNAT(i)))
  BY <1>1, <1>3, <1>4, <1>6, <1>9 DEF If
<1>11. ab \in Seq(S) /\ Fresh(ab) /\ Contains(ab, New(ISP(i)))
  BY <1>1, <1>3, <1>7, <1>10, FreshJoin, ContainsJoin
<1> HIDE DEF ab
<1>12. /\ abd \in Seq(S) /\ Fresh(abd) /\ Contains(abd, New(ISP(i)))
       /\ Contains(abd, RouteReplace(i))
  BY <1>1, <1>5, <1>8, <1>11, FreshJoin, ContainsJoin
<1> HIDE DEF abd
<1>13. /\ Fresh(InitIface(c, i))
       /\ Contains(InitIface(c, i), New(ISP(i)))
       /\ Contains(InitIface(c, i), RouteReplace(i))
       /\ c.nat => Contains(InitIface(c, i), Add(NAT, SNAT(i)))
  BY <1>2, <1>10, <1>12, FreshJoin, ContainsJoin
<1> QED BY <1>0, <1>13

(* Every interface has its commands in the list.                           *)
LEMMA SetupHas ==
    ASSUME NEW c \in Configs, NEW i \in Ifaces, NEW x, Contains(InitIface(c, i), x)
    PROVE  Contains(SetupList(c), x)
<1> DEFINE P == Seq(Commands)
           Q == {t \in Seq(Commands) : Contains(t, x)}
           f == [j \in 1..NumIfaces |-> InitIface(c, j)]
<1>1. f \in [1..NumIfaces -> P]
  BY SetupShape DEF Ifaces
<1>2. \A a, b \in P : a \o b \in P
  OBVIOUS
<1>3. \A a \in P, b \in Q : a \o b \in Q /\ b \o a \in Q
  <2> SUFFICES ASSUME NEW a \in P, NEW b \in Q PROVE a \o b \in Q /\ b \o a \in Q
    OBVIOUS
  <2>1. a \o b \in P /\ b \o a \in P
    OBVIOUS
  <2>2. Contains(a \o b, x) /\ Contains(b \o a, x)
    BY ContainsJoin
  <2> QED BY <2>1, <2>2
<1>4. i \in 1..NumIfaces /\ f[i] \in Q
  BY SetupShape DEF Ifaces
<1>5. <<>> \in P
  OBVIOUS
<1> HIDE DEF P, Q, f
<1>6. FlattenSeq(f) \in Q
  BY <1>1, <1>2, <1>3, <1>4, <1>5, FlattenHas, NumIfacesAssumption
<1> QED BY <1>6 DEF SetupList, Q, f

(* The list is fresh, and adds only to chains it makes.                    *)
LEMMA SetupListShape ==
    ASSUME NEW c \in Configs
    PROVE  /\ SetupList(c) \in Seq(UNION {SetupCmds(i) : i \in Ifaces})
           /\ SetupList(c) \in Seq(Commands) /\ Fresh(SetupList(c))
           /\ \A i \in Ifaces : /\ Contains(SetupList(c), New(ISP(i)))
                                /\ Contains(SetupList(c), RouteReplace(i))
                                /\ c.nat => Contains(SetupList(c), Add(NAT, SNAT(i)))
<1> DEFINE f == [j \in 1..NumIfaces |-> InitIface(c, j)]
           S == UNION {SetupCmds(i) : i \in Ifaces}
           P == {s \in Seq(Commands) : Fresh(s)}
<1>1. f \in [1..NumIfaces -> Seq(S)]
  <2>1. \A i \in Ifaces : SetupCmds(i) \subseteq S
    OBVIOUS
  <2> HIDE DEF S
  <2>2. \A i \in Ifaces : InitIface(c, i) \in Seq(S)
    BY <2>1, SetupType, SeqMonotone
  <2> QED BY <2>2 DEF Ifaces
<1>2. f \in [1..NumIfaces -> P]
  BY SetupShape DEF Ifaces
<1>3. \A a, b \in P : a \o b \in P
  <2> SUFFICES ASSUME NEW a \in P, NEW b \in P PROVE a \o b \in P
    OBVIOUS
  <2>1. a \o b \in Seq(Commands)
    OBVIOUS
  <2> QED BY <2>1, FreshJoin
<1>4. <<>> \in P
  BY DEF Fresh
<1> HIDE DEF f, P, S
<1>5. FlattenSeq(f) \in P
  BY <1>2, <1>3, <1>4, FlattenIn, NumIfacesAssumption
<1>6. FlattenSeq(f) \in Seq(S)
  BY <1>1, FlattenType, NumIfacesAssumption
<1>7. SetupList(c) \in P /\ SetupList(c) \in Seq(S)
  BY <1>5, <1>6 DEF SetupList, f
<1>8. ASSUME NEW i \in Ifaces
      PROVE  /\ Contains(SetupList(c), New(ISP(i)))
             /\ Contains(SetupList(c), RouteReplace(i))
             /\ c.nat => Contains(SetupList(c), Add(NAT, SNAT(i)))
  BY SetupShape, SetupHas
<1> QED BY <1>7, <1>8 DEF P, S

(* The commands for an interface leave the jumps of the base chains and of *)
(* the nat chain alone.                                                    *)
LEMMA SetupUndoes ==
    \A i : \A cmd \in SetupCmds(i) :
        cmd.about # HOOK /\ \A b \in Base \cup {NAT} : ~Undoes(cmd, b)
<1> DEFINE Good(cmd) == cmd.about # HOOK /\ \A b \in Base \cup {NAT} : ~Undoes(cmd, b)
<1>1. \A c, t : c # HOOK => Good(New(c)) /\ Good(Add(c, t)) /\ Good(Insert(c, t))
  BY CommandParts DEF Undoes
<1>2. \A c : c \notin Base \cup {NAT} => Good(Flush(c))
  BY CommandParts DEF Undoes, Base
<1>3. \A i : <<"table", i>> # HOOK
  BY DEF HOOK
<1>4. \A i : Good(RouteReplace(i)) /\ Good(RuleDelete(i)) /\ Good(RuleAdd(i))
  BY <1>3, PolicyParts DEF Undoes
<1>5. /\ \A i : {ISP(i), INBOUND(i)} \cap (Base \cup {NAT}) = {}
      /\ PREROUTING # HOOK /\ NAT # HOOK /\ HOOK \in Base
  BY DEF ISP, INBOUND, Base, NAT, PREROUTING, OUTPUT, HOOK
<1> HIDE DEF Good
<1>6. ASSUME NEW i, NEW cmd \in SetupCmds(i) PROVE Good(cmd)
  <2>1. /\ ISP(i) \notin Base \cup {NAT} /\ INBOUND(i) \notin Base \cup {NAT}
        /\ ISP(i) # HOOK /\ INBOUND(i) # HOOK
    BY <1>5
  <2>2. /\ Good(New(ISP(i))) /\ Good(Flush(ISP(i))) /\ Good(Add(ISP(i), CONNMARK(i)))
        /\ Good(Add(ISP(i), MARK(i))) /\ Good(Add(ISP(i), ACCEPT))
    BY <2>1, <1>1, <1>2
  <2>3. /\ Good(New(INBOUND(i))) /\ Good(Flush(INBOUND(i)))
        /\ Good(Add(INBOUND(i), CONNMARK(i))) /\ Good(Insert(PREROUTING, INBOUND(i)))
        /\ Good(Add(NAT, SNAT(i)))
    BY <2>1, <1>1, <1>2, <1>5
  <2> QED BY <2>2, <2>3, <1>4 DEF SetupCmds
<1> QED BY <1>6 DEF Good

(* The commands of the nat hook are about the hook.                        *)
LEMMA HookAbout ==
    \A x, y : \A cmd \in HookSet(x, y) : cmd.about = x \/ cmd.about = y
BY CommandParts DEF HookSet

(* A chain hooked in lands, and is made and emptied.                       *)
LEMMA HookLands ==
    ASSUME NEW D, NEW x \in D, NEW y, x # y
    PROVE  /\ Lands(D, HookChain(x, y), x, y) /\ Fresh(HookChain(x, y))
           /\ Contains(HookChain(x, y), New(y))
           /\ HookChain(x, y) \in Seq(HookSet(x, y))
<1> DEFINE s == HookChain(x, y)
<1>1. s = <<New(y), Flush(y), Add(y, ACCEPT), RemoveRule(x, y), Insert(x, y)>>
  BY DEF HookChain
<1>2. s \in Seq(HookSet(x, y))
  BY <1>1 DEF HookSet
<1>3. Fresh(s)
  BY <1>1, HeadFresh, OpKinds
<1>4. Len(s) = 5 /\ s[1] = New(y) /\ s[5] = Insert(x, y)
  BY <1>1
<1> HIDE DEF s
<1>5. 1 \in 1..Len(s) /\ 5 \in 1..Len(s) /\ 1 \in 1..(5 - 1)
  BY <1>4
<1>6. \A m \in (5 + 1)..Len(s) : FALSE
  BY <1>4
<1>7. Ready(D, s, 5, y) /\ Ready(D, s, 5, x)
  BY <1>4, <1>5 DEF Ready
<1>8. Lands(D, s, x, y)
  BY <1>4, <1>5, <1>6, <1>7 DEF Lands
<1>9. Contains(s, New(y))
  BY <1>4, <1>5 DEF Contains
<1> QED BY <1>2, <1>3, <1>8, <1>9 DEF s

(* The nat chain comes alone into its hook.                                *)
LEMMA NatEmpties ==
    ASSUME NEW D, NEW e
    PROVE  LET s == <<New(NAT), Flush(NAT), Flush(HOOK), Insert(HOOK, NAT)>> IN
           /\ Empties(D, s, e) /\ Fresh(s) /\ Contains(s, New(NAT))
           /\ s \in Seq({New(NAT), Flush(NAT), Flush(HOOK), Insert(HOOK, NAT)})
<1> DEFINE s == <<New(NAT), Flush(NAT), Flush(HOOK), Insert(HOOK, NAT)>>
<1>1. s \in Seq({New(NAT), Flush(NAT), Flush(HOOK), Insert(HOOK, NAT)})
  OBVIOUS
<1>2. Fresh(s)
  BY HeadFresh, OpKinds
<1>3. Len(s) = 4 /\ s[1] = New(NAT) /\ s[3] = Flush(HOOK) /\ s[4] = Insert(HOOK, NAT)
  OBVIOUS
<1> HIDE DEF s
<1>4. /\ 1 \in 1..Len(s) /\ 4 \in 1..Len(s) /\ 1 \in 1..(4 - 1) /\ 4 # 1
      /\ 4 - 1 = 3
  BY <1>3
<1>5. \A m \in (4 + 1)..Len(s) : FALSE
  BY <1>3
<1>6. Ready(D, s, 4, NAT)
  BY <1>3, <1>4 DEF Ready
<1>7. s[4 - 1] = Flush(HOOK)
  BY <1>3, <1>4
<1>8. Empties(D, s, e)
  BY <1>3, <1>4, <1>5, <1>6, <1>7 DEF Empties
<1>9. Contains(s, New(NAT))
  BY <1>3, <1>4 DEF Contains
<1> QED BY <1>1, <1>2, <1>8, <1>9 DEF s

(* The source nat rule of an interface lands where the nat chain is.       *)
LEMMA NatLands ==
    ASSUME NEW D, NAT \in D, NEW s, Len(s) \in Nat, NEW i,
           \A n \in 1..Len(s) : ~Undoes(s[n], NAT),
           Contains(s, Add(NAT, SNAT(i)))
    PROVE  Lands(D, s, NAT, SNAT(i))
<1>1. PICK n \in 1..Len(s) : s[n] = Add(NAT, SNAT(i))
  BY DEF Contains
<1>2. \A m \in (n + 1)..Len(s) : m \in 1..Len(s)
  BY <1>1
<1>3. SNAT(i)[1] \in Verdicts
  BY DEF SNAT, Verdicts
<1>4. Ready(D, s, n, NAT)
  BY DEF Ready
<1> QED BY <1>1, <1>2, <1>3, <1>4 DEF Lands

(* What init makes, and what it leaves in the base and the nat chains,     *)
(* whatever chains D there are before.                                     *)
LEMMA InitShape ==
    ASSUME NEW c \in Configs, NEW D, Base \subseteq D, NEW e
    PROVE  LET t == InitCmds(c) IN
           /\ Fresh(t)
           /\ \A x \in Needed(c) : Contains(t, New(x))
           /\ \A i \in Ifaces : Contains(t, RouteReplace(i))
           /\ Lands(D, t, PREROUTING, PRE)
           /\ c.local => Lands(D, t, OUTPUT, OUT)
           /\ c.nat => /\ Empties(D, t, e)
                       /\ \A i \in Ifaces : Lands(D, t, NAT, SNAT(i))
<1> DEFINE N == <<New(NAT), Flush(NAT), Flush(HOOK), Insert(HOOK, NAT)>>
           O == HookChain(OUTPUT, OUT)
           n == If(c.nat, N)
           p == HookChain(PREROUTING, PRE)
           o == If(c.local, O)
           s == SetupList(c)
           np == n \o p
           npo == np \o o
           t == npo \o s
<1>1. /\ InitCmds(c) = t
      /\ n \in Seq(Commands) /\ p \in Seq(Commands)
      /\ o \in Seq(Commands) /\ s \in Seq(Commands)
  BY InitParts DEF SetupList
<1>2. Fresh(<<>>)
  BY DEF Fresh
<1>3. Fresh(n) /\ (c.nat => Empties(D, n, e) /\ Contains(n, New(NAT)))
  BY <1>2, NatEmpties DEF If
<1>4. PREROUTING \in D /\ OUTPUT \in D /\ PREROUTING # PRE /\ OUTPUT # OUT
  BY DEF Base, PREROUTING, PRE, OUTPUT, OUT
<1>5. /\ Lands(D, p, PREROUTING, PRE) /\ Fresh(p) /\ Contains(p, New(PRE))
      /\ p \in Seq(HookSet(PREROUTING, PRE))
  BY <1>4, HookLands
<1>6. /\ Lands(D, O, OUTPUT, OUT) /\ Fresh(O) /\ Contains(O, New(OUT))
      /\ O \in Seq(HookSet(OUTPUT, OUT))
  BY <1>4, HookLands
<1>7. /\ Fresh(o) /\ o \in Seq(HookSet(OUTPUT, OUT))
      /\ c.local => Lands(D, o, OUTPUT, OUT) /\ Contains(o, New(OUT))
  BY <1>2, <1>6 DEF If
<1>8. \A m \in 1..Len(p) : p[m].about # HOOK
  <2>1. HOOK # PREROUTING /\ HOOK # PRE
    BY DEF HOOK, PREROUTING, PRE
  <2>2. \A m \in 1..Len(p) : p[m] \in HookSet(PREROUTING, PRE)
    BY <1>5
  <2> QED BY <2>1, <2>2, HookAbout
<1>9. \A m \in 1..Len(o) : o[m].about # HOOK /\ ~Undoes(o[m], PREROUTING)
  <2>1. HOOK # OUTPUT /\ HOOK # OUT /\ PREROUTING # OUTPUT /\ PREROUTING # OUT
    BY DEF HOOK, OUTPUT, OUT, PREROUTING
  <2>2. \A m \in 1..Len(o) : o[m] \in HookSet(OUTPUT, OUT)
    BY <1>7
  <2> QED BY <2>1, <2>2, HookAbout DEF Undoes
<1>10. /\ Fresh(s)
       /\ \A i \in Ifaces : /\ Contains(s, New(ISP(i)))
                            /\ Contains(s, RouteReplace(i))
                            /\ c.nat => Contains(s, Add(NAT, SNAT(i)))
  BY SetupListShape
<1>11. \A m \in 1..Len(s) :
          s[m].about # HOOK /\ \A b \in Base \cup {NAT} : ~Undoes(s[m], b)
  <2> DEFINE S == UNION {SetupCmds(i) : i \in Ifaces}
  <2>1. \A cmd \in S : cmd.about # HOOK /\ \A b \in Base \cup {NAT} : ~Undoes(cmd, b)
    BY SetupUndoes
  <2>2. s \in Seq(S)
    BY SetupListShape
  <2> HIDE DEF S, s
  <2>3. \A m \in 1..Len(s) : s[m] \in S
    BY <2>2
  <2> QED BY <2>1, <2>3
<1> HIDE DEF N, O, n, p, o, s
<1>12. np \in Seq(Commands)
  BY <1>1
<1>13. /\ Fresh(np) /\ Contains(np, New(PRE))
       /\ c.nat => Empties(D, np, e) /\ Contains(np, New(NAT))
  BY <1>1, <1>3, <1>5, <1>8, FreshJoin, ContainsJoin, EmptiesJoin
<1>14. Lands(D, np, PREROUTING, PRE)
  BY <1>1, <1>5, LandsJoin
<1> HIDE DEF np
<1>15. npo \in Seq(Commands)
  BY <1>1, <1>12
<1>16. /\ Fresh(npo) /\ Contains(npo, New(PRE))
       /\ c.local => Contains(npo, New(OUT))
       /\ c.nat => Empties(D, npo, e) /\ Contains(npo, New(NAT))
  BY <1>1, <1>7, <1>9, <1>12, <1>13, FreshJoin, ContainsJoin, EmptiesJoin
<1>17. Lands(D, npo, PREROUTING, PRE)
  BY <1>1, <1>9, <1>12, <1>14, LandsJoin
<1>18. c.local => Lands(D, npo, OUTPUT, OUT)
  BY <1>1, <1>7, <1>12, LandsJoin
<1> HIDE DEF npo
<1>19. /\ Fresh(t) /\ Contains(t, New(PRE))
       /\ c.local => Contains(t, New(OUT))
       /\ c.nat => Empties(D, t, e)
  BY <1>1, <1>10, <1>11, <1>15, <1>16, FreshJoin, ContainsJoin, EmptiesJoin
<1>20. \A i \in Ifaces : Contains(t, New(ISP(i))) /\ Contains(t, RouteReplace(i))
  BY <1>1, <1>10, <1>15, ContainsJoin
<1>21. \A m \in 1..Len(s) : ~Undoes(s[m], PREROUTING) /\ ~Undoes(s[m], OUTPUT)
                            /\ ~Undoes(s[m], NAT)
  BY <1>11 DEF Base
<1>22. Lands(D, t, PREROUTING, PRE) /\ (c.local => Lands(D, t, OUTPUT, OUT))
  BY <1>1, <1>15, <1>17, <1>18, <1>21, LandsJoin
<1>23. ASSUME c.nat, NEW i \in Ifaces PROVE Lands(D, t, NAT, SNAT(i))
  <2>1. Lands(D \cup {NAT}, s, NAT, SNAT(i))
    <3>1. NAT \in D \cup {NAT} /\ Len(s) \in Nat
      BY <1>1
    <3> QED BY <3>1, <1>10, <1>21, <1>23, NatLands
  <2>2. \A x \in D \cup {NAT} : x \in D \/ Contains(npo, New(x))
    BY <1>16, <1>23
  <2> QED BY <2>1, <2>2, <1>1, <1>15, LandsJoin
<1>24. \A x \in Needed(c) : Contains(t, New(x))
  BY <1>19, <1>20 DEF Needed
<1> HIDE DEF t
<1> QED BY <1>1, <1>19, <1>20, <1>22, <1>23, <1>24

-----------------------------------------------------------------------------
(* No run rebuilds a base chain, the nat chain or one of an interface.     *)
LEMMA RebuiltNames ==
    ASSUME NEW c
    PROVE  /\ Rebuilt(c) \subseteq Names /\ PRE \in Rebuilt(c)
           /\ LimitChains \subseteq Rebuilt(c)
           /\ c.local => OUT \in Rebuilt(c)
           /\ Rebuilt(c) \cap (Base \cup {NAT}) = {}
           /\ Aims \subseteq Names
<1>1. Rebuilt(c) \subseteq Names /\ Aims \subseteq Names
  BY ChainNames, LimitNames DEF Rebuilt, Aims
<1>2. LimitChains \cap (Base \cup {NAT}) = {}
  BY DEF LimitChains, PreLimit, OutLimit, Base, NAT, PREROUTING, OUTPUT, HOOK
<1>3. PRE \notin Base \cup {NAT} /\ OUT \notin Base \cup {NAT}
  BY DEF PRE, OUT, Base, NAT, PREROUTING, OUTPUT, HOOK
<1> QED BY <1>1, <1>2, <1>3 DEF Rebuilt

LEMMA CommandsMade ==
    \A x, t \in Names : /\ New(x) \in Commands /\ Flush(x) \in Commands
                        /\ Add(x, t) \in Commands /\ Insert(x, t) \in Commands
BY ChainNames DEF Commands, New, Flush, Add, Insert, Command, Ops

LEMMA RebuildsParts ==
    ASSUME NEW c, NEW cmd \in Rebuilds(c)
    PROVE  /\ cmd \in Commands /\ cmd.about \in Rebuilt(c)
           /\ cmd.op \in {"new", "flush", "add"}
           /\ cmd.op = "flush" => cmd = Flush(cmd.about)
<1>0. \A r \in Nat \cap Limits(c) :
         /\ PreLimit(r) \in LimitChains /\ OutLimit(r) \in LimitChains
         /\ PreLimit(r) \in Rebuilt(c) /\ OutLimit(r) \in Rebuilt(c)
         /\ PreLimit(r) \in Names /\ OutLimit(r) \in Names
  BY RebuiltNames DEF LimitChains
<1>1. cmd.about \in Rebuilt(c) /\ cmd.op \in {"new", "flush", "add"}
  BY <1>0, CommandParts, RebuiltNames DEF Rebuilds
<1>2. cmd.op = "flush" => cmd = Flush(cmd.about)
  BY CommandParts DEF Rebuilds
<1>3. cmd \in Commands
  BY <1>0, CommandsMade, RebuiltNames DEF Rebuilds
<1> QED BY <1>1, <1>2, <1>3

(* A list of such commands empties what it makes: it makes nothing.        *)
LEMMA PlainRound ==
    ASSUME NEW c, NEW w, \A i \in Ifaces : ISP(i) \in DOMAIN w.chains,
           NEW s \in Seq(Plain(c))
    PROVE  s \in Rounds(c, w)
<1>1. Plain(c) \subseteq Rebuilds(c)
  BY RebuiltNames DEF Plain, Rebuilds
<1>2. s \in Seq(Rebuilds(c))
  BY <1>1, SeqMonotone
<1>3. \A x \in Plain(c) : x.op # "new"
  BY OpKinds DEF Plain
<1>4. Fresh(s)
  BY <1>3, FreshPlain
<1>5. \A t \in Aims : IsTarget(w, t)
  BY DEF Aims, IsTarget, Verdicts, ACCEPT, RESTORE, Exists
<1>6. \A x \in Plain(c) : x.op \in {"add", "insert"} => x.to \in Aims
  BY CommandParts DEF Plain
<1>7. \A n \in 1..Len(s) : s[n] \in Plain(c)
  OBVIOUS
<1>8. Grounded(w, s)
  BY <1>5, <1>6, <1>7 DEF Grounded
<1> QED BY <1>2, <1>4, <1>8 DEF Rounds

(* Lists of that kind stay of that kind when put together.                 *)
LEMMA RoundsJoin ==
    ASSUME NEW c, NEW w
    PROVE  /\ <<>> \in Rounds(c, w)
           /\ \A a, b \in Rounds(c, w) : a \o b \in Rounds(c, w)
<1>1. <<>> \in Rounds(c, w)
  BY DEF Rounds, Fresh, Grounded
<1>2. ASSUME NEW a \in Rounds(c, w), NEW b \in Rounds(c, w)
      PROVE  a \o b \in Rounds(c, w)
  <2> DEFINE S == Rebuilds(c)
  <2>1. a \in Seq(S) /\ b \in Seq(S) /\ Fresh(a) /\ Fresh(b)
        /\ Grounded(w, a) /\ Grounded(w, b)
    BY DEF Rounds
  <2> HIDE DEF S
  <2>2. a \o b \in Seq(S) /\ Fresh(a \o b) /\ Grounded(w, a \o b)
    BY <2>1, FreshJoin, GroundedJoin
  <2> QED BY <2>2 DEF Rounds, S
<1> QED BY <1>1, <1>2

LEMMA IfRound ==
    ASSUME NEW c, NEW w, NEW b, NEW s, b => s \in Rounds(c, w)
    PROVE  If(b, s) \in Rounds(c, w)
BY RoundsJoin DEF If

LEMMA BothRound ==
    ASSUME NEW c, NEW w, NEW s \in Rounds(c, w), NEW t, c.local => t \in Rounds(c, w)
    PROVE  Both(c, s, t) \in Rounds(c, w)
<1>1. If(c.local, t) \in Rounds(c, w)
  BY IfRound
<1> QED BY <1>1, RoundsJoin DEF Both

(* A chain that is made, emptied, and hooked in.                           *)
LEMMA LimitRound ==
    ASSUME NEW c, NEW w, NEW x, NEW b,
           {New(x), Flush(x), Add(b, x)} \subseteq Rebuilds(c)
    PROVE  <<New(x), Flush(x), Add(b, x)>> \in Rounds(c, w)
<1> DEFINE s == <<New(x), Flush(x), Add(b, x)>>
<1>1. s \in Seq(Rebuilds(c))
  OBVIOUS
<1>2. Fresh(s)
  BY HeadFresh, OpKinds
<1>3. Len(s) = 3 /\ s[1] = New(x) /\ s[2] = Flush(x) /\ s[3] = Add(b, x)
  OBVIOUS
<1> HIDE DEF s
<1>4. ASSUME NEW n \in 1..Len(s), s[n].op \in {"add", "insert"}
      PROVE  \E m \in 1..(n - 1) : s[m] = New(s[n].to)
  <2>1. n = 1 \/ n = 2 \/ n = 3
    BY <1>3
  <2>2. n # 1 /\ n # 2
    BY <1>3, <1>4, CommandParts
  <2>3. n = 3 /\ s[n].to = x /\ 1 \in 1..(n - 1)
    BY <2>1, <2>2, <1>3, CommandParts
  <2> QED BY <2>3, <1>3
<1>5. Grounded(w, s)
  BY <1>4 DEF Grounded
<1> QED BY <1>1, <1>2, <1>5 DEF Rounds, s

(* The commands of a balancing rule, with and without a limit.             *)
LEMMA BalanceRound ==
    ASSUME NEW c \in Configs, NEW r \in 1..Len(c.rules), NEW up \in SUBSET Ifaces,
           NEW w, \A i \in Ifaces : ISP(i) \in DOMAIN w.chains
    PROVE  BalanceCmds(c, r, up) \in Rounds(c, w)
<1> DEFINE rule == c.rules[r]
           pre  == IF rule.limit THEN PreLimit(r) ELSE PRE
           out  == IF rule.limit THEN OutLimit(r) ELSE OUT
           last(i) == \A j \in up : j <= i
           To(d, i) == <<Add(d, ISP(i))>>
                       \o If(last(i) /\ rule.limit /\ rule.source_based,
                             <<Add(d, ACCEPT)>>)
           a == <<New(pre), Flush(pre), Add(PRE, pre)>>
           b == <<New(out), Flush(out), Add(OUT, out)>>
           head == If(rule.limit, Both(c, a, b))
           one(i) == If(i \in up, Both(c, To(pre, i), To(out, i)))
           f == [i \in 1..NumIfaces |-> one(i)]
           tail == Both(c, <<Add(PRE, RESTORE)>>, <<Add(OUT, RESTORE)>>)
           P == Rounds(c, w)
<1>1. /\ rule.limit => pre \in LimitChains /\ out \in LimitChains
      /\ pre \in Rebuilt(c) /\ PRE \in Rebuilt(c)
      /\ c.local => out \in Rebuilt(c) /\ OUT \in Rebuilt(c)
  <2>1. r \in Nat
    BY ConfigParts
  <2> QED BY <2>1, RebuiltNames DEF LimitChains
<1>2. ASSUME NEW d \in Rebuilt(c), NEW i \in Ifaces PROVE To(d, i) \in P
  <2>1. ISP(i) \in Aims /\ ACCEPT \in Aims
    BY DEF Aims
  <2>2. Add(d, ISP(i)) \in Plain(c) /\ Add(d, ACCEPT) \in Plain(c)
    BY <2>1 DEF Plain
  <2>3. <<Add(d, ISP(i))>> \in Seq(Plain(c)) /\ <<Add(d, ACCEPT)>> \in Seq(Plain(c))
    BY <2>2
  <2>4. <<Add(d, ISP(i))>> \in P /\ <<Add(d, ACCEPT)>> \in P
    BY <2>3, PlainRound
  <2> HIDE DEF P
  <2>5. If(last(i) /\ rule.limit /\ rule.source_based, <<Add(d, ACCEPT)>>) \in P
    BY <2>4, IfRound DEF P
  <2> QED BY <2>4, <2>5, RoundsJoin DEF P
<1>3. head \in P
  <2>1. CASE rule.limit
    <3>0. r \in Nat \cap Limits(c) /\ pre = PreLimit(r) /\ out = OutLimit(r)
      BY <2>1, ConfigParts DEF Limits
    <3>1. /\ {New(PreLimit(r)), Flush(PreLimit(r)), Add(PRE, PreLimit(r))}
               \subseteq Rebuilds(c)
          /\ c.local => {New(OutLimit(r)), Flush(OutLimit(r)), Add(OUT, OutLimit(r))}
                            \subseteq Rebuilds(c)
      BY <3>0, <1>1, <2>1 DEF Rebuilds
    <3>2. /\ <<New(PreLimit(r)), Flush(PreLimit(r)), Add(PRE, PreLimit(r))>> \in P
          /\ c.local => <<New(OutLimit(r)), Flush(OutLimit(r)), Add(OUT, OutLimit(r))>> \in P
      BY <3>1, LimitRound
    <3>3. a \in P /\ (c.local => b \in P)
      BY <3>0, <3>2
    <3> HIDE DEF a, b
    <3> QED BY <3>3, BothRound, IfRound
  <2>2. CASE ~rule.limit
    BY <2>2, IfRound
  <2> QED BY <2>1, <2>2
<1>4. f \in [1..NumIfaces -> P]
  <2>1. ASSUME NEW i \in Ifaces PROVE one(i) \in P
    <3>1. To(pre, i) \in P /\ (c.local => To(out, i) \in P)
      BY <1>1, <1>2
    <3> HIDE DEF To, pre, out
    <3> QED BY <3>1, BothRound, IfRound
  <2> HIDE DEF one, P
  <2> QED BY <2>1 DEF Ifaces
<1>5. tail \in P
  <2>1. RESTORE \in Aims
    BY DEF Aims
  <2>2. Add(PRE, RESTORE) \in Plain(c) /\ (c.local => Add(OUT, RESTORE) \in Plain(c))
    BY <2>1, <1>1 DEF Plain
  <2>3. /\ <<Add(PRE, RESTORE)>> \in Seq(Plain(c))
        /\ c.local => <<Add(OUT, RESTORE)>> \in Seq(Plain(c))
    BY <2>2
  <2> QED BY <2>3, PlainRound, BothRound
<1>6. BalanceCmds(c, r, up) = head \o FlattenSeq(f) \o tail
  BY DEF BalanceCmds, Each
<1> HIDE DEF f, head, tail, P
<1>7. <<>> \in P /\ \A x, y \in P : x \o y \in P
  BY RoundsJoin DEF P
<1>8. FlattenSeq(f) \in P
  BY <1>4, <1>7, FlattenIn, NumIfacesAssumption
<1> QED BY <1>3, <1>5, <1>6, <1>7, <1>8 DEF P

(* A run empties the chains it rebuilds first.                             *)
LEMMA RunShape ==
    ASSUME NEW c \in Configs, NEW up \in SUBSET Ifaces,
           NEW w, \A i \in Ifaces : ISP(i) \in DOMAIN w.chains
    PROVE  /\ RunCmds(c, up) \in Rounds(c, w)
           /\ Contains(RunCmds(c, up), Flush(PRE))
           /\ c.local => Contains(RunCmds(c, up), Flush(OUT))
<1> DEFINE P == Rounds(c, w)
           f == [r \in 1..Len(c.rules) |-> RuleCmds(c, r, up)]
           o == <<Flush(OUT), Add(OUT, ACCEPT), Add(OUT, ACCEPT), Add(OUT, ACCEPT)>>
           h == <<Flush(PRE)>> \o If(c.local, o)
           t == FlattenSeq(f)
<1>0. /\ PRE \in Rebuilt(c) /\ (c.local => OUT \in Rebuilt(c)) /\ ACCEPT \in Aims
  BY RebuiltNames DEF Aims
<1>1. /\ Flush(PRE) \in Plain(c) /\ Add(PRE, ACCEPT) \in Plain(c)
      /\ c.local => Flush(OUT) \in Plain(c) /\ Add(OUT, ACCEPT) \in Plain(c)
  BY <1>0 DEF Plain
<1>2. /\ <<Flush(PRE)>> \in Seq(Plain(c)) /\ <<Add(PRE, ACCEPT)>> \in Seq(Plain(c))
      /\ c.local => o \in Seq(Plain(c)) /\ <<Add(OUT, ACCEPT)>> \in Seq(Plain(c))
  BY <1>1
<1>3. /\ <<Flush(PRE)>> \in P /\ <<Add(PRE, ACCEPT)>> \in P
      /\ c.local => o \in P /\ <<Add(OUT, ACCEPT)>> \in P
  <2> HIDE DEF o
  <2> QED BY <1>2, PlainRound
<1>4. Contains(<<Flush(PRE)>>, Flush(PRE)) /\ Contains(o, Flush(OUT))
  <2> DEFINE x == <<Flush(PRE)>>
  <2>1. Len(x) = 1 /\ x[1] = Flush(PRE) /\ Len(o) = 4 /\ o[1] = Flush(OUT)
    OBVIOUS
  <2> HIDE DEF x, o
  <2>2. 1 \in 1..Len(x) /\ 1 \in 1..Len(o)
    BY <2>1
  <2>3. Contains(x, Flush(PRE)) /\ Contains(o, Flush(OUT))
    BY <2>1, <2>2 DEF Contains
  <2> QED BY <2>3 DEF x
<1>5. ASSUME NEW r \in 1..Len(c.rules) PROVE RuleCmds(c, r, up) \in P
  <2>1. Both(c, <<Add(PRE, ACCEPT)>>, <<Add(OUT, ACCEPT)>>) \in P
    BY <1>3, BothRound
  <2>2. If(up # {}, BalanceCmds(c, r, up)) \in P
    BY BalanceRound, IfRound
  <2> QED BY <2>1, <2>2 DEF RuleCmds
<1>6. f \in [1..Len(c.rules) -> P]
  BY <1>5
<1>7. RunCmds(c, up) = h \o t
  BY DEF RunCmds, FlushCmds, Both, Each
<1> HIDE DEF o
<1>8. If(c.local, o) \in P /\ (c.local => Contains(If(c.local, o), Flush(OUT)))
  <2>1. If(c.local, o) \in P
    BY <1>3, IfRound
  <2>2. c.local => If(c.local, o) = o
    BY DEF If
  <2> QED BY <2>1, <2>2, <1>4
<1> HIDE DEF f, P
<1>9. <<>> \in P /\ \A x, y \in P : x \o y \in P
  BY RoundsJoin DEF P
<1>10. t \in P
  BY <1>6, <1>9, FlattenIn, ConfigParts
<1>11. \A x \in P : x \in Seq(Rebuilds(c))
  BY DEF P, Rounds
<1>12. h \in P /\ Contains(h, Flush(PRE)) /\ (c.local => Contains(h, Flush(OUT)))
  BY <1>3, <1>4, <1>8, <1>9, <1>11, ContainsJoin
<1> HIDE DEF h, t
<1>13. h \o t \in P /\ Contains(h \o t, Flush(PRE))
       /\ (c.local => Contains(h \o t, Flush(OUT)))
  BY <1>9, <1>10, <1>11, <1>12, ContainsJoin
<1> QED BY <1>7, <1>13 DEF P

(* With all routes and source nat rules in place there is none to add.     *)
LEMMA NoPaths ==
    ASSUME NEW k, NEW c \in Configs, NEW up \in SUBSET Ifaces,
           Ifaces \subseteq k.routes,
           c.nat => \A i \in Ifaces : Jumps(k, NAT, SNAT(i))
    PROVE  PathCmds(k, c, up) = <<>>
<1> DEFINE one(i) == If(i \in up,
                        If(i \notin k.routes, <<RouteReplace(i)>>)
                        \o If(c.nat /\ ~Jumps(k, NAT, SNAT(i)),
                              <<Add(NAT, SNAT(i))>>))
           f == [i \in 1..NumIfaces |-> one(i)]
           P == {<<>>}
<1>1. ASSUME NEW i \in Ifaces PROVE one(i) = <<>>
  <2>1. /\ If(i \notin k.routes, <<RouteReplace(i)>>) = <<>>
        /\ If(c.nat /\ ~Jumps(k, NAT, SNAT(i)), <<Add(NAT, SNAT(i))>>) = <<>>
    BY DEF If
  <2>2. <<>> \o <<>> = <<>>
    OBVIOUS
  <2> QED BY <2>1, <2>2 DEF If
<1>2. f \in [1..NumIfaces -> P]
  BY <1>1 DEF Ifaces
<1>3. PathCmds(k, c, up) = FlattenSeq(f)
  BY DEF PathCmds, Each
<1>4. <<>> \in P /\ \A a, b \in P : a \o b \in P
  OBVIOUS
<1> HIDE DEF f, P
<1>5. FlattenSeq(f) \in P
  BY <1>2, <1>4, FlattenIn, NumIfacesAssumption
<1> QED BY <1>3, <1>5 DEF P

-----------------------------------------------------------------------------
(* The commands that are harmless whatever they are about.                 *)
LEMMA HarmlessKinds ==
    /\ \A c, t : /\ Harmless(New(c)) /\ Harmless(Flush(c)) /\ Harmless(RemoveRule(c, t))
                 /\ Harmless(Add(c, t)) /\ Harmless(Insert(c, t))
                 /\ c \notin Base => Harmless(Delete(c))
    /\ \A i \in Ifaces : /\ Harmless(RouteReplace(i)) /\ Harmless(RuleAdd(i))
                         /\ Harmless(RouteFlush(i)) /\ Harmless(RuleDelete(i))
<1>1. \A c, t : /\ Harmless(New(c)) /\ Harmless(Flush(c)) /\ Harmless(RemoveRule(c, t))
                /\ Harmless(Add(c, t)) /\ Harmless(Insert(c, t))
                /\ c \notin Base => Harmless(Delete(c))
  BY CommandParts DEF Harmless
<1>3. ASSUME NEW i \in Ifaces
      PROVE  /\ Harmless(RouteReplace(i)) /\ Harmless(RuleAdd(i))
             /\ Harmless(RouteFlush(i)) /\ Harmless(RuleDelete(i))
  <2>1. /\ RouteReplace(i).op = "route replace" /\ RouteReplace(i).about[2] = i
        /\ RuleAdd(i).op = "rule add" /\ RuleAdd(i).about[2] = i
    BY DEF RouteReplace, RuleAdd, Command
  <2>2. RouteFlush(i).op = "route flush" /\ RuleDelete(i).op = "rule delete"
    BY PolicyParts
  <2>3. Harmless(RouteReplace(i)) /\ Harmless(RuleAdd(i))
    BY <2>1 DEF Harmless
  <2>4. Harmless(RouteFlush(i)) /\ Harmless(RuleDelete(i))
    BY <2>2 DEF Harmless
  <2> QED BY <2>3, <2>4
<1> QED BY <1>1, <1>3

(* All commands the daemon runs are.                                       *)
LEMMA ListsHarmless == \A cmd \in InitSet \cup RunSet \cup EndSet : Harmless(cmd)
<1>1. \A cmd \in HookSet(PREROUTING, PRE) \cup HookSet(OUTPUT, OUT) : Harmless(cmd)
  BY HarmlessKinds DEF HookSet
<1>2. \A i \in Ifaces : \A cmd \in SetupCmds(i) : Harmless(cmd)
  BY HarmlessKinds DEF SetupCmds
<1>3. \A cmd \in InitSet : Harmless(cmd)
  BY <1>1, <1>2, HarmlessKinds DEF InitSet
<1>4. \A cmd \in RunSet : Harmless(cmd)
  BY HarmlessKinds DEF RunSet, PathSet
<1>5. /\ {PRE, OUT, NAT} \cap Base = {} /\ LimitChains \cap Base = {}
      /\ \A i : ISP(i) \notin Base /\ INBOUND(i) \notin Base
  BY DEF PRE, OUT, NAT, Base, PREROUTING, OUTPUT, HOOK, LimitChains, PreLimit,
         OutLimit, ISP, INBOUND
<1>6. \A cmd \in UnhookSet : Harmless(cmd)
  BY <1>5, HarmlessKinds DEF UnhookSet
<1>7. \A i \in Ifaces : \A cmd \in CleanCmds(i) : Harmless(cmd)
  BY <1>5, HarmlessKinds DEF CleanCmds
<1>8. \A cmd \in EndSet : Harmless(cmd)
  BY <1>6, <1>7 DEF EndSet
<1> QED BY <1>3, <1>4, <1>8

LEMMA BasedStep ==
    ASSUME NEW k, Based(k), NEW cmd \in Commands, Harmless(cmd)
    PROVE  Based(Executed(k, cmd))
<1> DEFINE e == Executed(k, cmd)
<1>1. e \in Kernels /\ Effect(k, cmd, e) /\ k \in Kernels
  BY ExecutedEffect DEF Based
<1>2. Base \subseteq DOMAIN e.chains
  BY <1>1 DEF Effect, Based, Harmless
<1>3. e.rules \subseteq Ifaces
  BY <1>1 DEF Effect, NewPolicy, Based, Harmless
<1>4. e.routes = CASE cmd.op = "route replace" -> k.routes \cup {cmd.about[2]}
                   [] cmd.op = "route flush"   -> k.routes \ {cmd.about[2]}
                   [] OTHER -> k.routes
  BY <1>1, RoutesAfter
<1> HIDE DEF e
<1>5. e.routes \subseteq Ifaces
  BY <1>4 DEF Based, Harmless
<1> QED BY <1>1, <1>2, <1>3, <1>5 DEF Based, e

LEMMA BareBased == Based(Bare)
<1>1. Bare \in Kernels
  <2> DEFINE D == {PREROUTING, OUTPUT, HOOK}
             f == [x \in D |-> <<>>]
  <2>1. D \subseteq Names
    BY ChainNames
  <2>2. f \in [D -> Seq(Names)]
    OBVIOUS
  <2>3. {} \subseteq Int
    OBVIOUS
  <2>4. Bare = [chains |-> f, rules |-> {}, routes |-> {}]
    BY DEF Bare
  <2> HIDE DEF D, f
  <2> QED BY <2>1, <2>2, <2>3, <2>4, KernelMade
<1> QED BY <1>1 DEF Based, Bare, Base

(* The commands of init.                                                   *)
LEMMA InitKinds ==
    \A cmd \in InitSet :
        /\ cmd \in Commands /\ cmd.op \notin {"delete", "route flush"}
        /\ cmd.op = "new" => cmd.about \notin LimitChains
        /\ cmd.op \in {"add", "insert"} /\ cmd.about \notin Base => cmd.to[1] \in Verdicts
<1> DEFINE Good(cmd) ==
        /\ cmd.op \notin {"delete", "route flush"}
        /\ cmd.op = "new" => cmd.about \notin LimitChains
        /\ cmd.op \in {"add", "insert"} /\ cmd.about \notin Base => cmd.to[1] \in Verdicts
<1>1. \A c, t : Good(Flush(c)) /\ Good(RemoveRule(c, t))
  BY CommandParts
<1>2. \A c : c \notin LimitChains => Good(New(c))
  BY CommandParts
<1>3. ASSUME NEW c, NEW t, t[1] \in Verdicts \/ c \in Base
      PROVE  Good(Add(c, t)) /\ Good(Insert(c, t))
  <2>1. /\ Add(c, t).op = "add" /\ Add(c, t).about = c /\ Add(c, t).to = t
        /\ Insert(c, t).op = "insert" /\ Insert(c, t).about = c
        /\ Insert(c, t).to = t
    BY CommandParts
  <2> QED BY <2>1, <1>3
<1>4. \A i : Good(RouteReplace(i)) /\ Good(RuleDelete(i)) /\ Good(RuleAdd(i))
  BY PolicyParts
<1>5. /\ {PRE, OUT, NAT} \cap LimitChains = {}
      /\ \A i : ISP(i) \notin LimitChains /\ INBOUND(i) \notin LimitChains
  BY DEF PRE, OUT, NAT, LimitChains, PreLimit, OutLimit, ISP, INBOUND
<1>6. /\ ACCEPT[1] \in Verdicts
      /\ \A i : SNAT(i)[1] \in Verdicts /\ MARK(i)[1] \in Verdicts
                /\ CONNMARK(i)[1] \in Verdicts
  BY DEF ACCEPT, SNAT, MARK, CONNMARK, Verdicts
<1>7. {PREROUTING, OUTPUT, HOOK} \subseteq Base
  BY DEF Base
<1> HIDE DEF Good
<1>8. \A x \in Base, y \in {PRE, OUT} : \A cmd \in HookSet(x, y) : Good(cmd)
  BY <1>1, <1>2, <1>3, <1>5, <1>6 DEF HookSet
<1>9. ASSUME NEW i PROVE \A cmd \in SetupCmds(i) : Good(cmd)
  <2>1. /\ Good(New(ISP(i))) /\ Good(New(INBOUND(i)))
        /\ Good(Add(ISP(i), CONNMARK(i))) /\ Good(Add(ISP(i), MARK(i)))
        /\ Good(Add(ISP(i), ACCEPT))
    BY <1>2, <1>3, <1>5, <1>6
  <2>2. /\ Good(Add(INBOUND(i), CONNMARK(i))) /\ Good(Insert(PREROUTING, INBOUND(i)))
        /\ Good(Add(NAT, SNAT(i)))
    BY <1>3, <1>6, <1>7
  <2> QED BY <2>1, <2>2, <1>1, <1>4 DEF SetupCmds
<1>10. \A cmd \in {New(NAT), Flush(NAT), Flush(HOOK), Insert(HOOK, NAT)} : Good(cmd)
  BY <1>1, <1>2, <1>3, <1>5, <1>7
<1>11. \A cmd \in InitSet : Good(cmd)
  <2>1. \A cmd \in HookSet(PREROUTING, PRE) \cup HookSet(OUTPUT, OUT) : Good(cmd)
    BY <1>7, <1>8
  <2> QED BY <2>1, <1>9, <1>10 DEF InitSet
<1>12. \A cmd \in InitSet : cmd \in Commands
  <2>1. \A i \in Ifaces : SetupCmds(i) \subseteq Commands
    BY SetupQuiet, QuietCommands
  <2>2. \A x, y \in Names : HookSet(x, y) \subseteq Commands
    BY CommandsMade, ChainNames, QuietKinds, QuietCommands DEF HookSet
  <2>3. {New(NAT), Flush(NAT), Flush(HOOK), Insert(HOOK, NAT)} \subseteq Commands
    BY CommandsMade, ChainNames
  <2>4. HookSet(PREROUTING, PRE) \subseteq Commands
        /\ HookSet(OUTPUT, OUT) \subseteq Commands
    BY <2>2, ChainNames
  <2> QED BY <2>1, <2>3, <2>4 DEF InitSet
<1> QED BY <1>11, <1>12 DEF Good

-----------------------------------------------------------------------------
(* Init adds only to targets it makes, in a kernel without any chain of    *)
(* the daemon.                                                             *)
LEMMA InitGrounded ==
    ASSUME NEW w, NEW s \in Seq(InitSet) PROVE Grounded(w, s)
<1>1. \A n \in 1..Len(s) : s[n] \in InitSet
  OBVIOUS
<1>2. \A cmd \in InitSet : cmd.op \in {"add", "insert"} /\ cmd.about \notin Base =>
                              cmd.to[1] \in Verdicts
  BY InitKinds
<1> QED BY <1>1, <1>2 DEF Grounded, IsTarget

(* Init begins, over whatever is left in the kernel.                       *)
LEMMA BuildingStart ==
    ASSUME NEW k, Based(k), NEW c \in Configs
    PROVE  Building(k, c, InitCmds(c))
<1> DEFINE t == InitCmds(c)
           D == DOMAIN k.chains
           e == k.chains[HOOK] = <<>>
<1>1. t \in Seq(InitSet) /\ \A i \in Ifaces : Ends(t, i)
  BY InitType, InitOrder
<1>2. Base \subseteq D
  BY DEF Based
<1>3. /\ Fresh(t)
      /\ \A x \in Needed(c) : Contains(t, New(x))
      /\ \A i \in Ifaces : Contains(t, RouteReplace(i))
      /\ Lands(D, t, PREROUTING, PRE)
      /\ c.local => Lands(D, t, OUTPUT, OUT)
      /\ c.nat => /\ Empties(D, t, e)
                  /\ \A i \in Ifaces : Lands(D, t, NAT, SNAT(i))
  <2> HIDE DEF D, e
  <2> QED BY <1>2, InitShape
<1>4. Placing(k, c, t)
  <2> HIDE DEF t
  <2> QED BY <1>1, <1>3 DEF Placing, Settles, Alone
<1>5. Follows(k, c, t, Bare)
  <2>1. DOMAIN Bare.chains = Base
    BY DEF Bare, Base
  <2>2. Base \cap LimitChains = {}
    BY DEF Base, PREROUTING, OUTPUT, HOOK, LimitChains, PreLimit, OutLimit
  <2>3. Tracks(k, Bare, t)
    BY <2>1 DEF Tracks
  <2>4. ExecutedAll(Bare, t) = AfterInit(c)
    BY DEF AfterInit
  <2> HIDE DEF t
  <2> QED BY <1>3, <2>1, <2>2, <2>3, <2>4 DEF Follows
<1>6. Bare \in Kernels
  BY BareBased DEF Based
<1> HIDE DEF t
<1>7. Building(k, c, t)
  BY <1>1, <1>3, <1>4, <1>5, <1>6 DEF Building
<1> QED BY <1>7 DEF t

(* A command of init takes effect.                                         *)
LEMMA PlacingStep ==
    ASSUME NEW k, Based(k), NEW c, NEW s \in Seq(InitSet), s # <<>>, Placing(k, c, s)
    PROVE  Placing(Executed(k, s[1]), c, Tail(s))
<1> DEFINE cmd == s[1]
           e == Executed(k, cmd)
           t == Tail(s)
<1>0. s \in Seq(Commands) /\ k \in Kernels /\ HOOK \in DOMAIN k.chains
  <2>1. InitSet \subseteq Commands
    BY InitKinds
  <2> QED BY <2>1, SeqMonotone DEF Based, Base
<1>1. cmd \in InitSet /\ cmd \in Commands /\ cmd.op # "delete" /\ cmd.op # "route flush"
  BY InitKinds, Tailed
<1>2. \A x, y : Settles(k, s, x, y) => Settles(e, t, x, y)
  BY <1>0, <1>1, SettlesStep
<1>3. Alone(k, s) => Alone(e, t)
  BY <1>0, <1>1, AloneStep
<1>4. ASSUME NEW i \in Ifaces, i \in k.routes \/ Contains(s, RouteReplace(i))
      PROVE  i \in e.routes \/ Contains(t, RouteReplace(i))
  <2>1. e.routes = CASE cmd.op = "route replace" -> k.routes \cup {cmd.about[2]}
                     [] cmd.op = "route flush"   -> k.routes \ {cmd.about[2]}
                     [] OTHER -> k.routes
    BY <1>0, <1>1, RoutesAfter
  <2>2. k.routes \subseteq e.routes
    BY <2>1, <1>1
  <2>3. cmd = RouteReplace(i) => i \in e.routes
    <3> SUFFICES ASSUME cmd = RouteReplace(i) PROVE i \in e.routes
      OBVIOUS
    <3>1. RouteReplace(i).op = "route replace" /\ RouteReplace(i).about[2] = i
      BY DEF RouteReplace, Command
    <3> HIDE DEF cmd, e
    <3>2. cmd.op = "route replace" /\ cmd.about[2] = i
      BY <3>1
    <3> QED BY <2>1, <3>2
  <2>4. Contains(s, RouteReplace(i)) => cmd = RouteReplace(i) \/ Contains(t, RouteReplace(i))
    BY ContainsTail
  <2> HIDE DEF cmd, e, t
  <2> QED BY <1>4, <2>2, <2>3, <2>4
<1>5. ASSUME NEW i \in Ifaces, Ends(s, i) \/ (i \in k.rules /\ NeverDrops(s, i))
      PROVE  Ends(t, i) \/ (i \in e.rules /\ NeverDrops(t, i))
  <2>1. i \in Int
    BY LimitNames
  <2>2. /\ i \in k.rules => i \in e.rules \/ Drops(cmd, i)
        /\ cmd = RuleAdd(i) => i \in e.rules
    BY <1>0, <1>1, <2>1, PolicyAfter
  <2>3. /\ Ends(s, i) => Ends(t, i) \/ (cmd = RuleAdd(i) /\ NeverDrops(t, i))
        /\ NeverDrops(s, i) => ~Drops(cmd, i) /\ NeverDrops(t, i)
    BY EndsTail
  <2> HIDE DEF cmd, e, t
  <2> QED BY <1>5, <2>2, <2>3
<1> HIDE DEF cmd, e, t
<1> QED BY <1>2, <1>3, <1>4, <1>5 DEF Placing, cmd, e, t

LEMMA BuildingStep ==
    ASSUME NEW k, Based(k), NEW c, NEW s, s # <<>>, Building(k, c, s)
    PROVE  Building(Executed(k, s[1]), c, Tail(s))
<1> DEFINE cmd == s[1]
           e == Executed(k, cmd)
           t == Tail(s)
<1>0. s \in Seq(InitSet) /\ Fresh(s) /\ Placing(k, c, s)
  BY DEF Building
<1>1. s \in Seq(Commands) /\ k \in Kernels /\ Base \subseteq DOMAIN k.chains
  <2>1. InitSet \subseteq Commands
    BY InitKinds
  <2> QED BY <1>0, <2>1, SeqMonotone DEF Based
<1>2. /\ cmd \in Commands /\ cmd.op # "delete"
      /\ cmd.op = "new" => cmd.about \notin LimitChains
  BY <1>0, InitKinds, Tailed
<1>3. t \in Seq(InitSet) /\ Fresh(t) /\ Placing(e, c, t)
  BY <1>0, Tailed, FreshTail, PlacingStep
<1>4. PICK w \in Kernels : Follows(k, c, s, w)
  BY DEF Building
<1> DEFINE f == Executed(w, cmd)
<1>5. f \in Kernels
  BY <1>2, ExecutedEffect
<1>6. ExecutedAll(f, t) = AfterInit(c)
  BY <1>1, <1>4, ExecutedFirst DEF Follows
<1>7. Tracks(e, f, t)
  BY <1>0, <1>1, <1>2, <1>4, InitGrounded, TracksStep DEF Follows
<1>8. \A x : x \in DOMAIN f.chains <=>
                x \in DOMAIN w.chains \/ (cmd.op = "new" /\ x = cmd.about)
  BY <1>2, ChainAfter
<1>9. DOMAIN f.chains \cap LimitChains = {}
  BY <1>2, <1>4, <1>8 DEF Follows
<1>10. ASSUME NEW x \in Needed(c) PROVE x \in DOMAIN f.chains \/ Contains(t, New(x))
  <2>1. x \in DOMAIN w.chains \/ cmd = New(x) \/ Contains(t, New(x))
    BY <1>1, <1>4, ContainsTail DEF Follows
  <2>2. cmd = New(x) => x \in DOMAIN f.chains
    BY <1>8, CommandParts
  <2> QED BY <2>1, <2>2, <1>8
<1> HIDE DEF cmd, e, t, f
<1>11. Follows(e, c, t, f)
  BY <1>6, <1>7, <1>9, <1>10 DEF Follows
<1> QED BY <1>3, <1>5, <1>11 DEF Building, cmd, e, t

(* Init is through.                                                        *)
LEMMA BuildingEnd ==
    ASSUME NEW k, NEW c, NEW s, Building(k, c, s), Len(s) = 0, NEW t
    PROVE  Cycling(k, c) /\ Tracks(k, AfterInit(c), t)
<1>0. s \in Seq(InitSet) /\ s \in Seq(Commands) /\ Placing(k, c, s)
  <2>1. InitSet \subseteq Commands
    BY InitKinds
  <2> QED BY <2>1, SeqMonotone DEF Building
<1>1. \A n \in 1..Len(s) : FALSE
  OBVIOUS
<1>2. \A x : ~Contains(s, x)
  BY <1>1 DEF Contains
<1>3. \A x, y : Settles(k, s, x, y) => Jumps(k, x, y)
  BY <1>1 DEF Settles, Lands
<1>4. Alone(k, s) => k.chains[HOOK] = <<NAT>>
  BY <1>1 DEF Alone, Empties
<1>5. \A i : ~Ends(s, i)
  BY <1>1 DEF Ends
<1>6. Standing(k, c)
  BY <1>0, <1>2, <1>3, <1>4, <1>5 DEF Placing, Standing
<1>7. PICK w \in Kernels : Follows(k, c, s, w)
  BY DEF Building
<1>8. AfterInit(c) = w
  BY <1>0, <1>7, ExecutedNone DEF Follows
<1>9. \A x \in DOMAIN w.chains \ Base : Exists(k, x) /\ k.chains[x] = w.chains[x]
  BY <1>2, <1>7 DEF Follows, Tracks
<1>10. Needed(c) \subseteq DOMAIN w.chains /\ DOMAIN w.chains \cap LimitChains = {}
  BY <1>2, <1>7 DEF Follows
<1> QED BY <1>6, <1>8, <1>9, <1>10 DEF Cycling, Shaped, Tracks

(* A command of a run leaves alone what init has made.                     *)
LEMMA CyclingStep ==
    ASSUME NEW k, Based(k), NEW c, Cycling(k, c), NEW cmd \in Rebuilds(c)
    PROVE  Cycling(Executed(k, cmd), c)
<1> DEFINE e == Executed(k, cmd)
           w == AfterInit(c)
<1>0. k \in Kernels /\ HOOK \in DOMAIN k.chains
  BY DEF Based, Base
<1>1. /\ cmd \in Commands /\ cmd.about \in Rebuilt(c)
      /\ cmd.op \in {"new", "flush", "add"}
  BY RebuildsParts
<1>2. Rebuilt(c) \cap (Base \cup {NAT}) = {}
  BY RebuiltNames
<1>3. ASSUME NEW x, x \in DOMAIN k.chains
      PROVE  /\ x \in DOMAIN e.chains
             /\ x \notin Rebuilt(c) => e.chains[x] = k.chains[x]
  BY <1>0, <1>1, <1>3, ChainAfter DEF Rewrites
<1>4. \A x, y : x \notin Rebuilt(c) /\ Jumps(k, x, y) => Jumps(e, x, y)
  BY <1>3 DEF Jumps, Exists
<1>5. e.routes = k.routes
  BY <1>0, <1>1, RoutesAfter
<1>6. e.rules = k.rules
  BY <1>0, <1>1, ExecutedEffect DEF Effect, NewPolicy
<1>7. {PREROUTING, OUTPUT, HOOK, NAT} \cap Rebuilt(c) = {}
  BY <1>2 DEF Base
<1>8. c.nat => e.chains[HOOK] = <<NAT>>
  <2> SUFFICES ASSUME c.nat PROVE e.chains[HOOK] = <<NAT>>
    OBVIOUS
  <2>1. k.chains[HOOK] = <<NAT>>
    BY DEF Cycling, Standing
  <2> QED BY <1>0, <1>3, <1>7, <2>1
<1> HIDE DEF e, w
<1>9. Standing(e, c)
  BY <1>4, <1>5, <1>6, <1>7, <1>8 DEF Cycling, Standing
<1>10. Shaped(e, c, w)
  BY <1>3 DEF Cycling, Shaped, Exists, w
<1> QED BY <1>9, <1>10 DEF Cycling, e, w

(* A run begins.                                                           *)
LEMMA RebuildingStart ==
    ASSUME NEW k, NEW c \in Configs, NEW up \in SUBSET Ifaces, Cycling(k, c)
    PROVE  /\ RunCmds(c, up) \in Seq(Rebuilds(c))
           /\ Rebuilding(k, c, up, RunCmds(c, up))
<1> DEFINE w == AfterInit(c)
           s == RunCmds(c, up)
<1>1. /\ w \in Kernels /\ Needed(c) \subseteq DOMAIN w.chains
      /\ DOMAIN w.chains \cap LimitChains = {}
      /\ \A x \in DOMAIN w.chains \ Base :
            Exists(k, x) /\ (k.chains[x] = w.chains[x] \/ x \in Rebuilt(c))
  BY DEF Cycling, Shaped
<1>2. \A i \in Ifaces : ISP(i) \in DOMAIN w.chains
  BY <1>1 DEF Needed
<1> HIDE DEF w
<1>3. /\ s \in Rounds(c, w) /\ Contains(s, Flush(PRE))
      /\ c.local => Contains(s, Flush(OUT))
  BY <1>2, RunShape
<1>4. ExecutedAll(w, s) = AfterRun(c, up)
  BY DEF AfterRun, w
<1> HIDE DEF s
<1>5. \A x \in Rebuilt(c) \ LimitChains : Contains(s, Flush(x))
  BY <1>3 DEF Rebuilt
<1>6. Tracks(k, w, s)
  BY <1>1, <1>5 DEF Tracks
<1>7. s \in Seq(Rebuilds(c)) /\ Fresh(s) /\ Grounded(w, s)
  BY <1>3 DEF Rounds
<1>8. Rebuilding(k, c, up, s)
  BY <1>1, <1>4, <1>6, <1>7 DEF Rebuilding, Matches
<1> QED BY <1>7, <1>8 DEF s

LEMMA RebuildsList ==
    ASSUME NEW c, NEW s \in Seq(Rebuilds(c)) PROVE s \in Seq(Commands)
<1>1. Rebuilds(c) \subseteq Commands
  BY RebuildsParts
<1> QED BY <1>1, SeqMonotone

(* A command of the run takes effect.                                      *)
LEMMA RebuildingStep ==
    ASSUME NEW k, Based(k), NEW c, NEW up, NEW s \in Seq(Rebuilds(c)), s # <<>>,
           Rebuilding(k, c, up, s)
    PROVE  Rebuilding(Executed(k, s[1]), c, up, Tail(s))
<1> DEFINE cmd == s[1]
           e == Executed(k, cmd)
           t == Tail(s)
<1>1. s \in Seq(Commands) /\ k \in Kernels /\ Base \subseteq DOMAIN k.chains
  BY RebuildsList DEF Based
<1>2. cmd \in Commands /\ cmd.op # "delete"
  BY RebuildsParts, Tailed
<1>3. Fresh(s) /\ Fresh(t)
  BY FreshTail DEF Rebuilding
<1>4. PICK w \in Kernels : Matches(k, c, up, s, w)
  BY DEF Rebuilding
<1> DEFINE f == Executed(w, cmd)
<1>5. f \in Kernels
  BY <1>2, ExecutedEffect
<1>6. ExecutedAll(f, t) = AfterRun(c, up)
  BY <1>1, <1>4, ExecutedFirst DEF Matches
<1>7. Tracks(e, f, t)
  BY <1>1, <1>2, <1>3, <1>4, TracksStep DEF Matches
<1>8. Grounded(f, t)
  BY <1>1, <1>2, <1>4, GroundedTail DEF Matches
<1>9. Needed(c) \subseteq DOMAIN f.chains
  <2>1. \A x : x \in DOMAIN w.chains => x \in DOMAIN f.chains
    BY <1>2, ChainAfter
  <2> QED BY <2>1, <1>4 DEF Matches
<1> HIDE DEF cmd, e, t, f
<1>10. Matches(e, c, up, t, f)
  BY <1>6, <1>7, <1>8, <1>9 DEF Matches
<1> QED BY <1>3, <1>5, <1>10 DEF Rebuilding, cmd, e, t

(* The run is through.                                                     *)
LEMMA RebuildingEnd ==
    ASSUME NEW k, NEW c, NEW up, NEW s \in Seq(Rebuilds(c)), Len(s) = 0,
           Rebuilding(k, c, up, s), NEW t
    PROVE  Tracks(k, AfterRun(c, up), t)
<1>1. PICK w \in Kernels : Matches(k, c, up, s, w)
  BY DEF Rebuilding
<1>2. AfterRun(c, up) = w
  BY <1>1, RebuildsList, ExecutedNone DEF Matches
<1>3. \A x : ~Contains(s, x)
  BY DEF Contains
<1> QED BY <1>1, <1>2, <1>3 DEF Matches, Tracks

(* Half way, a chain that was emptied is a beginning of what it will be.   *)
LEMMA RebuildingPrefix ==
    ASSUME NEW k, NEW c, NEW up, NEW s \in Seq(Rebuilds(c)), Rebuilding(k, c, up, s),
           NEW x \in Needed(c), x \notin Base, ~Contains(s, Flush(x))
    PROVE  IsPrefix(k.chains[x], AfterRun(c, up).chains[x])
<1>1. PICK w \in Kernels : Matches(k, c, up, s, w)
  BY DEF Rebuilding
<1>2. x \in DOMAIN w.chains /\ k.chains[x] = w.chains[x]
  BY <1>1 DEF Matches, Tracks
<1>3. s \in Seq(Adding(x))
  <2>1. ASSUME NEW n \in 1..Len(s) PROVE s[n] \in Adding(x)
    <3>1. s[n] \in Rebuilds(c)
      OBVIOUS
    <3>2. /\ s[n] \in Commands /\ s[n].op \in {"new", "flush", "add"}
          /\ s[n].op = "flush" => s[n] = Flush(s[n].about)
      BY <3>1, RebuildsParts
    <3>3. s[n] # Flush(x)
      BY DEF Contains
    <3> QED BY <3>2, <3>3 DEF Adding
  <2> QED BY <2>1
<1>4. IsPrefix(w.chains[x], ExecutedAll(w, s).chains[x])
  BY <1>2, <1>3, Grows
<1> QED BY <1>1, <1>2, <1>4 DEF Matches

-----------------------------------------------------------------------------
LEMMA InitFInv == Init => FInv
BY BareBased DEF Init, FInv, InitForce, TestForce, RunForce, Cycle

(* Where there are no rules to be in force.                                *)
LEMMA EndedFInv ==
    ASSUME FInv, kernel' = kernel, proc' \in {"off", "dead", "ending"}
    PROVE  FInv'
BY DEF FInv, InitForce, TestForce, RunForce, Cycle

(* Where nothing it is about changes.                                      *)
LEMMA SameFInv ==
    ASSUME FInv, UNCHANGED <<kernel, proc, cfg, todo, active, changed, botched>>
    PROVE  FInv'
BY DEF FInv, InitForce, TestForce, RunForce

(* A command of init, run or shutdown takes effect, or fails.              *)
LEMMA ExecuteFInv ==
    ASSUME MInv, FInv, Execute PROVE FInv'
<1>0. /\ todo # <<>> /\ todo' = Tail(todo)
      /\ UNCHANGED <<proc, cfg, active, changed>>
      /\ \/ kernel' = Executed(kernel, todo[1]) /\ botched' = botched
         \/ kernel' = kernel /\ botched' = botched \cup {proc}
  BY DEF Execute, Head
<1>1. /\ proc \in {"init", "run", "ending"} /\ cfg \in Configs
      /\ changed \in BOOLEAN
  BY <1>0 DEF MInv, IInv, TypeOK
<1>2. /\ todo[1] \in InitSet \cup RunSet \cup EndSet
      /\ todo[1] \in Commands
  <2>1. todo[1] \in Quiet \cup HookCmds
    BY <1>0 DEF MInv, IInv, TodoInv
  <2>2. todo[1] \in InitSet \cup RunSet \cup EndSet
    BY <1>0, <1>1 DEF MInv, ListsInv
  <2> QED BY <2>1, <2>2, QuietCommands
<1>3. Based(kernel) /\ Based(Executed(kernel, todo[1]))
  BY <1>2, ListsHarmless, BasedStep DEF FInv
<1>4. Based(kernel')
  BY <1>0, <1>3
<1>5. CASE proc = "init"
  <2>1. ASSUME "init" \notin botched' PROVE Building(kernel', cfg', todo')
    <3>1. kernel' = Executed(kernel, todo[1]) /\ "init" \notin botched
      BY <1>0, <1>5, <2>1
    <3>2. Building(kernel, cfg, todo)
      BY <3>1, <1>5 DEF FInv, InitForce
    <3>3. Building(Executed(kernel, todo[1]), cfg, Tail(todo))
      BY <1>0, <1>3, <3>2, BuildingStep
    <3> QED BY <1>0, <3>1, <3>3
  <2> QED BY <1>0, <1>4, <1>5, <2>1 DEF FInv, InitForce, TestForce, RunForce, Cycle
<1>6. CASE proc = "run"
  <2>1. CASE "init" \in botched
    <3>1. "init" \in botched'
      BY <1>0, <2>1
    <3> QED BY <3>1, <1>0, <1>4, <1>6 DEF FInv
  <2>2. CASE "init" \notin botched
    <3>1. Cycling(kernel, cfg)
      BY <1>6, <2>2 DEF FInv, InitForce, Cycle
    <3>2. changed /\ todo \in Seq(Rebuilds(cfg))
      BY <1>0, <1>1, <1>6, <2>2 DEF FInv, RunForce
    <3>3. Cycling(kernel', cfg')
      <4>1. todo[1] \in Rebuilds(cfg)
        BY <1>0, <3>2, Tailed
      <4>2. Cycling(Executed(kernel, todo[1]), cfg)
        BY <4>1, <1>3, <3>1, CyclingStep
      <4> QED BY <4>2, <3>1, <1>0
    <3>4. todo' \in Seq(Rebuilds(cfg'))
      BY <1>0, <3>2, Tailed
    <3>5. ASSUME "run" \notin botched' PROVE Rebuilding(kernel', cfg', active', todo')
      <4>1. kernel' = Executed(kernel, todo[1]) /\ "run" \notin botched
        BY <1>0, <1>6, <3>5
      <4>2. Rebuilding(kernel, cfg, active, todo)
        BY <4>1, <1>6, <2>2, <3>2 DEF FInv, RunForce
      <4>3. Rebuilding(Executed(kernel, todo[1]), cfg, active, Tail(todo))
        BY <1>0, <1>3, <3>2, <4>2, RebuildingStep
      <4> QED BY <1>0, <4>1, <4>3
    <3> QED BY <1>0, <1>4, <1>6, <3>2, <3>3, <3>4, <3>5
            DEF FInv, InitForce, TestForce, RunForce, Cycle
  <2> QED BY <2>1, <2>2
<1>7. CASE proc = "ending"
  BY <1>0, <1>4, <1>7 DEF FInv, InitForce, TestForce, RunForce, Cycle
<1> QED BY <1>1, <1>5, <1>6, <1>7

LEMMA InitialisedFInv ==
    ASSUME MInv, FInv, Initialised PROVE FInv'
<1>1. /\ proc = "init" /\ todo = <<>> /\ proc' = "test"
      /\ UNCHANGED <<kernel, cfg, todo, active, changed, botched>>
  BY DEF Initialised, process, history
<1>2. changed
  BY <1>1 DEF FInv
<1>3. ASSUME "init" \notin botched
      PROVE  Cycling(kernel, cfg) /\ Tracks(kernel, AfterInit(cfg), <<>>)
  <2>1. Building(kernel, cfg, todo)
    BY <1>1, <1>3 DEF FInv, InitForce
  <2>2. Len(todo) = 0
    BY <1>1
  <2> QED BY <2>1, <2>2, BuildingEnd
<1> QED BY <1>1, <1>2, <1>3 DEF FInv, InitForce, TestForce, RunForce, Cycle

LEMMA HealthTestFInv ==
    ASSUME MInv, FInv, HealthTest PROVE FInv'
<1>1. /\ proc = "test" /\ proc' = "apply"
      /\ changed' = (changed \/ active' # active)
      /\ UNCHANGED <<kernel, cfg, todo, botched>>
  BY DEF HealthTest, history
<1>2. ~changed' => ~changed /\ active' = active
  BY <1>1
<1> QED BY <1>1, <1>2 DEF FInv, InitForce, TestForce, RunForce, Cycle

LEMMA StartCycleFInv ==
    ASSUME MInv, FInv, StartCycle PROVE FInv'
<1>1. /\ proc = "run" /\ todo = <<>> /\ proc' = "test" /\ changed' = FALSE
      /\ UNCHANGED <<kernel, cfg, todo, active, botched>>
  BY DEF StartCycle, history
<1>2. changed \in BOOLEAN
  BY DEF MInv, IInv, TypeOK
<1>3. ASSUME "init" \notin botched, "run" \notin botched
      PROVE  Tracks(kernel, AfterRun(cfg, active), <<>>)
  <2>1. CASE changed
    <3>1. todo \in Seq(Rebuilds(cfg)) /\ Rebuilding(kernel, cfg, active, todo)
      BY <1>1, <1>3, <2>1 DEF FInv, RunForce
    <3>2. Len(todo) = 0
      BY <1>1
    <3> QED BY <3>1, <3>2, RebuildingEnd
  <2>2. CASE ~changed
    BY <1>1, <1>3, <2>2 DEF FInv, TestForce, Cycle
  <2> QED BY <1>2, <2>1, <2>2
<1> QED BY <1>1, <1>3 DEF FInv, InitForce, TestForce, RunForce, Cycle

(* The other steps of the daemon, of signals and of the init script.       *)
LEMMA WritePidFInv ==
    ASSUME MInv, FInv, WritePid PROVE FInv'
<1>1. /\ proc = "forked" /\ proc' = "init" /\ todo' = InitCmds(cfg)
      /\ UNCHANGED <<kernel, cfg, active, changed, botched>>
  BY DEF WritePid, history
<1>2. Building(kernel, cfg, InitCmds(cfg))
  BY BuildingStart DEF FInv, MInv, IInv, TypeOK
<1> QED BY <1>1, <1>2 DEF FInv, InitForce, TestForce, RunForce, Cycle

LEMMA ApplyRulesFInv ==
    ASSUME MInv, FInv, ApplyRules PROVE FInv'
<1>1. /\ proc = "apply" /\ proc' = "run"
      /\ todo' = PathCmds(kernel, cfg, active) \o If(changed, RunCmds(cfg, active))
      /\ botched' = IF changed THEN botched \ {"run"} ELSE botched
      /\ UNCHANGED <<kernel, cfg, active, changed>>
  BY DEF ApplyRules
<1>2. cfg \in Configs /\ active \in SUBSET Ifaces /\ changed \in BOOLEAN
  BY DEF MInv, IInv, TypeOK
<1>3. "init" \in botched' <=> "init" \in botched
  BY <1>1
<1>4. ASSUME "init" \notin botched
      PROVE  /\ Cycling(kernel, cfg)
             /\ todo' = If(changed, RunCmds(cfg, active))
             /\ RunCmds(cfg, active) \in Seq(Rebuilds(cfg))
             /\ Rebuilding(kernel, cfg, active, RunCmds(cfg, active))
  <2>1. Cycling(kernel, cfg)
    BY <1>1, <1>4 DEF FInv, InitForce, Cycle
  <2>2. PathCmds(kernel, cfg, active) = <<>>
    BY <1>2, <2>1, NoPaths DEF Cycling, Standing
  <2>3. /\ RunCmds(cfg, active) \in Seq(Rebuilds(cfg))
        /\ Rebuilding(kernel, cfg, active, RunCmds(cfg, active))
    BY <1>2, <2>1, RebuildingStart
  <2>4. If(changed, RunCmds(cfg, active)) \in Seq(Rebuilds(cfg))
    BY <1>2, <2>3, IfType
  <2>5. \A s \in Seq(Rebuilds(cfg)) : <<>> \o s = s
    OBVIOUS
  <2> QED BY <1>1, <2>1, <2>2, <2>3, <2>4, <2>5
<1>5. ASSUME "init" \notin botched, changed
      PROVE  /\ todo' \in Seq(Rebuilds(cfg))
             /\ Rebuilding(kernel, cfg, active, todo')
  BY <1>4, <1>5 DEF If
<1>6. ASSUME "init" \notin botched, ~changed PROVE todo' = <<>>
  BY <1>4, <1>6 DEF If
<1>7. ~changed => botched' = botched
  BY <1>1
<1> QED BY <1>1, <1>2, <1>3, <1>4, <1>5, <1>6, <1>7
        DEF FInv, InitForce, TestForce, RunForce, Cycle

LEMMA SpawnFInv ==
    ASSUME MInv, FInv, Spawn, UNCHANGED kernel PROVE FInv'
<1>1. CASE proc \in {"off", "dead"}
  <2>1. proc' = "forked" /\ changed' = TRUE /\ kernel' = kernel
    BY <1>1 DEF Spawn
  <2> QED BY <2>1 DEF FInv, InitForce, TestForce, RunForce, Cycle
<1>2. CASE proc \notin {"off", "dead"}
  <2>1. UNCHANGED <<kernel, proc, cfg, todo, active, changed, botched>>
    BY <1>2 DEF Spawn, process
  <2> QED BY <2>1, SameFInv
<1> QED BY <1>1, <1>2

LEMMA DeliverFInv ==
    ASSUME MInv, FInv, NEW sig, Deliver(sig) PROVE FInv'
<1>1. Dies \/ Handle(sig)
  BY DEF Deliver
<1>2. kernel' = kernel /\ proc' \in {"off", "dead", "ending"}
  BY <1>1 DEF Dies, Handle
<1> QED BY <1>2, EndedFInv

LEMMA StopSignalFInv ==
    ASSUME MInv, FInv, StopSignal PROVE FInv'
<1>1. CASE pidfile = "current" /\ "SIGTERM" \notin handling
  BY <1>1, DeliverFInv DEF StopSignal
<1>2. CASE ~(pidfile = "current" /\ "SIGTERM" \notin handling)
  <2>1. UNCHANGED <<kernel, proc, cfg, todo, active, changed, botched>>
    BY <1>2 DEF StopSignal, process, history
  <2> QED BY <2>1, SameFInv
<1> QED BY <1>1, <1>2

LEMMA LateFInv ==
    ASSUME MInv, FInv, Late PROVE FInv'
<1>1. PICK cmd \in orphans : kernel' = Executed(kernel, cmd)
  BY DEF Late
<1>2. UNCHANGED <<proc, cfg, todo, active, changed, botched>>
  BY DEF Late, process
<1>3. cmd \in Commands /\ cmd \in RunSet \cup EndSet
  BY QuietCommands DEF MInv, IInv, HookInv, ListsInv
<1>4. Based(kernel')
  <2>1. Based(Executed(kernel, cmd))
    BY <1>3, ListsHarmless, BasedStep DEF FInv
  <2> QED BY <1>1, <2>1
<1>5. proc \notin {"forked", "init", "test", "apply", "run"}
  BY NoOrphans DEF MInv
<1> QED BY <1>2, <1>4, <1>5 DEF FInv, InitForce, TestForce, RunForce, Cycle

(* All of them.                                                            *)
LEMMA NextFInv == MInv /\ FInv /\ [Next]_vars => FInv'
<1> SUFFICES ASSUME MInv, FInv, [Next]_vars PROVE FInv'
  OBVIOUS
<1>1. CASE Daemon
  <2>1. CASE Exit
    <3>1. kernel' = kernel /\ proc' = "off"
      BY <2>1 DEF Exit
    <3> QED BY <3>1, EndedFInv
  <2> QED BY <1>1, <2>1, WritePidFInv, ExecuteFInv, InitialisedFInv, HealthTestFInv,
             ApplyRulesFInv, StartCycleFInv DEF Daemon
<1>2. CASE Late
  BY <1>2, LateFInv
<1>3. CASE Start \/ RestartStart
  BY <1>3, SpawnFInv DEF Start, RestartStart
<1>4. CASE Stop \/ Restart
  BY <1>4, StopSignalFInv DEF Stop, Restart
<1>5. CASE \E sig \in Signals : Terminate(sig)
  BY <1>5, DeliverFInv DEF Terminate
<1>6. CASE Wake \/ Crash
  <2>1. kernel' = kernel /\ proc' = "dead"
    BY <1>6 DEF Wake, Crash, Dies
  <2> QED BY <2>1, EndedFInv
<1>7. CASE Recheck \/ UNCHANGED vars
  BY <1>7, SameFInv DEF Recheck, vars, process, history
<1> QED BY <1>1, <1>2, <1>3, <1>4, <1>5, <1>6, <1>7 DEF Next

(* The kernels the properties compare with are those of the invariant.     *)
LEMMA WantedIs ==
    ASSUME MInv, FInv
    PROVE  /\ proc = "test" /\ ~changed => Wanted = AfterRun(cfg, active).chains
           /\ proc = "test" /\ changed /\ AfterInit(cfg) \in Kernels =>
                 Wanted = AfterInit(cfg).chains
           /\ proc = "run" => Wanted = AfterRun(cfg, active).chains
<1>1. cfg \in Configs /\ active \in SUBSET Ifaces /\ changed \in BOOLEAN
  BY DEF MInv, IInv, TypeOK
<1>2. ASSUME NEW ran \in BOOLEAN
      PROVE  WantedOf[cfg][ran][active] =
                ExecutedAll(AfterInit(cfg), If(ran, RunCmds(cfg, active))).chains
  BY <1>1 DEF WantedOf, AfterInit
<1>3. WantedOf[cfg][TRUE][active] = AfterRun(cfg, active).chains
  <2>1. If(TRUE, RunCmds(cfg, active)) = RunCmds(cfg, active)
    BY DEF If
  <2>2. WantedOf[cfg][TRUE][active] =
           ExecutedAll(AfterInit(cfg), If(TRUE, RunCmds(cfg, active))).chains
    BY <1>2
  <2> QED BY <2>1, <2>2 DEF AfterRun
<1>4. AfterInit(cfg) \in Kernels =>
         WantedOf[cfg][FALSE][active] = AfterInit(cfg).chains
  <2> SUFFICES ASSUME AfterInit(cfg) \in Kernels
               PROVE  WantedOf[cfg][FALSE][active] = AfterInit(cfg).chains
    OBVIOUS
  <2> DEFINE s == If(FALSE, RunCmds(cfg, active))
             w == AfterInit(cfg)
  <2>1. s \in Seq(Commands) /\ Len(s) = 0
    BY DEF If
  <2>2. WantedOf[cfg][FALSE][active] = ExecutedAll(w, s).chains
    BY <1>2
  <2> HIDE DEF s, w
  <2>3. w \in Kernels
    BY DEF w
  <2>4. ExecutedAll(w, s) = w
    BY <2>1, <2>3, ExecutedNone
  <2> QED BY <2>2, <2>4 DEF w
<1>5. /\ proc = "test" /\ ~changed => (proc = "run" \/ ~changed) = TRUE
      /\ proc = "test" /\ changed => (proc = "run" \/ ~changed) = FALSE
      /\ proc = "run" => (proc = "run" \/ ~changed) = TRUE
  BY <1>1
<1> QED BY <1>3, <1>4, <1>5 DEF Wanted

(* What the invariant says of the rules at the start of a cycle, and of    *)
(* the chains a run is rebuilding.                                         *)
LEMMA FInvInForce == MInv /\ FInv => RulesInForce
<1> SUFFICES ASSUME MInv, FInv, proc = "test", botched = {}
             PROVE  RulesInForce
  BY DEF RulesInForce
<1>1. Cycling(kernel, cfg)
  BY DEF FInv, InitForce, Cycle
<1>2. AfterInit(cfg) \in Kernels /\ Standing(kernel, cfg)
  BY <1>1 DEF Cycling
<1>3. /\ ~changed => Tracks(kernel, AfterRun(cfg, active), <<>>)
      /\ changed => Tracks(kernel, AfterInit(cfg), <<>>)
  BY DEF FInv, TestForce, Cycle
<1>4. changed \in BOOLEAN
  BY DEF MInv, IInv, TypeOK
<1>5. \E w : Wanted = w.chains /\ Tracks(kernel, w, <<>>)
  BY <1>2, <1>3, <1>4, WantedIs
<1>6. \A x : ~Contains(<<>>, x)
  BY DEF Contains
<1>7. \A c \in DOMAIN Wanted \ {PREROUTING, OUTPUT, HOOK} :
         Exists(kernel, c) /\ kernel.chains[c] = Wanted[c]
  BY <1>5, <1>6 DEF Tracks, Base
<1>8. kernel.rules = Ifaces /\ kernel.routes = Ifaces
  BY <1>2 DEF FInv, Based, Standing
<1> QED BY <1>2, <1>7, <1>8 DEF RulesInForce, Standing

LEMMA FInvPrefix == MInv /\ FInv => RebuildIsPrefix
<1> SUFFICES ASSUME MInv, FInv, proc = "run", changed, botched = {},
                    NEW c \in {PRE} \cup (IF cfg.local THEN {OUT} ELSE {}),
                    ~Contains(todo, Flush(c))
             PROVE  IsPrefix(kernel.chains[c], Wanted[c])
  BY DEF RebuildIsPrefix
<1>1. /\ todo \in Seq(Rebuilds(cfg))
      /\ Rebuilding(kernel, cfg, active, todo)
  BY DEF FInv, RunForce
<1>2. c \in Needed(cfg)
  BY DEF Needed
<1>3. c \notin Base
  BY DEF Base, PRE, OUT, PREROUTING, OUTPUT, HOOK
<1>4. Wanted = AfterRun(cfg, active).chains
  BY WantedIs
<1> QED BY <1>1, <1>2, <1>3, <1>4, RebuildingPrefix

(* Whatever killed instances left in the kernel, whatever they were        *)
(* configured for, and whichever commands failed before, the chains,       *)
(* jumps, policy rules and routes are at the start of every cycle those    *)
(* that init, and a run for the active interfaces, would have made in a    *)
(* kernel without them, unless a command of this init or of the last run   *)
(* failed.                                                                 *)
THEOREM RulesInForceTheorem == Spec => []RulesInForce
<1>1. MInv /\ FInv /\ [Next]_vars => MInv' /\ FInv'
  BY NextMInv, NextFInv
<1>2. Init => MInv /\ FInv
  BY InitMInv, InitFInv
<1> QED BY <1>1, <1>2, FInvInForce, PTL DEF Spec

(* While LBDecision::run rebuilds the balancing chains, each of them is at *)
(* every moment a beginning of the new one, or is still to be flushed;     *)
(* packets never meet rules of two runs in one chain.                      *)
THEOREM RebuildTheorem == Spec => []RebuildIsPrefix
<1>1. MInv /\ FInv /\ [Next]_vars => MInv' /\ FInv'
  BY NextMInv, NextFInv
<1>2. Init => MInv /\ FInv
  BY InitMInv, InitFInv
<1> QED BY <1>1, <1>2, FInvPrefix, PTL DEF Spec

-----------------------------------------------------------------------------
(* A proper command adds a rule only where it may be.                      *)
LEMMA WaysStep ==
    ASSUME NEW k \in Kernels, NEW c, NEW cmd \in Proper(c), Ways(k)
    PROVE  Ways(Executed(k, cmd))
<1> SUFFICES ASSUME NEW b, NEW t, Jumps(Executed(k, cmd), b, t) PROVE Leads(b, t)
  BY DEF Ways
<1>1. cmd \in Commands
  BY DEF Proper
<1>2. Jumps(k, b, t) \/ Adds(cmd, b, t)
  BY <1>1, JumpsAfter
<1> QED BY <1>2 DEF Ways, Adds, Proper

(* No chains appear but those a command makes.                             *)
LEMMA ChainsMade ==
    ASSUME NEW k \in Kernels, NEW cmd \in Commands
    PROVE  \A b \in DOMAIN Executed(k, cmd).chains :
              b \in DOMAIN k.chains \/ (cmd.op = "new" /\ b = cmd.about)
BY ExecutedEffect DEF Effect

(* They are names, and none is that of a chain that stays.                 *)
LEMMA OwnedNames ==
    ASSUME NEW c \in Configs
    PROVE  /\ Limits(c) \subseteq Nat /\ Limits(c) = {r \in 1..Len(c.rules) : c.rules[r].limit}
           /\ Owned(c) \subseteq Names
           /\ Owned(c) \cap Fixed = {}
<1>1. Limits(c) = {r \in 1..Len(c.rules) : c.rules[r].limit} /\ Limits(c) \subseteq Nat
  BY ConfigParts DEF Limits
<1>2. Owned(c) \subseteq Names
  <2>1. Ifaces \subseteq Int /\ Limits(c) \subseteq Int
    BY <1>1, LimitNames
  <2> QED BY <2>1, ChainNames DEF Owned
<1>3. /\ PRE \notin Fixed /\ OUT \notin Fixed
      /\ \A i : {ISP(i), INBOUND(i), PreLimit(i), OutLimit(i)} \cap Fixed = {}
  BY DEF Fixed, PRE, OUT, NAT, ISP, INBOUND, PreLimit, OutLimit, PREROUTING, OUTPUT, HOOK
<1> QED BY <1>1, <1>2, <1>3 DEF Owned

(* Which commands are proper.                                              *)
LEMMA ProperKinds ==
    ASSUME NEW c
    PROVE  /\ \A b \in Names : Flush(b) \in Proper(c) /\ Delete(b) \in Proper(c)
           /\ \A b \in Names : b \in {NAT} \cup Owned(c) => New(b) \in Proper(c)
           /\ \A b, t \in Names : RemoveRule(b, t) \in Proper(c)
           /\ \A b, t \in Names : Leads(b, t) /\ (t[1] = "ISP_IN" => c.sticky) =>
                Add(b, t) \in Proper(c) /\ Insert(b, t) \in Proper(c)
           /\ \A i \in Int : {RouteReplace(i), RouteFlush(i), RuleAdd(i), RuleDelete(i)}
                                \subseteq Proper(c)
<1>1. \A b, t \in Names : /\ {New(b), Flush(b), Delete(b), Add(b, t), Insert(b, t),
                             RemoveRule(b, t)} \subseteq Commands
  BY ChainNames DEF Commands, New, Flush, Delete, Add, Insert, RemoveRule, Command, Ops
<1>2. \A i \in Int : {RouteReplace(i), RouteFlush(i), RuleAdd(i), RuleDelete(i)}
                        \subseteq Commands
  BY QuietPolicy, QuietCommands
<1>3. \A b \in Names : Flush(b) \in Proper(c) /\ Delete(b) \in Proper(c)
  BY <1>1, CommandParts DEF Proper
<1>4. \A b \in Names : b \in {NAT} \cup Owned(c) => New(b) \in Proper(c)
  BY <1>1, CommandParts DEF Proper
<1>5. \A b, t \in Names : RemoveRule(b, t) \in Proper(c)
  BY <1>1, CommandParts DEF Proper
<1>6. \A b, t \in Names : Leads(b, t) /\ (t[1] = "ISP_IN" => c.sticky) =>
                Add(b, t) \in Proper(c) /\ Insert(b, t) \in Proper(c)
  BY <1>1, CommandParts DEF Proper
<1>7. \A i \in Int : {RouteReplace(i), RouteFlush(i), RuleAdd(i), RuleDelete(i)}
                                \subseteq Proper(c)
  BY <1>2, PolicyParts DEF Proper
<1> QED BY <1>3, <1>4, <1>5, <1>6, <1>7

(* Which rules lead where they may.                                        *)
LEMMA LeadsKinds ==
    /\ \A b : Leads(b, ACCEPT) /\ Leads(b, RESTORE) /\ Leads(b, NAT)
    /\ \A b, i : Leads(b, CONNMARK(i)) /\ Leads(b, MARK(i)) /\ Leads(b, SNAT(i))
    /\ Leads(PREROUTING, PRE) /\ Leads(OUTPUT, OUT)
    /\ \A i \in Ifaces : Leads(PREROUTING, INBOUND(i))
    /\ \A r : Leads(PRE, PreLimit(r)) /\ Leads(OUT, OutLimit(r))
    /\ \A b \in Balanced : \A i : Leads(b, ISP(i))
    /\ {ACCEPT[1], RESTORE[1], NAT[1], PRE[1], OUT[1]} \cap {"ISP_IN"} = {}
    /\ \A i : {CONNMARK(i)[1], MARK(i)[1], SNAT(i)[1], ISP(i)[1], PreLimit(i)[1],
               OutLimit(i)[1]} \cap {"ISP_IN"} = {}
<1>1. /\ \A b : Leads(b, ACCEPT) /\ Leads(b, RESTORE) /\ Leads(b, NAT)
      /\ \A b, i : Leads(b, CONNMARK(i)) /\ Leads(b, MARK(i)) /\ Leads(b, SNAT(i))
  BY DEF Leads, ACCEPT, RESTORE, NAT, CONNMARK, MARK, SNAT
<1>2. Leads(PREROUTING, PRE) /\ Leads(OUTPUT, OUT)
  BY DEF Leads, PRE, OUT
<1>3. \A i \in Ifaces : Leads(PREROUTING, INBOUND(i))
  BY DEF Leads, INBOUND
<1>4. \A r : Leads(PRE, PreLimit(r)) /\ Leads(OUT, OutLimit(r))
  BY DEF Leads, PreLimit, OutLimit
<1>5. \A b \in Balanced : \A i : Leads(b, ISP(i))
  <2>1. \A b \in Balanced :
          b[1] \in {"WANLOADBALANCE_PRE", "WANLOADBALANCE_OUT",
                    "WANLOADBALANCE_PRE_LIMIT", "WANLOADBALANCE_OUT_LIMIT"}
    BY DEF Balanced, LimitChains, PRE, OUT, PreLimit, OutLimit
  <2>2. \A i : ISP(i)[1] = "ISP"
    BY DEF ISP
  <2> QED BY <2>1, <2>2 DEF Leads
<1>6. {ACCEPT[1], RESTORE[1], NAT[1], PRE[1], OUT[1]} \cap {"ISP_IN"} = {}
  BY DEF ACCEPT, RESTORE, NAT, PRE, OUT
<1>7. \A i : {CONNMARK(i)[1], MARK(i)[1], SNAT(i)[1], ISP(i)[1], PreLimit(i)[1],
               OutLimit(i)[1]} \cap {"ISP_IN"} = {}
  BY DEF CONNMARK, MARK, SNAT, ISP, PreLimit, OutLimit
<1> QED BY <1>1, <1>2, <1>3, <1>4, <1>5, <1>6, <1>7

(* Every list of commands is proper to its configuration.                  *)
LEMMA EndProper == ASSUME NEW c \in Configs PROVE ShutdownCmds(c) \in Seq(Proper(c))
<1>1. \A cmd \in EndSet : cmd.op \notin {"new", "add", "insert"}
  <2>1. \A cmd \in UnhookSet : cmd.op \notin {"new", "add", "insert"}
    BY CommandParts DEF UnhookSet
  <2>2. \A i \in Ifaces : \A cmd \in CleanCmds(i) : cmd.op \notin {"new", "add", "insert"}
    <3> DEFINE Good(cmd) == cmd.op \notin {"new", "add", "insert"}
    <3>1. \A b, t : Good(Flush(b)) /\ Good(Delete(b)) /\ Good(RemoveRule(b, t))
      BY CommandParts
    <3>2. \A i : Good(RuleDelete(i)) /\ Good(RouteFlush(i))
      BY PolicyParts
    <3> HIDE DEF Good
    <3>3. \A i \in Ifaces : \A cmd \in CleanCmds(i) : Good(cmd)
      BY <3>1, <3>2 DEF CleanCmds
    <3> QED BY <3>3 DEF Good
  <2> QED BY <2>1, <2>2 DEF EndSet
<1>2. EndSet \subseteq Proper(c)
  BY <1>1, EndQuiet, QuietCommands DEF Proper
<1> QED BY <1>2, ShutdownType, SeqMonotone

LEMMA PathProper ==
    ASSUME NEW k, NEW c \in Configs, NEW up \in SUBSET Ifaces
    PROVE  PathCmds(k, c, up) \in Seq(Proper(c))
<1>1. PathSet \subseteq Proper(c)
  <2>1. \A i \in Ifaces : i \in Int /\ NAT \in Names /\ SNAT(i) \in Names
    BY LimitNames, ChainNames
  <2>2. \A i : SNAT(i)[1] # "ISP_IN" /\ Leads(NAT, SNAT(i))
    BY LeadsKinds
  <2> QED BY <2>1, <2>2, ProperKinds DEF PathSet
<1> QED BY <1>1, PathType, SeqMonotone

LEMMA RebuildsProper == ASSUME NEW c \in Configs PROVE Rebuilds(c) \subseteq Proper(c)
<1>1. \A x \in Rebuilt(c) : x \in Names /\ x \in Balanced
  BY RebuiltNames DEF Rebuilt, Balanced
<1>2. \A t \in Aims : t \in Names /\ t[1] # "ISP_IN" /\ \A x \in Rebuilt(c) : Leads(x, t)
  BY <1>1, RebuiltNames, LeadsKinds DEF Aims
<1>3. \A r \in Limits(c) : /\ PreLimit(r) \in Owned(c) /\ PreLimit(r) \in Names
                           /\ c.local => OutLimit(r) \in Owned(c)
                           /\ OutLimit(r) \in Names
                           /\ PreLimit(r)[1] # "ISP_IN" /\ OutLimit(r)[1] # "ISP_IN"
  <2>0. \A r \in Limits(c) : r \in Int
    BY OwnedNames
  <2>1. \A r \in Limits(c) : PreLimit(r) \in Names /\ OutLimit(r) \in Names
    BY <2>0, ChainNames
  <2>2. \A r \in Limits(c) : /\ PreLimit(r) \in Owned(c)
                             /\ c.local => OutLimit(r) \in Owned(c)
    BY DEF Owned
  <2>3. \A r : PreLimit(r)[1] # "ISP_IN" /\ OutLimit(r)[1] # "ISP_IN"
    BY LeadsKinds
  <2> QED BY <2>1, <2>2, <2>3
<1>4. /\ {Flush(x) : x \in Rebuilt(c)} \subseteq Proper(c)
      /\ {Add(x, t) : x \in Rebuilt(c), t \in Aims} \subseteq Proper(c)
  BY <1>1, <1>2, ProperKinds
<1>5. \A r \in Limits(c) : /\ {New(PreLimit(r)), Add(PRE, PreLimit(r))} \subseteq Proper(c)
                           /\ c.local => {New(OutLimit(r)), Add(OUT, OutLimit(r))}
                                            \subseteq Proper(c)
  BY <1>3, ProperKinds, LeadsKinds, ChainNames
<1> QED BY <1>4, <1>5 DEF Rebuilds

LEMMA RunProper ==
    ASSUME NEW c \in Configs, NEW up \in SUBSET Ifaces
    PROVE  RunCmds(c, up) \in Seq(Proper(c))
<1> DEFINE w == [chains |-> [x \in {ISP(i) : i \in Ifaces} |-> <<>>]]
<1>1. \A i \in Ifaces : ISP(i) \in DOMAIN w.chains
  OBVIOUS
<1> HIDE DEF w
<1>2. RunCmds(c, up) \in Seq(Rebuilds(c))
  BY <1>1, RunShape DEF Rounds
<1> QED BY <1>2, RebuildsProper, SeqMonotone

(* The commands of init for an interface, and all of them.                 *)
LEMMA SetupProper ==
    ASSUME NEW c \in Configs, NEW i \in Ifaces
    PROVE  InitIface(c, i) \in Seq(Proper(c))
<1> DEFINE S == Proper(c)
           a == <<New(ISP(i)), Flush(ISP(i)), Add(ISP(i), CONNMARK(i)),
                  Add(ISP(i), MARK(i)), Add(ISP(i), ACCEPT)>>
           b == <<New(INBOUND(i)), Flush(INBOUND(i)),
                  Add(INBOUND(i), CONNMARK(i)), Insert(PREROUTING, INBOUND(i))>>
           d == <<RouteReplace(i), RuleDelete(i), RuleAdd(i)>>
           e == <<Add(NAT, SNAT(i))>>
<1>1. i \in Int /\ ISP(i) \in Owned(c) /\ (c.sticky => INBOUND(i) \in Owned(c))
  BY LimitNames DEF Owned
<1>2. /\ {ISP(i), INBOUND(i), CONNMARK(i), MARK(i), ACCEPT, NAT, SNAT(i), PREROUTING}
             \subseteq Names
      /\ CONNMARK(i)[1] # "ISP_IN" /\ MARK(i)[1] # "ISP_IN" /\ SNAT(i)[1] # "ISP_IN"
      /\ ACCEPT[1] # "ISP_IN"
  BY <1>1, ChainNames, LeadsKinds
<1>3. a \in Seq(S)
  <2>1. {New(ISP(i)), Flush(ISP(i)), Add(ISP(i), CONNMARK(i)), Add(ISP(i), MARK(i)),
         Add(ISP(i), ACCEPT)} \subseteq S
    BY <1>1, <1>2, ProperKinds, LeadsKinds
  <2> HIDE DEF S
  <2> QED BY <2>1
<1>4. c.sticky => b \in Seq(S)
  <2>1. c.sticky => {New(INBOUND(i)), Flush(INBOUND(i)), Add(INBOUND(i), CONNMARK(i)),
                     Insert(PREROUTING, INBOUND(i))} \subseteq S
    BY <1>1, <1>2, ProperKinds, LeadsKinds
  <2> HIDE DEF S
  <2> QED BY <2>1
<1>5. d \in Seq(S) /\ e \in Seq(S)
  <2>1. {RouteReplace(i), RuleDelete(i), RuleAdd(i), Add(NAT, SNAT(i))} \subseteq S
    BY <1>1, <1>2, ProperKinds, LeadsKinds
  <2> HIDE DEF S
  <2> QED BY <2>1
<1>6. InitIface(c, i) = a \o If(c.sticky, b) \o d \o If(c.nat, e)
  BY DEF InitIface
<1> HIDE DEF S, a, b, d, e
<1>7. If(c.sticky, b) \in Seq(S) /\ If(c.nat, e) \in Seq(S)
  BY <1>4, <1>5 DEF If
<1> QED BY <1>3, <1>5, <1>6, <1>7 DEF S

LEMMA InitProper == ASSUME NEW c \in Configs PROVE InitCmds(c) \in Seq(Proper(c))
<1> DEFINE n == <<New(NAT), Flush(NAT), Flush(HOOK), Insert(HOOK, NAT)>>
           p == HookChain(PREROUTING, PRE)
           o == HookChain(OUTPUT, OUT)
           f == [i \in 1..NumIfaces |-> InitIface(c, i)]
           S == Proper(c)
<1>1. /\ {NAT, HOOK, PRE, OUT, PREROUTING, OUTPUT, ACCEPT} \subseteq Names
      /\ PRE \in Owned(c) /\ (c.local => OUT \in Owned(c))
      /\ NAT[1] # "ISP_IN" /\ PRE[1] # "ISP_IN" /\ OUT[1] # "ISP_IN"
      /\ ACCEPT[1] # "ISP_IN"
  BY ChainNames, LeadsKinds DEF Owned
<1>2. n \in Seq(S)
  <2>1. {New(NAT), Flush(NAT), Flush(HOOK), Insert(HOOK, NAT)} \subseteq S
    BY <1>1, ProperKinds, LeadsKinds
  <2> HIDE DEF S
  <2> QED BY <2>1
<1>3. p \in Seq(S)
  <2>1. {New(PRE), Flush(PRE), Add(PRE, ACCEPT), RemoveRule(PREROUTING, PRE),
         Insert(PREROUTING, PRE)} \subseteq S
    BY <1>1, ProperKinds, LeadsKinds
  <2> HIDE DEF S
  <2> QED BY <2>1 DEF HookChain
<1>4. c.local => o \in Seq(S)
  <2>1. c.local => {New(OUT), Flush(OUT), Add(OUT, ACCEPT), RemoveRule(OUTPUT, OUT),
                    Insert(OUTPUT, OUT)} \subseteq S
    BY <1>1, ProperKinds, LeadsKinds
  <2> HIDE DEF S
  <2> QED BY <2>1 DEF HookChain
<1>5. f \in [1..NumIfaces -> Seq(S)]
  BY SetupProper DEF Ifaces
<1>6. InitCmds(c) = If(c.nat, n) \o p \o If(c.local, o) \o FlattenSeq(f)
  BY DEF InitCmds, Each
<1> HIDE DEF S, n, p, o, f
<1>7. If(c.nat, n) \in Seq(S) /\ If(c.local, o) \in Seq(S)
  BY <1>2, <1>4 DEF If
<1>8. FlattenSeq(f) \in Seq(S)
  BY <1>5, FlattenType, NumIfacesAssumption
<1> QED BY <1>3, <1>6, <1>7, <1>8 DEF S

-----------------------------------------------------------------------------
(* Which commands those are.                                               *)
LEMMA KeepsKinds ==
    ASSUME NEW x
    PROVE  /\ \A b \in Names : Flush(b) \in Keeps(x) /\ (b # x => Delete(b) \in Keeps(x))
           /\ \A b, t \in Names : RemoveRule(b, t) \in Keeps(x)
           /\ \A i \in Int : RuleDelete(i) \in Keeps(x) /\ RouteFlush(i) \in Keeps(x)
<1>1. \A b \in Names : Flush(b) \in Commands /\ Delete(b) \in Commands
  BY ChainNames DEF Commands, Flush, Delete, Command, Ops
<1>2. \A b, t \in Names : RemoveRule(b, t) \in Commands
  BY DEF Commands, RemoveRule, Command, Ops
<1>3. \A i \in Int : RuleDelete(i) \in Commands /\ RouteFlush(i) \in Commands
  BY QuietPolicy, QuietCommands
<1>4. \A b \in Names : Flush(b) # Delete(x) /\ (b # x => Delete(b) # Delete(x))
  BY CommandParts
<1>5. \A b, t : RemoveRule(b, t) # Delete(x)
  BY CommandParts
<1>6. \A i : RuleDelete(i) # Delete(x) /\ RouteFlush(i) # Delete(x)
  <2>1. Delete(x).op = "delete"
    BY CommandParts
  <2>2. \A i : RuleDelete(i).op = "rule delete" /\ RouteFlush(i).op = "route flush"
    BY PolicyParts
  <2> QED BY <2>1, <2>2
<1> QED BY <1>1, <1>2, <1>3, <1>4, <1>5, <1>6 DEF Keeps

(* First and containment, for lists of such commands and of any.           *)
LEMMA FirstContains ==
    ASSUME NEW S, NEW s \in Seq(S), NEW cmd, NEW C
    PROVE  /\ First(s, cmd, C) => Contains(s, cmd)
           /\ Contains(s, cmd) => First(s, cmd, S)
           /\ Contains(s, cmd) /\ s \in Seq(C) => First(s, cmd, C)
<1>1. First(s, cmd, C) => Contains(s, cmd)
  BY DEF First, Contains
<1>2. ASSUME NEW D, s \in Seq(D), Contains(s, cmd) PROVE First(s, cmd, D)
  <2>1. PICK n \in 1..Len(s) : s[n] = cmd
    BY <1>2 DEF Contains
  <2>2. \A m \in 1..(n - 1) : s[m] \in D
    BY <1>2
  <2> QED BY <2>1, <2>2 DEF First
<1> QED BY <1>1, <1>2

(* Flattened, a list keeps the order of one of its parts.                  *)
LEMMA FlattenFirst ==
    ASSUME NEW S, NEW C \in SUBSET S, NEW n \in Nat \ {0}, NEW f \in [1..n -> Seq(S)],
           NEW j \in 1..n, NEW cmd, First(f[j], cmd, C),
           \A i \in 1..n : i # j => f[i] \in Seq(C)
    PROVE  First(FlattenSeq(f), cmd, C)
<1> DEFINE P == {s \in Seq(S) : s \in Seq(C) \/ First(s, cmd, C)}
           Q == {s \in Seq(S) : First(s, cmd, C)}
<1>1. \A a \in P, b \in Q : a \o b \in Q /\ b \o a \in Q
  <2> SUFFICES ASSUME NEW a \in P, NEW b \in Q PROVE a \o b \in Q /\ b \o a \in Q
    OBVIOUS
  <2>1. a \in Seq(S) /\ b \in Seq(S) /\ a \o b \in Seq(S) /\ b \o a \in Seq(S)
    OBVIOUS
  <2>2. First(b, cmd, C) /\ (a \in Seq(C) \/ First(a, cmd, C))
    OBVIOUS
  <2>3. First(a \o b, cmd, C) /\ First(b \o a, cmd, C)
    <3> HIDE DEF P, Q
    <3> QED BY <2>1, <2>2, FirstJoin
  <2> QED BY <2>1, <2>3
<1>2. \A a, b \in P : a \o b \in P
  <2> SUFFICES ASSUME NEW a \in P, NEW b \in P PROVE a \o b \in P
    OBVIOUS
  <2>1. CASE First(b, cmd, C)
    <3>1. b \in Q
      BY <2>1
    <3>2. Q \subseteq P
      OBVIOUS
    <3> HIDE DEF P, Q
    <3> QED BY <1>1, <3>1, <3>2
  <2>2. CASE First(a, cmd, C)
    <3>1. a \in Q
      BY <2>2
    <3>2. Q \subseteq P
      OBVIOUS
    <3> HIDE DEF P, Q
    <3> QED BY <1>1, <3>1, <3>2
  <2>3. CASE a \in Seq(C) /\ b \in Seq(C)
    <3>1. a \o b \in Seq(C) /\ a \o b \in Seq(S)
      BY <2>3
    <3> QED BY <3>1
  <2> QED BY <2>1, <2>2, <2>3
<1>3. <<>> \in P
  OBVIOUS
<1>4. f \in [1..n -> P] /\ f[j] \in Q
  <2>1. \A i \in 1..n : f[i] \in P
    OBVIOUS
  <2>2. f[j] \in Q
    OBVIOUS
  <2> HIDE DEF P, Q
  <2> QED BY <2>1, <2>2
<1> HIDE DEF P
<1>5. FlattenSeq(f) \in Q
  <2> HIDE DEF Q
  <2> QED BY <1>1, <1>2, <1>3, <1>4, FlattenHas
<1> QED BY <1>5

(* The order of short lists.                                               *)
LEMMA ShortFirst ==
    ASSUME NEW a, NEW b, NEW d, NEW C
    PROVE  /\ First(<<a, b>>, a, C) /\ (a \in C => First(<<a, b>>, b, C))
           /\ First(<<a, b, d>>, a, C) /\ (a \in C => First(<<a, b, d>>, b, C))
           /\ Contains(<<a, b>>, b) /\ Contains(<<a, b, d>>, d)
           /\ Contains(<<a, b, d>>, a)
<1> DEFINE s == <<a, b>>
           t == <<a, b, d>>
<1>1. Len(s) = 2 /\ s[1] = a /\ s[2] = b /\ Len(t) = 3 /\ t[1] = a /\ t[2] = b /\ t[3] = d
  OBVIOUS
<1> HIDE DEF s, t
<1>2. /\ 1 \in 1..Len(s) /\ 2 \in 1..Len(s) /\ 1 \in 1..Len(t) /\ 2 \in 1..Len(t)
      /\ 3 \in 1..Len(t)
  BY <1>1
<1>3. /\ \A m \in 1..(1 - 1) : s[m] \in C /\ t[m] \in C
      /\ a \in C => \A m \in 1..(2 - 1) : s[m] \in C /\ t[m] \in C
  BY <1>1
<1>4. First(s, a, C) /\ (a \in C => First(s, b, C))
  BY <1>1, <1>2, <1>3 DEF First
<1>5. First(t, a, C) /\ (a \in C => First(t, b, C))
  BY <1>1, <1>2, <1>3 DEF First
<1>6. Contains(s, b) /\ Contains(t, d) /\ Contains(t, a)
  BY <1>1, <1>2 DEF Contains
<1> QED BY <1>4, <1>5, <1>6 DEF s, t

(* The order in a list put together of four.                               *)
LEMMA FirstOfFour ==
    ASSUME NEW S, NEW a \in Seq(S), NEW b \in Seq(S), NEW d \in Seq(S), NEW e \in Seq(S),
           NEW C, NEW cmd
    PROVE  LET u == a \o b \o d \o e IN
           /\ First(a, cmd, C) => First(u, cmd, C)
           /\ a \in Seq(C) /\ First(b, cmd, C) => First(u, cmd, C)
           /\ a \in Seq(C) /\ b \in Seq(C) /\ First(d, cmd, C) => First(u, cmd, C)
           /\ a \in Seq(C) /\ b \in Seq(C) /\ d \in Seq(C) /\ First(e, cmd, C) =>
                 First(u, cmd, C)
<1> DEFINE ab == a \o b
           abd == ab \o d
<1>1. ab \in Seq(S) /\ (a \in Seq(C) /\ b \in Seq(C) => ab \in Seq(C))
  OBVIOUS
<1>2. /\ First(a, cmd, C) => First(ab, cmd, C)
      /\ a \in Seq(C) /\ First(b, cmd, C) => First(ab, cmd, C)
  BY FirstJoin
<1> HIDE DEF ab
<1>3. abd \in Seq(S) /\ (ab \in Seq(C) /\ d \in Seq(C) => abd \in Seq(C))
  BY <1>1
<1>4. /\ First(ab, cmd, C) => First(abd, cmd, C)
      /\ ab \in Seq(C) /\ First(d, cmd, C) => First(abd, cmd, C)
  BY <1>1, FirstJoin
<1> HIDE DEF abd
<1>5. /\ First(abd, cmd, C) => First(abd \o e, cmd, C)
      /\ abd \in Seq(C) /\ First(e, cmd, C) => First(abd \o e, cmd, C)
  BY <1>3, FirstJoin
<1> QED BY <1>1, <1>2, <1>3, <1>4, <1>5 DEF ab, abd

(* A chain that is unhooked: the jump to it goes first, then its rules.    *)
LEMMA UnhookOrder ==
    ASSUME NEW base \in Names, NEW x \in Names
    PROVE  LET a == UnhookChain(base, x) IN
           /\ a \in Seq(Commands)
           /\ \A y : y # x => a \in Seq(Keeps(y))
           /\ First(a, RemoveRule(base, x), Keeps(x))
           /\ \A y : First(a, Flush(x), Keeps(y))
           /\ Contains(a, Delete(x))
<1> DEFINE a == UnhookChain(base, x)
<1>1. a = <<RemoveRule(base, x), Flush(x), Delete(x)>>
  BY DEF UnhookChain
<1>2. \A y : y # x => a \in Seq(Keeps(y))
  <2> SUFFICES ASSUME NEW y, y # x PROVE a \in Seq(Keeps(y))
    OBVIOUS
  <2>1. {RemoveRule(base, x), Flush(x), Delete(x)} \subseteq Keeps(y)
    BY KeepsKinds
  <2> QED BY <1>1, <2>1
<1>3. a \in Seq(Commands)
  <2>1. {RemoveRule(base, x), Flush(x), Delete(x)} \subseteq Commands
    BY ChainNames DEF Commands, RemoveRule, Flush, Delete, Command, Ops
  <2> QED BY <1>1, <2>1
<1>4. \A y : RemoveRule(base, x) \in Keeps(y)
  BY KeepsKinds
<1> HIDE DEF a
<1>5. First(a, RemoveRule(base, x), Keeps(x)) /\ \A y : First(a, Flush(x), Keeps(y))
  BY <1>1, <1>4, ShortFirst
<1>6. Contains(a, Delete(x))
  BY <1>1, ShortFirst
<1> QED BY <1>2, <1>3, <1>5, <1>6 DEF a

(* They are emptied before they are deleted, and no other chain is         *)
(* deleted.                                                                *)
LEMMA EndLimitOrder ==
    ASSUME NEW c \in Configs, NEW r \in 1..Len(c.rules)
    PROVE  /\ EndLimit(c, r) \in Seq(Commands)
           /\ \A y : y \notin {PreLimit(r), OutLimit(r)} => EndLimit(c, r) \in Seq(Keeps(y))
           /\ \A x : r \in Limits(c) /\ (x = PreLimit(r) \/ (c.local /\ x = OutLimit(r))) =>
                 /\ First(EndLimit(c, r), Flush(x), Keeps(x))
                 /\ Contains(EndLimit(c, r), Delete(x))
<1> DEFINE p == <<Flush(PreLimit(r)), Delete(PreLimit(r))>>
           o == <<Flush(OutLimit(r)), Delete(OutLimit(r))>>
           b == If(c.local, o)
<1>1. /\ PreLimit(r) \in Names /\ OutLimit(r) \in Names /\ PreLimit(r) # OutLimit(r)
      /\ c.rules[r].limit \in BOOLEAN /\ c.local \in BOOLEAN
  <2>1. r \in Int /\ PreLimit(r) # OutLimit(r)
    BY ConfigParts DEF PreLimit, OutLimit
  <2> QED BY <2>1, ChainNames, ConfigParts DEF Rule
<1>2. EndLimit(c, r) = If(c.rules[r].limit, p \o b)
  BY DEF EndLimit, Both
<1>3. ASSUME NEW x \in Names
      PROVE  /\ <<Flush(x), Delete(x)>> \in Seq(Commands)
             /\ \A y : y # x => <<Flush(x), Delete(x)>> \in Seq(Keeps(y))
             /\ First(<<Flush(x), Delete(x)>>, Flush(x), Keeps(x))
             /\ Contains(<<Flush(x), Delete(x)>>, Delete(x))
  <2>1. {Flush(x), Delete(x)} \subseteq Commands
    BY ChainNames DEF Commands, Flush, Delete, Command, Ops
  <2>2. \A y : y # x => {Flush(x), Delete(x)} \subseteq Keeps(y)
    BY KeepsKinds
  <2>3. \A y : y # x => <<Flush(x), Delete(x)>> \in Seq(Keeps(y))
    <3> SUFFICES ASSUME NEW y, y # x PROVE <<Flush(x), Delete(x)>> \in Seq(Keeps(y))
      OBVIOUS
    <3>1. Flush(x) \in Keeps(y) /\ Delete(x) \in Keeps(y)
      BY <2>2
    <3> QED BY <3>1
  <2>4. <<Flush(x), Delete(x)>> \in Seq(Commands)
    BY <2>1
  <2> DEFINE u == Flush(x)
             v == Delete(x)
  <2> HIDE DEF u, v
  <2>5. First(<<u, v>>, u, Keeps(x)) /\ Contains(<<u, v>>, v)
    BY ShortFirst
  <2> QED BY <2>3, <2>4, <2>5 DEF u, v
<1>4. /\ p \in Seq(Commands) /\ o \in Seq(Commands)
      /\ \A y : y # PreLimit(r) => p \in Seq(Keeps(y))
      /\ \A y : y # OutLimit(r) => o \in Seq(Keeps(y))
      /\ First(p, Flush(PreLimit(r)), Keeps(PreLimit(r))) /\ Contains(p, Delete(PreLimit(r)))
      /\ First(o, Flush(OutLimit(r)), Keeps(OutLimit(r))) /\ Contains(o, Delete(OutLimit(r)))
  BY <1>1, <1>3
<1> HIDE DEF p, o
<1>5. /\ b \in Seq(Commands) /\ (c.local => b = o)
      /\ \A y : y # OutLimit(r) => b \in Seq(Keeps(y))
  BY <1>1, <1>4 DEF If
<1> HIDE DEF b
<1>6. ASSUME NEW y, y \notin {PreLimit(r), OutLimit(r)}
      PROVE  EndLimit(c, r) \in Seq(Keeps(y))
  <2>1. p \in Seq(Keeps(y)) /\ b \in Seq(Keeps(y))
    BY <1>4, <1>5, <1>6
  <2>2. p \o b \in Seq(Keeps(y))
    BY <2>1
  <2> QED BY <1>1, <1>2, <2>2 DEF If
<1>7. EndLimit(c, r) \in Seq(Commands)
  <2>1. p \o b \in Seq(Commands)
    BY <1>4, <1>5
  <2> QED BY <1>1, <1>2, <2>1 DEF If
<1>8. r \in Limits(c) => EndLimit(c, r) = p \o b
  BY <1>2 DEF Limits, If
<1>9. /\ First(p \o b, Flush(PreLimit(r)), Keeps(PreLimit(r)))
      /\ Contains(p \o b, Delete(PreLimit(r)))
  BY <1>4, <1>5, FirstJoin, ContainsJoin
<1>10. c.local => /\ First(p \o b, Flush(OutLimit(r)), Keeps(OutLimit(r)))
                  /\ Contains(p \o b, Delete(OutLimit(r)))
  BY <1>1, <1>4, <1>5, FirstJoin, ContainsJoin
<1> QED BY <1>6, <1>7, <1>8, <1>9, <1>10

(* One interface, and all of them.                                         *)
LEMMA IfaceOrder ==
    ASSUME NEW c \in Configs, NEW i \in Ifaces
    PROVE  /\ ShutdownIface(c, i) \in Seq(Commands)
           /\ \A y : y \notin {ISP(i), INBOUND(i)} => ShutdownIface(c, i) \in Seq(Keeps(y))
           /\ Sweeps(ShutdownIface(c, i), c, i)
<1> DEFINE a == <<RuleDelete(i), RouteFlush(i), Flush(ISP(i)), Delete(ISP(i))>>
           o == UnhookChain(PREROUTING, INBOUND(i))
           b == If(c.sticky, o)
<1>1. /\ i \in Int /\ ISP(i) \in Names /\ INBOUND(i) \in Names /\ ISP(i) # INBOUND(i)
      /\ PREROUTING \in Names /\ c.sticky \in BOOLEAN
  <2>1. ISP(i) # INBOUND(i)
    BY DEF ISP, INBOUND
  <2> QED BY <2>1, LimitNames, ChainNames, ConfigParts
<1>2. ShutdownIface(c, i) = a \o b
  BY DEF ShutdownIface, UnhookChain
<1>3. /\ Len(a) = 4 /\ a[1] = RuleDelete(i) /\ a[2] = RouteFlush(i) /\ a[3] = Flush(ISP(i))
      /\ a[4] = Delete(ISP(i))
  OBVIOUS
<1>4. \A y : /\ {RuleDelete(i), RouteFlush(i), Flush(ISP(i))} \subseteq Keeps(y)
             /\ y # ISP(i) => Delete(ISP(i)) \in Keeps(y)
  BY <1>1, KeepsKinds
<1>5. \A y : y # ISP(i) => a \in Seq(Keeps(y))
  <2> SUFFICES ASSUME NEW y, y # ISP(i) PROVE a \in Seq(Keeps(y))
    OBVIOUS
  <2>1. {RuleDelete(i), RouteFlush(i), Flush(ISP(i)), Delete(ISP(i))} \subseteq Keeps(y)
    BY <1>4
  <2> QED BY <2>1
<1>6. a \in Seq(Commands)
  <2>1. INBOUND(i) # ISP(i)
    BY <1>1
  <2>2. a \in Seq(Keeps(INBOUND(i)))
    BY <2>1, <1>5
  <2>3. Keeps(INBOUND(i)) \subseteq Commands
    BY DEF Keeps
  <2> HIDE DEF a
  <2> QED BY <2>2, <2>3, SeqMonotone
<1> HIDE DEF a
<1>7. /\ First(a, Flush(ISP(i)), Keeps(ISP(i))) /\ Contains(a, Delete(ISP(i)))
      /\ Contains(a, RuleDelete(i)) /\ Contains(a, RouteFlush(i))
  <2>1. 1 \in 1..Len(a) /\ 2 \in 1..Len(a) /\ 3 \in 1..Len(a) /\ 4 \in 1..Len(a)
    BY <1>3
  <2>2. \A m \in 1..(3 - 1) : m = 1 \/ m = 2
    OBVIOUS
  <2>3. \A m \in 1..(3 - 1) : a[m] \in Keeps(ISP(i))
    BY <2>2, <1>3, <1>4
  <2>4. First(a, Flush(ISP(i)), Keeps(ISP(i)))
    BY <2>1, <2>3, <1>3 DEF First
  <2> QED BY <2>1, <2>4, <1>3 DEF Contains
<1>8. /\ o \in Seq(Commands)
      /\ \A y : y # INBOUND(i) => o \in Seq(Keeps(y))
      /\ First(o, RemoveRule(PREROUTING, INBOUND(i)), Keeps(INBOUND(i)))
      /\ First(o, Flush(INBOUND(i)), Keeps(INBOUND(i)))
      /\ Contains(o, Delete(INBOUND(i)))
  BY <1>1, UnhookOrder
<1> HIDE DEF o
<1>9. /\ b \in Seq(Commands) /\ (c.sticky => b = o)
      /\ \A y : y # INBOUND(i) => b \in Seq(Keeps(y))
  BY <1>1, <1>8 DEF If
<1> HIDE DEF b
<1>10. a \o b \in Seq(Commands)
  BY <1>6, <1>9
<1>11. ASSUME NEW y, y \notin {ISP(i), INBOUND(i)} PROVE a \o b \in Seq(Keeps(y))
  <2>1. a \in Seq(Keeps(y)) /\ b \in Seq(Keeps(y))
    BY <1>5, <1>9, <1>11
  <2> QED BY <2>1
<1>12. /\ First(a \o b, Flush(ISP(i)), Keeps(ISP(i))) /\ Contains(a \o b, Delete(ISP(i)))
       /\ Contains(a \o b, RuleDelete(i)) /\ Contains(a \o b, RouteFlush(i))
  BY <1>6, <1>7, <1>9, FirstJoin, ContainsJoin
<1>13. c.sticky => /\ First(a \o b, RemoveRule(PREROUTING, INBOUND(i)), Keeps(INBOUND(i)))
                   /\ First(a \o b, Flush(INBOUND(i)), Keeps(INBOUND(i)))
                   /\ Contains(a \o b, Delete(INBOUND(i)))
  <2>1. a \in Seq(Keeps(INBOUND(i)))
    BY <1>1, <1>5
  <2> QED BY <2>1, <1>6, <1>8, <1>9, FirstJoin, ContainsJoin
<1> QED BY <1>2, <1>10, <1>11, <1>12, <1>13 DEF Sweeps

LEMMA IfacesOrder ==
    ASSUME NEW c \in Configs
    PROVE  /\ ShutdownIfaces(c) \in Seq(Commands)
           /\ \A i \in Ifaces : Sweeps(ShutdownIfaces(c), c, i)
<1> DEFINE f == [i \in 1..NumIfaces |-> ShutdownIface(c, i)]
           z == ShutdownIfaces(c)
<1>1. z = FlattenSeq(f)
  BY DEF ShutdownIfaces, Each
<1>2. f \in [1..NumIfaces -> Seq(Commands)]
  BY IfaceOrder DEF Ifaces
<1>3. z \in Seq(Commands)
  <2> HIDE DEF f, z
  <2> QED BY <1>1, <1>2, FlattenType, NumIfacesAssumption
<1>4. \A i, j \in Ifaces : i # j =>
          {ISP(i), INBOUND(i)} \cap {ISP(j), INBOUND(j)} = {}
  BY DEF ISP, INBOUND
<1>5. ASSUME NEW i \in Ifaces PROVE Sweeps(z, c, i)
  <2>1. i \in 1..NumIfaces /\ f[i] = ShutdownIface(c, i) /\ Sweeps(f[i], c, i)
    BY IfaceOrder DEF Ifaces
  <2>2. \A y \in {ISP(i), INBOUND(i)} : \A j \in 1..NumIfaces :
            j # i => f[j] \in Seq(Keeps(y))
    <3>1. \A j \in 1..NumIfaces : j \in Ifaces /\ f[j] = ShutdownIface(c, j)
      BY DEF Ifaces
    <3> HIDE DEF f
    <3>2. ASSUME NEW y \in {ISP(i), INBOUND(i)}, NEW j \in 1..NumIfaces, j # i
          PROVE  f[j] \in Seq(Keeps(y))
      <4>1. j \in Ifaces /\ f[j] = ShutdownIface(c, j)
        BY <3>1
      <4>2. y \notin {ISP(j), INBOUND(j)}
        BY <4>1, <3>2, <1>4
      <4> QED BY <4>1, <4>2, IfaceOrder
    <3> QED BY <3>2
  <2> HIDE DEF f, z
  <2>3. \A j \in 1..NumIfaces : f[j] \in Seq(Commands)
    BY <1>2
  <2>4. \A y : Keeps(y) \subseteq Commands
    BY DEF Keeps
  <2>5. ASSUME NEW y \in {ISP(i), INBOUND(i)}, NEW cmd, First(f[i], cmd, Keeps(y))
        PROVE  First(z, cmd, Keeps(y))
    <3>1. \A j \in 1..NumIfaces : j # i => f[j] \in Seq(Keeps(y))
      BY <2>2
    <3> QED BY <3>1, <2>1, <2>4, <2>5, <1>1, <1>2, NumIfacesAssumption, FlattenFirst
  <2>6. ASSUME NEW cmd, Contains(f[i], cmd) PROVE Contains(z, cmd)
    <3>1. First(f[i], cmd, Commands)
      BY <2>1, <2>3, <2>6, FirstContains
    <3>2. First(z, cmd, Commands)
      BY <3>1, <2>1, <2>3, <1>1, <1>2, NumIfacesAssumption, FlattenFirst
    <3> QED BY <3>2, <1>3, FirstContains
  <2> QED BY <2>1, <2>5, <2>6 DEF Sweeps
<1> QED BY <1>3, <1>5

(* The chains of the rules, and all but those of the interfaces.           *)
LEMMA CapsOrder ==
    ASSUME NEW c \in Configs
    PROVE  LET f == [r \in 1..Len(c.rules) |-> EndLimit(c, r)] IN
           /\ FlattenSeq(f) \in Seq(Commands)
           /\ \A x \in Caps(c) : /\ First(FlattenSeq(f), Flush(x), Keeps(x))
                                 /\ Contains(FlattenSeq(f), Delete(x))
           /\ \A y : y \notin LimitChains => FlattenSeq(f) \in Seq(Keeps(y))
<1> DEFINE n == Len(c.rules)
           f == [r \in 1..n |-> EndLimit(c, r)]
           e == FlattenSeq(f)
<1>1. n \in Nat /\ f \in [1..n -> Seq(Commands)]
  BY ConfigParts, EndLimitOrder
<1>2. \A r \in 1..n : f[r] = EndLimit(c, r)
  OBVIOUS
<1> HIDE DEF f
<1>3. e \in Seq(Commands)
  BY <1>1, FlattenType
<1>4. ASSUME NEW y, y \notin LimitChains PROVE e \in Seq(Keeps(y))
  <2>1. \A r \in 1..n : y \notin {PreLimit(r), OutLimit(r)}
    BY <1>1, <1>4 DEF LimitChains
  <2>2. \A r \in 1..n : f[r] \in Seq(Keeps(y))
    BY <2>1, <1>2, EndLimitOrder
  <2>3. f \in [1..n -> Seq(Keeps(y))]
    BY <2>2, <1>1
  <2> QED BY <2>3, <1>1, FlattenType
<1>5. ASSUME NEW x \in Caps(c)
      PROVE  First(e, Flush(x), Keeps(x)) /\ Contains(e, Delete(x))
  <2>1. PICK r \in Limits(c) : x = PreLimit(r) \/ (c.local /\ x = OutLimit(r))
    BY DEF Caps
  <2>2. r \in 1..n /\ n # 0
    BY <1>1, ConfigParts DEF Limits
  <2>3. First(f[r], Flush(x), Keeps(x)) /\ Contains(f[r], Delete(x))
    BY <2>1, <2>2, <1>2, EndLimitOrder
  <2>4. \A q \in 1..n : q # r => x \notin {PreLimit(q), OutLimit(q)}
    BY <2>1 DEF PreLimit, OutLimit
  <2>5. \A q \in 1..n : q # r => f[q] \in Seq(Keeps(x))
    BY <2>4, <1>2, EndLimitOrder
  <2> HIDE DEF n, e
  <2>6. Keeps(x) \subseteq Commands /\ n \in Nat \ {0}
    BY <2>2, <1>1 DEF Keeps
  <2>7. First(e, Flush(x), Keeps(x))
    BY <2>2, <2>3, <2>5, <2>6, <1>1, FlattenFirst DEF e
  <2>8. \A q \in 1..n : f[q] \in Seq(Commands)
    BY <1>1
  <2>9. First(f[r], Delete(x), Commands)
    BY <2>2, <2>3, <2>8, FirstContains
  <2>10. First(e, Delete(x), Commands)
    BY <2>2, <2>9, <2>6, <2>8, <1>1, FlattenFirst DEF e
  <2> QED BY <2>7, <2>10, <1>3, FirstContains
<1> QED BY <1>3, <1>4, <1>5 DEF f

LEMMA ChainsOrder ==
    ASSUME NEW c \in Configs
    PROVE  ShutdownChains(c) \in Seq(Commands) /\ Clears(ShutdownChains(c), c)
<1> DEFINE f == [r \in 1..Len(c.rules) |-> EndLimit(c, r)]
           a == UnhookChain(PREROUTING, PRE)
           o == UnhookChain(OUTPUT, OUT)
           b == If(c.local, o)
           e == FlattenSeq(f)
           d == <<Flush(NAT), Delete(NAT), Flush(HOOK)>>
           u == a \o b \o e \o d
<1>1. ShutdownChains(c) = u
  BY DEF ShutdownChains, Each, EndLimit
<1>2. /\ e \in Seq(Commands)
      /\ \A x \in Caps(c) : First(e, Flush(x), Keeps(x)) /\ Contains(e, Delete(x))
      /\ \A y : y \notin LimitChains => e \in Seq(Keeps(y))
  BY CapsOrder
<1> HIDE DEF e
<1>3. /\ {PREROUTING, OUTPUT, PRE, OUT, NAT, HOOK} \subseteq Names /\ PRE # OUT
      /\ c.local \in BOOLEAN
  BY ChainNames, ChainsApart, ConfigParts
<1>4. \A x \in Caps(c) : x # PRE /\ x # OUT
  BY DEF Caps, PreLimit, OutLimit, PRE, OUT
<1>5. /\ a \in Seq(Commands) /\ (\A y : y # PRE => a \in Seq(Keeps(y)))
      /\ First(a, RemoveRule(PREROUTING, PRE), Keeps(PRE))
      /\ (\A y : First(a, Flush(PRE), Keeps(y))) /\ Contains(a, Delete(PRE))
  BY <1>3, UnhookOrder
<1>6. /\ o \in Seq(Commands) /\ (\A y : y # OUT => o \in Seq(Keeps(y)))
      /\ First(o, RemoveRule(OUTPUT, OUT), Keeps(OUT))
      /\ (\A y : First(o, Flush(OUT), Keeps(y))) /\ Contains(o, Delete(OUT))
  BY <1>3, UnhookOrder
<1>7. d \in Seq(Commands) /\ Contains(d, Flush(NAT)) /\ Contains(d, Flush(HOOK))
  <2>1. {Flush(NAT), Delete(NAT), Flush(HOOK)} \subseteq Commands
    BY <1>3, ChainNames DEF Commands, Flush, Delete, Command, Ops
  <2>2. d \in Seq(Commands)
    BY <2>1
  <2>3. Contains(d, Flush(NAT)) /\ Contains(d, Flush(HOOK))
    BY ShortFirst
  <2> QED BY <2>2, <2>3
<1> HIDE DEF a, o, d
<1>8. /\ b \in Seq(Commands) /\ (c.local => b = o)
      /\ \A y : y # OUT => b \in Seq(Keeps(y))
  BY <1>3, <1>6 DEF If
<1> HIDE DEF b
<1>9. ASSUME NEW cmd, NEW C
      PROVE  /\ First(a, cmd, C) => First(u, cmd, C)
             /\ a \in Seq(C) /\ First(b, cmd, C) => First(u, cmd, C)
             /\ a \in Seq(C) /\ b \in Seq(C) /\ First(e, cmd, C) => First(u, cmd, C)
  BY <1>2, <1>5, <1>7, <1>8, FirstOfFour
<1>10. u \in Seq(Commands)
  BY <1>2, <1>5, <1>7, <1>8
<1>11. ASSUME NEW cmd, Contains(a, cmd) \/ Contains(b, cmd) \/ Contains(e, cmd) \/ Contains(d, cmd)
       PROVE  Contains(u, cmd)
  <2>1. a \o b \in Seq(Commands) /\ a \o b \o e \in Seq(Commands)
    BY <1>2, <1>5, <1>8
  <2>2. Contains(a, cmd) \/ Contains(b, cmd) => Contains(a \o b, cmd)
    BY <1>5, <1>8, ContainsJoin
  <2>3. Contains(a \o b, cmd) \/ Contains(e, cmd) => Contains(a \o b \o e, cmd)
    BY <2>1, <1>2, ContainsJoin
  <2>4. Contains(a \o b \o e, cmd) \/ Contains(d, cmd) => Contains(u, cmd)
    BY <2>1, <1>7, ContainsJoin
  <2> QED BY <2>2, <2>3, <2>4, <1>11
<1> HIDE DEF u
<1>12. /\ First(u, RemoveRule(PREROUTING, PRE), Keeps(PRE))
       /\ First(u, Flush(PRE), Keeps(PRE)) /\ Contains(u, Delete(PRE))
  BY <1>5, <1>9, <1>11
<1>13. c.local => /\ First(u, RemoveRule(OUTPUT, OUT), Keeps(OUT))
                  /\ First(u, Flush(OUT), Keeps(OUT)) /\ Contains(u, Delete(OUT))
  BY <1>3, <1>5, <1>6, <1>8, <1>9, <1>11
<1>14. ASSUME NEW x \in Caps(c)
       PROVE  /\ First(u, Flush(x), Keeps(x)) /\ Contains(u, Delete(x))
              /\ First(u, Flush(PRE), Keeps(x))
              /\ c.local => First(u, Flush(OUT), Keeps(x))
  <2>1. a \in Seq(Keeps(x)) /\ b \in Seq(Keeps(x))
    BY <1>4, <1>5, <1>8
  <2>2. First(u, Flush(x), Keeps(x)) /\ Contains(u, Delete(x))
    BY <2>1, <1>2, <1>9, <1>11
  <2>3. First(u, Flush(PRE), Keeps(x))
    BY <1>5, <1>9
  <2>4. c.local => First(u, Flush(OUT), Keeps(x))
    BY <2>1, <1>6, <1>8, <1>9
  <2> QED BY <2>2, <2>3, <2>4
<1>15. Contains(u, Flush(NAT)) /\ Contains(u, Flush(HOOK))
  BY <1>7, <1>11
<1> QED BY <1>1, <1>10, <1>12, <1>13, <1>14, <1>15 DEF Clears

(* The chains of an instance by their kinds.                               *)
LEMMA OwnedKinds ==
    ASSUME NEW c, NEW x \in Owned(c)
    PROVE  \/ x = PRE
           \/ x = OUT /\ c.local
           \/ \E i \in Ifaces : x = ISP(i) \/ (x = INBOUND(i) /\ c.sticky)
           \/ x \in Caps(c)
BY DEF Owned, Caps

(* Which base chain, and which of the chains of an instance, may jump to   *)
(* one of them.                                                            *)
LEMMA LeadsOwned ==
    ASSUME NEW c, NEW x \in Owned(c), NEW b, Leads(b, x)
    PROVE  /\ b \in {PREROUTING, OUTPUT} =>
                \/ b = PREROUTING /\ (x = PRE \/ \E i \in Ifaces : x = INBOUND(i) /\ c.sticky)
                \/ b = OUTPUT /\ x = OUT /\ c.local
           /\ b \in Owned(c) =>
                \/ x \in Caps(c) /\ (b = PRE \/ (b = OUT /\ c.local))
                \/ /\ \E i \in Ifaces : x = ISP(i)
                   /\ b = PRE \/ (b = OUT /\ c.local) \/ b \in Caps(c)
<1>1. /\ PREROUTING[1] = "PREROUTING" /\ OUTPUT[1] = "OUTPUT"
      /\ PRE[1] = "WANLOADBALANCE_PRE" /\ OUT[1] = "WANLOADBALANCE_OUT"
      /\ \A i : /\ ISP(i)[1] = "ISP" /\ INBOUND(i)[1] = "ISP_IN"
                /\ PreLimit(i)[1] = "WANLOADBALANCE_PRE_LIMIT"
                /\ OutLimit(i)[1] = "WANLOADBALANCE_OUT_LIMIT"
  BY DEF PREROUTING, OUTPUT, PRE, OUT, ISP, INBOUND, PreLimit, OutLimit
<1>2. \A y \in Caps(c) : \/ y[1] = "WANLOADBALANCE_PRE_LIMIT"
                         \/ y[1] = "WANLOADBALANCE_OUT_LIMIT" /\ c.local
  BY <1>1 DEF Caps
<1>3. CASE x = PRE
  <2>1. b = PREROUTING
    BY <1>1, <1>3 DEF Leads
  <2>2. b \notin Owned(c)
    BY <2>1, <1>1, <1>2, OwnedKinds
  <2> QED BY <2>1, <2>2, <1>3
<1>4. CASE x = OUT /\ c.local
  <2>1. b = OUTPUT
    BY <1>1, <1>4 DEF Leads
  <2>2. b \notin Owned(c)
    BY <2>1, <1>1, <1>2, OwnedKinds
  <2> QED BY <2>1, <2>2, <1>4
<1>5. ASSUME NEW i \in Ifaces, x = INBOUND(i), c.sticky
      PROVE  b = PREROUTING /\ b \notin Owned(c)
  <2>1. b = PREROUTING
    BY <1>1, <1>5 DEF Leads
  <2>2. b \notin Owned(c)
    BY <2>1, <1>1, <1>2, OwnedKinds
  <2> QED BY <2>1, <2>2
<1>6. CASE x \in Caps(c)
  <2>1. b = PRE \/ (b = OUT /\ c.local)
    BY <1>1, <1>2, <1>6 DEF Leads
  <2>2. b \notin {PREROUTING, OUTPUT}
    BY <2>1, <1>1
  <2> QED BY <2>1, <2>2, <1>6
<1>7. ASSUME NEW i \in Ifaces, x = ISP(i)
      PROVE  /\ b \notin {PREROUTING, OUTPUT}
             /\ b \in Owned(c) => b = PRE \/ (b = OUT /\ c.local) \/ b \in Caps(c)
  <2>1. b[1] \in {"WANLOADBALANCE_PRE", "WANLOADBALANCE_OUT",
                  "WANLOADBALANCE_PRE_LIMIT", "WANLOADBALANCE_OUT_LIMIT"}
    BY <1>1, <1>7 DEF Leads
  <2>2. b \notin {PREROUTING, OUTPUT}
    BY <2>1, <1>1
  <2>3. \A j : b # ISP(j) /\ b # INBOUND(j)
    BY <2>1, <1>1
  <2> QED BY <2>2, <2>3, OwnedKinds
<1> QED BY <1>3, <1>4, <1>5, <1>6, <1>7, OwnedKinds

(* Shutdown deletes every chain of the instance, but empties it before,    *)
(* and those that may jump to it, or takes the jump out of the base chain. *)
LEMMA SweepOrder ==
    ASSUME NEW c \in Configs
    PROVE  LET s == ShutdownCmds(c) IN
           /\ s \in Seq(Commands)
           /\ \A x \in Owned(c) : Contains(s, Delete(x))
           /\ \A x \in Owned(c), b \in Owned(c) : b = x \/ Leads(b, x) =>
                 First(s, Flush(b), Keeps(x))
           /\ \A x \in Owned(c), b \in {PREROUTING, OUTPUT} : Leads(b, x) =>
                 First(s, RemoveRule(b, x), Keeps(x))
           /\ \A i \in Ifaces : Contains(s, RuleDelete(i)) /\ Contains(s, RouteFlush(i))
           /\ Contains(s, Flush(NAT)) /\ Contains(s, Flush(HOOK))
<1> DEFINE u == ShutdownChains(c)
           z == ShutdownIfaces(c)
           s == ShutdownCmds(c)
<1>1. s = u \o z
  BY DEF ShutdownCmds
<1>2. u \in Seq(Commands) /\ Clears(u, c)
  BY ChainsOrder
<1>3. z \in Seq(Commands) /\ \A i \in Ifaces : Sweeps(z, c, i)
  BY IfacesOrder
<1>4. ASSUME NEW i \in Ifaces, NEW y \in {ISP(i), INBOUND(i)} PROVE u \in Seq(Keeps(y))
  <2>1. y \notin {PRE, OUT, NAT} \cup LimitChains
    BY DEF ISP, INBOUND, PRE, OUT, NAT, LimitChains, PreLimit, OutLimit
  <2> DEFINE Good(cmd) == cmd # Delete(y)
  <2>2. \A b : Good(Flush(b)) /\ (b # y => Good(Delete(b)))
    BY CommandParts
  <2>3. \A b, t : Good(RemoveRule(b, t))
    BY CommandParts
  <2> HIDE DEF Good
  <2>4. \A cmd \in UnhookSet : Good(cmd)
    BY <2>1, <2>2, <2>3 DEF UnhookSet
  <2>5. UnhookSet \subseteq Commands
    BY EndQuiet, QuietCommands DEF EndSet
  <2>6. UnhookSet \subseteq Keeps(y)
    BY <2>4, <2>5 DEF Keeps, Good
  <2> QED BY <2>6, ShutdownChainsType, SeqMonotone
<1> HIDE DEF u, z, s
<1>5. s \in Seq(Commands)
  BY <1>1, <1>2, <1>3
<1>6. ASSUME NEW cmd, Contains(u, cmd) \/ Contains(z, cmd) PROVE Contains(s, cmd)
  BY <1>1, <1>2, <1>3, <1>6, ContainsJoin
<1>7. ASSUME NEW cmd, NEW C, First(u, cmd, C) PROVE First(s, cmd, C)
  BY <1>1, <1>2, <1>3, <1>7, FirstJoin
<1>8. ASSUME NEW cmd, NEW C, u \in Seq(C), First(z, cmd, C) PROVE First(s, cmd, C)
  BY <1>1, <1>2, <1>3, <1>8, FirstJoin
<1>9. \A i \in Ifaces : Contains(s, RuleDelete(i)) /\ Contains(s, RouteFlush(i))
  BY <1>3, <1>6 DEF Sweeps
<1>10. Contains(s, Flush(NAT)) /\ Contains(s, Flush(HOOK))
  BY <1>2, <1>6 DEF Clears
<1>11. ASSUME NEW x \in Owned(c)
       PROVE  Contains(s, Delete(x)) /\ First(s, Flush(x), Keeps(x))
  <2>1. CASE x = PRE \/ (x = OUT /\ c.local) \/ x \in Caps(c)
    BY <2>1, <1>2, <1>6, <1>7 DEF Clears
  <2>2. ASSUME NEW i \in Ifaces, x = ISP(i) \/ (x = INBOUND(i) /\ c.sticky)
        PROVE  Contains(s, Delete(x)) /\ First(s, Flush(x), Keeps(x))
    <3>1. Contains(z, Delete(x)) /\ First(z, Flush(x), Keeps(x))
      BY <2>2, <1>3 DEF Sweeps
    <3>2. u \in Seq(Keeps(x))
      BY <2>2, <1>4
    <3> QED BY <3>1, <3>2, <1>6, <1>8
  <2> QED BY <2>1, <2>2, OwnedKinds
<1>12. ASSUME NEW x \in Owned(c), NEW b \in Owned(c), Leads(b, x)
       PROVE  First(s, Flush(b), Keeps(x))
  <2>1. CASE x \in Caps(c) /\ (b = PRE \/ (b = OUT /\ c.local))
    <3>1. First(u, Flush(b), Keeps(x))
      BY <2>1, <1>2 DEF Clears
    <3> QED BY <3>1, <1>7
  <2>2. ASSUME NEW i \in Ifaces, x = ISP(i),
               b = PRE \/ (b = OUT /\ c.local) \/ b \in Caps(c)
        PROVE  First(s, Flush(b), Keeps(x))
    <3>1. First(u, Flush(b), Keeps(b))
      BY <2>2, <1>2 DEF Clears
    <3>2. Contains(u, Flush(b))
      BY <3>1, <1>2, FirstContains
    <3>3. u \in Seq(Keeps(x))
      BY <2>2, <1>4
    <3>4. First(u, Flush(b), Keeps(x))
      BY <3>2, <3>3, <1>2, FirstContains
    <3> QED BY <3>4, <1>7
  <2> QED BY <2>1, <2>2, <1>12, LeadsOwned
<1>13. ASSUME NEW x \in Owned(c), NEW b \in {PREROUTING, OUTPUT}, Leads(b, x)
       PROVE  First(s, RemoveRule(b, x), Keeps(x))
  <2>1. CASE (b = PREROUTING /\ x = PRE) \/ (b = OUTPUT /\ x = OUT /\ c.local)
    <3>1. First(u, RemoveRule(b, x), Keeps(x))
      BY <2>1, <1>2 DEF Clears
    <3> QED BY <3>1, <1>7
  <2>2. ASSUME NEW i \in Ifaces, x = INBOUND(i), c.sticky, b = PREROUTING
        PROVE  First(s, RemoveRule(b, x), Keeps(x))
    <3>1. First(z, RemoveRule(b, x), Keeps(x))
      BY <2>2, <1>3 DEF Sweeps
    <3>2. u \in Seq(Keeps(x))
      BY <2>2, <1>4
    <3> QED BY <3>1, <3>2, <1>8
  <2> QED BY <2>1, <2>2, <1>13, LeadsOwned
<1> QED BY <1>5, <1>9, <1>10, <1>11, <1>12, <1>13 DEF s

-----------------------------------------------------------------------------
(* What fills no chain.                                                    *)
LEMMA VacantStep ==
    ASSUME NEW k \in Kernels, NEW cmd \in Commands, NEW b,
           Vacant(k, b), \A t : ~Adds(cmd, b, t)
    PROVE  Vacant(Executed(k, cmd), b)
BY JumpsAfter DEF Vacant

LEMMA IdleAdds == ASSUME NEW cmd, Idle(cmd) PROVE \A b, t : ~Adds(cmd, b, t)
BY DEF Idle, Adds

LEMMA FlushVacant ==
    ASSUME NEW k \in Kernels, NEW b \in Names
    PROVE  Vacant(Executed(k, Flush(b)), b)
<1>1. Flush(b) \in Commands
  BY ChainNames DEF Commands, Flush, Command, Ops
<1>2. Flush(b).op = "flush" /\ Flush(b).about = b
  BY CommandParts
<1> QED BY <1>1, <1>2, JumpsAfter DEF Vacant

(* A chain no rule of which jumps anywhere is empty.                       *)
LEMMA VacantEmpty ==
    ASSUME NEW k \in Kernels, NEW b \in DOMAIN k.chains, Vacant(k, b)
    PROVE  k.chains[b] = <<>>
<1>1. k.chains[b] \in Seq(Names)
  BY KernelParts
<1>2. ASSUME k.chains[b] # <<>> PROVE FALSE
  <2> DEFINE rs == k.chains[b]
  <2>1. 1 \in 1..Len(rs)
    BY <1>1, <1>2
  <2>2. Contains(rs, rs[1])
    BY <2>1 DEF Contains
  <2> QED BY <2>2 DEF Vacant, Jumps, Exists
<1> QED BY <1>2

(* Deletion succeeds once the chain is empty and nothing jumps to it.      *)
LEMMA DeleteGone ==
    ASSUME NEW k \in Kernels, NEW x \in Names, Vacant(k, x), \A b : ~Jumps(k, b, x)
    PROVE  x \notin DOMAIN Executed(k, Delete(x)).chains
<1>1. /\ Delete(x).op = "delete" /\ Delete(x).about = x
  BY CommandParts
<1>2. CASE x \in DOMAIN k.chains
  <2>1. k.chains[x] = <<>>
    BY <1>2, VacantEmpty
  <2>2. ~Referenced(k, x) /\ Exists(k, x)
    BY <1>2 DEF Referenced, Exists
  <2> DEFINE D == DOMAIN k.chains \ {x}
             f == [b \in D |-> k.chains[b]]
             cmd == Delete(x)
  <2>3. Executed(k, cmd) = WithChains(k, f)
    <3> HIDE DEF cmd, f
    <3>1. cmd.op = "delete" /\ cmd.about = x
      BY <1>1 DEF cmd
    <3>2. f = [b \in DOMAIN k.chains \ {x} |-> k.chains[b]]
      BY DEF f
    <3> QED BY <3>1, <3>2, <2>1, <2>2 DEF Executed
  <2>4. WithChains(k, f).chains = f
    <3> HIDE DEF f
    <3>1. k = [chains |-> k.chains, rules |-> k.rules, routes |-> k.routes]
      BY KernelParts
    <3> QED BY <3>1 DEF WithChains
  <2>5. DOMAIN f = D
    OBVIOUS
  <2> QED BY <2>3, <2>4, <2>5
<1>3. CASE x \notin DOMAIN k.chains
  <2>1. Delete(x) \in Commands
    BY ChainNames DEF Commands, Delete, Command, Ops
  <2> QED BY <2>1, <1>1, <1>3, ChainsMade
<1> QED BY <1>2, <1>3

(* What may jump to a chain of an instance is a base chain or another of   *)
(* its chains.                                                             *)
LEMMA Referrer ==
    ASSUME NEW k, NEW c \in Configs, NEW L, Ways(k), Named(k, c, L),
           NEW x \in Owned(c), Cleanable(c, L, x), NEW b, Jumps(k, b, x)
    PROVE  Leads(b, x) /\ (b \in Owned(c) \/ b \in Bases)
<1>0. Leads(b, x)
  BY DEF Ways
<1>1. /\ PREROUTING[1] = "PREROUTING" /\ OUTPUT[1] = "OUTPUT" /\ HOOK[1] = "VYOS_PRE_SNAT_HOOK"
      /\ NAT[1] = "WANLOADBALANCE"
      /\ PRE[1] = "WANLOADBALANCE_PRE" /\ OUT[1] = "WANLOADBALANCE_OUT"
      /\ \A i : /\ ISP(i)[1] = "ISP" /\ INBOUND(i)[1] = "ISP_IN"
                /\ PreLimit(i)[1] = "WANLOADBALANCE_PRE_LIMIT"
                /\ OutLimit(i)[1] = "WANLOADBALANCE_OUT_LIMIT"
  BY DEF PREROUTING, OUTPUT, HOOK, NAT, PRE, OUT, ISP, INBOUND, PreLimit, OutLimit
<1>2. b \in Fixed \cup Owned(c) \cup OwnedBy(L)
  BY DEF Jumps, Exists, Named
<1>3. PRE \in Owned(c) /\ (c.local => OUT \in Owned(c))
  BY DEF Owned
<1>4. CASE x = PRE \/ x = OUT \/ \E i \in Ifaces : x = INBOUND(i)
  <2>1. b \in Bases
    BY <1>0, <1>1, <1>4 DEF Leads, Bases
  <2> QED BY <1>0, <2>1
<1>5. CASE x \in Caps(c)
  <2>1. b = PRE \/ (b = OUT /\ c.local)
    BY <1>0, <1>1, <1>5 DEF Leads, Caps
  <2> QED BY <1>0, <2>1, <1>3
<1>6. ASSUME NEW i \in Ifaces, x = ISP(i)
      PROVE  b \in Owned(c)
  <2>1. b[1] \in {"WANLOADBALANCE_PRE", "WANLOADBALANCE_OUT",
                  "WANLOADBALANCE_PRE_LIMIT", "WANLOADBALANCE_OUT_LIMIT"}
    BY <1>0, <1>1, <1>6 DEF Leads
  <2>2. b \notin Fixed
    BY <2>1, <1>1 DEF Fixed
  <2>3. Mates(c, L)
    BY <1>1, <1>6 DEF Cleanable
  <2>4. ASSUME NEW d \in L, b \in Owned(d) PROVE b \in Owned(c)
    <3>1. (d.local => c.local) /\ Limits(d) \subseteq Limits(c)
      BY <2>3 DEF Mates
    <3>2. \A j : b # ISP(j) /\ b # INBOUND(j)
      BY <2>1, <1>1
    <3>3. \/ b = PRE \/ (b = OUT /\ d.local) \/ (\E r \in Limits(d) : b = PreLimit(r))
          \/ d.local /\ \E r \in Limits(d) : b = OutLimit(r)
      BY <3>2, <2>4 DEF Owned
    <3> QED BY <3>1, <3>3 DEF Owned
  <2> QED BY <1>2, <2>2, <2>4 DEF OwnedBy
<1> QED BY <1>0, <1>4, <1>5, <1>6, OwnedKinds

-----------------------------------------------------------------------------
(* One command of shutdown keeps them.                                     *)
LEMMA EndParts ==
    ASSUME NEW cmd \in EndSet
    PROVE  /\ cmd \in Commands /\ (\A b, t : ~Adds(cmd, b, t))
           /\ cmd.op \notin {"new", "route replace", "rule add"}
<1>1. cmd \in Commands /\ \A b, t : ~Adds(cmd, b, t)
  BY EndQuiet, QuietCommands, EndIdle, IdleAdds
<1> DEFINE Good(x) == x.op \notin {"new", "route replace", "rule add"}
<1>2. \A b, t : Good(Flush(b)) /\ Good(Delete(b)) /\ Good(RemoveRule(b, t))
  BY CommandParts
<1>3. \A i : Good(RuleDelete(i)) /\ Good(RouteFlush(i))
  BY PolicyParts
<1> HIDE DEF Good
<1>4. \A x \in UnhookSet : Good(x)
  BY <1>2 DEF UnhookSet
<1>5. \A i \in Ifaces : \A x \in CleanCmds(i) : Good(x)
  BY <1>2, <1>3 DEF CleanCmds
<1>6. Good(cmd)
  BY <1>4, <1>5 DEF EndSet
<1> QED BY <1>1, <1>6 DEF Good

(* What is to be emptied, or unhooked, before a deletion is so still.      *)
LEMMA DrainedStep ==
    ASSUME NEW k \in Kernels, NEW s \in Seq(EndSet), s # <<>>, NEW b \in Names, NEW x,
           Drained(k, s, b, x)
    PROVE  Drained(Executed(k, s[1]), Tail(s), b, x)
<1>0. s[1] \in EndSet
  BY Tailed
<1>1. CASE Vacant(k, b)
  BY <1>0, <1>1, EndParts, VacantStep DEF Drained
<1>2. CASE First(s, Flush(b), Keeps(x))
  <2>1. s[1] = Flush(b) \/ First(Tail(s), Flush(b), Keeps(x))
    BY <1>2, FirstTail
  <2> QED BY <2>1, FlushVacant DEF Drained
<1> QED BY <1>1, <1>2 DEF Drained

LEMMA LoosedStep ==
    ASSUME NEW k \in Kernels, NEW s \in Seq(EndSet), s # <<>>, NEW b \in Names,
           NEW x \in Names, Loosed(k, s, b, x),
           b \in DOMAIN k.chains, Count(k.chains[b], x) <= 1
    PROVE  Loosed(Executed(k, s[1]), Tail(s), b, x)
<1>0. s[1] \in EndSet
  BY Tailed
<1>1. CASE ~Jumps(k, b, x)
  BY <1>0, <1>1, EndParts, JumpsAfter DEF Loosed
<1>2. CASE First(s, RemoveRule(b, x), Keeps(x))
  <2>1. s[1] = RemoveRule(b, x) \/ First(Tail(s), RemoveRule(b, x), Keeps(x))
    BY <1>2, FirstTail
  <2>2. ~Jumps(Executed(k, RemoveRule(b, x)), b, x)
    <3> DEFINE h == <<b, x>>
    <3>1. h \in Names \X Names /\ h[1] = b /\ h[2] = x
      OBVIOUS
    <3> HIDE DEF h
    <3>2. ~Jumps(Executed(k, RemoveRule(h[1], h[2])), h[1], h[2])
      BY <3>1, RemovedUnhooks
    <3> QED BY <3>1, <3>2
  <2> QED BY <2>1, <2>2 DEF Loosed
<1> QED BY <1>1, <1>2 DEF Loosed

(* When the deletion of a chain comes, it is empty and nothing jumps to it.*)
LEMMA GoneStep ==
    ASSUME NEW k \in Kernels, NEW s \in Seq(EndSet), s # <<>>, NEW c \in Configs, NEW L,
           Ways(k), Named(k, c, L), Sweeping(k, s, c, L),
           NEW x \in Owned(c), Cleanable(c, L, x)
    PROVE  Gone(Executed(k, s[1]), Tail(s), x)
<1>0. s[1] \in EndSet /\ x \in Names
  BY Tailed, OwnedNames
<1>1. CASE x \notin DOMAIN k.chains
  <2>1. x \notin DOMAIN Executed(k, s[1]).chains
    BY <1>0, <1>1, EndParts, ChainsMade
  <2> QED BY <2>1 DEF Gone
<1>2. CASE Contains(s, Delete(x))
  <2>1. s[1] = Delete(x) \/ Contains(Tail(s), Delete(x))
    BY <1>2, ContainsTail
  <2>2. CASE s[1] = Delete(x)
    <3>1. \A cmd : First(s, cmd, Keeps(x)) => s[1] = cmd
      BY <2>2, FirstTail DEF Keeps
    <3>2. \A b : Flush(b) # Delete(x) /\ \A t : RemoveRule(b, t) # Delete(x)
      BY CommandParts
    <3>3. \A b \in Owned(c) : b = x \/ Leads(b, x) => Vacant(k, b)
      BY <3>1, <3>2, <2>2 DEF Sweeping, Drained
    <3>4. \A b \in Bases : Leads(b, x) => ~Jumps(k, b, x)
      BY <3>1, <3>2, <2>2 DEF Sweeping, Loosed, Hung, Cleanable
    <3>5. ASSUME NEW b, Jumps(k, b, x) PROVE FALSE
      <4>1. Leads(b, x) /\ (b \in Owned(c) \/ b \in Bases)
        BY <3>5, Referrer
      <4> QED BY <4>1, <3>3, <3>4, <3>5 DEF Vacant
    <3>6. x \notin DOMAIN Executed(k, Delete(x)).chains
      BY <3>3, <3>5, <1>0, DeleteGone
    <3> QED BY <3>6, <2>2 DEF Gone
  <2> QED BY <2>1, <2>2 DEF Gone
<1> QED BY <1>1, <1>2 DEF Sweeping, Gone

(* All of it is kept, and holds when shutdown begins, of any kernel.       *)
LEMMA SweepingStep ==
    ASSUME NEW k \in Kernels, NEW s \in Seq(EndSet), s # <<>>, NEW c \in Configs, NEW L,
           Ways(k), Named(k, c, L), Few(k, c, L), Sweeping(k, s, c, L)
    PROVE  Sweeping(Executed(k, s[1]), Tail(s), c, L)
<1> DEFINE e == Executed(k, s[1])
           z == Tail(s)
<1>0. s[1] \in EndSet /\ Owned(c) \subseteq Names /\ Bases \subseteq Names /\ NAT \in Names
  BY Tailed, OwnedNames, ChainNames DEF Bases
<1>1. \A x \in Owned(c) : Cleanable(c, L, x) => Gone(e, z, x)
  BY GoneStep
<1>2. \A x \in Owned(c), b \in Owned(c) : b = x \/ Leads(b, x) => Drained(e, z, b, x)
  BY <1>0, DrainedStep DEF Sweeping
<1>3. ASSUME NEW x \in Owned(c), NEW b \in Bases, Hung(c, L, b, x) PROVE Loosed(e, z, b, x)
  <2>1. Loosed(k, s, b, x) /\ b \in DOMAIN k.chains /\ Count(k.chains[b], x) <= 1
    BY <1>3 DEF Sweeping, Few
  <2> QED BY <2>1, <1>0, LoosedStep
<1>4. ASSUME NEW i \in Ifaces, i \in e.routes PROVE Contains(z, RouteFlush(i))
  <2>1. /\ s[1] \in Commands /\ s[1].op # "route replace"
        /\ e.routes = CASE s[1].op = "route replace" -> k.routes \cup {s[1].about[2]}
                        [] s[1].op = "route flush"   -> k.routes \ {s[1].about[2]}
                        [] OTHER -> k.routes
    BY <1>0, EndParts, RoutesAfter
  <2>2. RouteFlush(i).op = "route flush" /\ RouteFlush(i).about[2] = i
    BY DEF RouteFlush, Command
  <2> HIDE DEF e
  <2>3. i \in k.routes /\ s[1] # RouteFlush(i)
    BY <2>1, <2>2, <1>4
  <2>4. Contains(s, RouteFlush(i))
    BY <2>3 DEF Sweeping
  <2> QED BY <2>3, <2>4, ContainsTail
<1>5. Vacant(e, NAT) \/ Contains(z, Flush(NAT))
  <2>1. CASE Vacant(k, NAT)
    BY <2>1, <1>0, EndParts, VacantStep
  <2>2. CASE Contains(s, Flush(NAT))
    <3>1. s[1] = Flush(NAT) \/ Contains(z, Flush(NAT))
      BY <2>2, ContainsTail
    <3> QED BY <3>1, <1>0, FlushVacant
  <2> QED BY <2>1, <2>2 DEF Sweeping
<1> HIDE DEF e, z
<1> QED BY <1>1, <1>2, <1>3, <1>4, <1>5 DEF Sweeping, e, z

LEMMA SweepingStart ==
    ASSUME NEW k, NEW c \in Configs, NEW L
    PROVE  Sweeping(k, ShutdownCmds(c), c, L)
BY SweepOrder DEF Sweeping, Gone, Drained, Loosed, Hung, Bases

LEMMA SweepingEnd ==
    ASSUME NEW k, NEW s, Len(s) = 0, NEW c, NEW L, Sweeping(k, s, c, L)
    PROVE  Swept(k, c, L)
<1>1. \A cmd : ~Contains(s, cmd)
  BY DEF Contains
<1> QED BY <1>1 DEF Sweeping, Swept, Gone

-----------------------------------------------------------------------------
(* Run and shutdown have no others.                                        *)
LEMMA ListsSlack == RunSet \cup EndSet \subseteq Slack
<1>1. \A cmd \in RunSet \cup EndSet : cmd \in Commands /\ Harmless(cmd)
  BY RunQuiet, EndQuiet, QuietCommands, ListsHarmless
<1>2. \A cmd \in EndSet : cmd \in Slack
  BY <1>1, EndParts DEF Slack, Harmless
<1> DEFINE Good(cmd) == cmd.op # "rule add" /\ \A b \in Base : \A t : ~Adds(cmd, b, t)
<1>3. \A c : Good(New(c)) /\ Good(Flush(c))
  BY CommandParts DEF Adds
<1>4. ASSUME NEW c, NEW t, c \notin Base PROVE Good(Add(c, t))
  <2>1. Add(c, t).op = "add" /\ Add(c, t).about = c
    BY CommandParts
  <2> QED BY <1>4, <2>1 DEF Adds
<1>5. \A i : Good(RouteReplace(i))
  BY PolicyParts DEF Adds
<1> HIDE DEF Good
<1>6. NAT \notin Base /\ Balanced \cap Base = {}
  BY DEF PRE, OUT, NAT, Base, PREROUTING, OUTPUT, HOOK, LimitChains, PreLimit,
         OutLimit, Balanced
<1>7. \A cmd \in RunSet : Good(cmd)
  BY <1>3, <1>4, <1>5, <1>6 DEF RunSet, PathSet
<1>8. \A cmd \in RunSet : cmd \in Slack
  BY <1>1, <1>7 DEF Good, Slack, Harmless
<1> QED BY <1>2, <1>8

LEMMA SlackRules ==
    ASSUME NEW k \in Kernels, NEW cmd \in Slack, NEW i, i \in Executed(k, cmd).rules
    PROVE  i \in k.rules /\ cmd # RuleDelete(i)
<1>1. Executed(k, cmd).rules = NewPolicy(k.rules, cmd) /\ cmd.op # "rule add"
  BY ExecutedEffect DEF Effect, Slack
<1>2. RuleDelete(i).op = "rule delete" /\ RuleDelete(i).about[2] = i
  BY DEF RuleDelete, Command
<1> DEFINE e == Executed(k, cmd)
<1>3. i \in e.rules
  OBVIOUS
<1> HIDE DEF e
<1>4. e.rules = NewPolicy(k.rules, cmd)
  BY <1>1 DEF e
<1> QED BY <1>1, <1>2, <1>3, <1>4 DEF NewPolicy

(* One command, of shutdown or late.                                       *)
LEMMA EbbedStep ==
    ASSUME NEW k \in Kernels, NEW cmd \in Slack, Ebbed(k)
    PROVE  Ebbed(Executed(k, cmd))
<1>1. cmd \in Commands /\ \A t : ~Adds(cmd, HOOK, t)
  BY DEF Slack, Base
<1>2. Vacant(Executed(k, cmd), HOOK)
  BY <1>1, VacantStep DEF Ebbed
<1> QED BY <1>2, SlackRules DEF Ebbed

LEMMA EbbingLate ==
    ASSUME NEW k \in Kernels, NEW s, NEW cmd \in Slack, Ebbing(k, s)
    PROVE  Ebbing(Executed(k, cmd), s)
<1>1. cmd \in Commands /\ \A t : ~Adds(cmd, HOOK, t)
  BY DEF Slack, Base
<1>2. Vacant(k, HOOK) => Vacant(Executed(k, cmd), HOOK)
  BY <1>1, VacantStep
<1> QED BY <1>2, SlackRules DEF Ebbing

LEMMA EbbingStep ==
    ASSUME NEW k \in Kernels, NEW s \in Seq(EndSet), s # <<>>, Ebbing(k, s)
    PROVE  Ebbing(Executed(k, s[1]), Tail(s))
<1> DEFINE cmd == s[1]
<1>0. cmd \in EndSet /\ HOOK \in Names
  BY Tailed, ChainNames
<1> HIDE DEF cmd
<1>1. cmd \in Slack
  BY <1>0, ListsSlack
<1>2. Ebbing(Executed(k, cmd), s)
  BY <1>1, EbbingLate
<1>3. ASSUME NEW i \in Ifaces, i \in Executed(k, cmd).rules
      PROVE  Contains(Tail(s), RuleDelete(i))
  <2>1. i \in k.rules /\ cmd # RuleDelete(i)
    BY <1>1, <1>3, SlackRules
  <2>2. Contains(s, RuleDelete(i))
    BY <2>1 DEF Ebbing
  <2> QED BY <2>1, <2>2, ContainsTail DEF cmd
<1>4. Vacant(Executed(k, cmd), HOOK) \/ Contains(Tail(s), Flush(HOOK))
  <2>1. CASE Contains(s, Flush(HOOK))
    <3>1. cmd = Flush(HOOK) \/ Contains(Tail(s), Flush(HOOK))
      BY <2>1, ContainsTail DEF cmd
    <3> QED BY <3>1, <1>0, FlushVacant
  <2> QED BY <1>2, <2>1 DEF Ebbing
<1>5. Ebbing(Executed(k, cmd), Tail(s))
  BY <1>3, <1>4 DEF Ebbing
<1> QED BY <1>5 DEF cmd

(* When shutdown begins and when it is through.                            *)
LEMMA EbbingStart ==
    ASSUME NEW k, NEW c \in Configs PROVE Ebbing(k, ShutdownCmds(c))
BY SweepOrder DEF Ebbing

LEMMA EbbingEnd ==
    ASSUME NEW k, NEW s, Len(s) = 0, Ebbing(k, s) PROVE Ebbed(k)
<1>1. \A cmd : ~Contains(s, cmd)
  BY DEF Contains
<1> QED BY <1>1 DEF Ebbing, Ebbed

-----------------------------------------------------------------------------
(* The rest of such a list, and lists put together.                        *)
LEMMA SoleTail ==
    ASSUME NEW S, NEW s \in Seq(S), s # <<>>, NEW h, Sole(s, h)
    PROVE  /\ Sole(Tail(s), h)
           /\ Adds(s[1], h[1], h[2]) =>
                 \A n \in 1..Len(Tail(s)) : ~Adds(Tail(s)[n], h[1], h[2])
<1> DEFINE t == Tail(s)
           A(n) == Adds(s[n], h[1], h[2])
<1>1. /\ Len(t) = Len(s) - 1 /\ Len(s) \in Nat \ {0}
      /\ \A n \in 1..(Len(s) - 1) : t[n] = s[n + 1]
  BY Tailed
<1>2. \A m, n \in 1..Len(s) : A(m) /\ A(n) => m = n
  BY DEF Sole
<1> HIDE DEF t
<1>3. \A n \in 1..Len(t) : Adds(t[n], h[1], h[2]) <=> A(n + 1)
  BY <1>1
<1> HIDE DEF A
<1>4. 1 \in 1..Len(s) /\ \A n \in 1..Len(t) : n + 1 \in 1..Len(s) /\ n + 1 # 1
  BY <1>1
<1>5. \A m, n \in 1..Len(t) : m + 1 = n + 1 => m = n
  BY <1>1
<1>6. Sole(t, h)
  BY <1>2, <1>3, <1>4, <1>5 DEF Sole
<1>7. A(1) => \A n \in 1..Len(t) : ~Adds(t[n], h[1], h[2])
  BY <1>2, <1>3, <1>4
<1> QED BY <1>6, <1>7 DEF t, A

LEMMA SoleJoin ==
    ASSUME NEW h, NEW a \in Seq(Never(h)), NEW b \in Seq(Commands), Sole(b, h)
    PROVE  Sole(a \o b, h) /\ Sole(b \o a, h)
<1>0. a \in Seq(Commands)
  BY SeqMonotone DEF Never
<1>1. \A n \in 1..Len(a) : ~Adds(a[n], h[1], h[2])
  <2>1. \A n \in 1..Len(a) : a[n] \in Never(h)
    OBVIOUS
  <2> QED BY <2>1 DEF Never
<1>2. Sole(a \o b, h)
  <2> DEFINE u == a \o b
  <2>1. /\ Len(u) = Len(a) + Len(b) /\ Len(a) \in Nat /\ Len(b) \in Nat
        /\ \A n \in 1..Len(a) : u[n] = a[n]
        /\ \A n \in (Len(a) + 1)..Len(u) :
              n - Len(a) \in 1..Len(b) /\ u[n] = b[n - Len(a)]
    BY <1>0, Joined
  <2> HIDE DEF u
  <2>2. ASSUME NEW n \in 1..Len(u), Adds(u[n], h[1], h[2])
        PROVE  n - Len(a) \in 1..Len(b) /\ Adds(b[n - Len(a)], h[1], h[2])
    <3>1. n \notin 1..Len(a)
      BY <1>1, <2>1, <2>2
    <3>2. n \in (Len(a) + 1)..Len(u)
      BY <3>1, <2>1
    <3> QED BY <3>2, <2>1, <2>2
  <2>3. ASSUME NEW m \in 1..Len(u), NEW n \in 1..Len(u),
               Adds(u[m], h[1], h[2]), Adds(u[n], h[1], h[2])
        PROVE  m = n
    <3>1. m - Len(a) = n - Len(a)
      BY <2>2, <2>3 DEF Sole
    <3> QED BY <3>1, <2>1
  <2>4. Sole(u, h)
    BY <2>3 DEF Sole
  <2> QED BY <2>4 DEF u
<1>3. Sole(b \o a, h)
  <2> DEFINE u == b \o a
  <2>1. /\ Len(u) = Len(b) + Len(a) /\ Len(a) \in Nat /\ Len(b) \in Nat
        /\ \A n \in 1..Len(b) : u[n] = b[n]
        /\ \A n \in (Len(b) + 1)..Len(u) :
              n - Len(b) \in 1..Len(a) /\ u[n] = a[n - Len(b)]
    BY <1>0, Joined
  <2> HIDE DEF u
  <2>2. ASSUME NEW n \in 1..Len(u), Adds(u[n], h[1], h[2])
        PROVE  n \in 1..Len(b) /\ Adds(b[n], h[1], h[2])
    <3>1. n \notin (Len(b) + 1)..Len(u)
      BY <1>1, <2>1, <2>2
    <3>2. n \in 1..Len(b)
      BY <3>1, <2>1
    <3> QED BY <3>2, <2>1, <2>2
  <2>3. Sole(u, h)
    BY <2>2 DEF Sole
  <2> QED BY <2>3 DEF u
<1> QED BY <1>2, <1>3

LEMMA NeverSole ==
    ASSUME NEW h, NEW a \in Seq(Never(h))
    PROVE  a \in Seq(Commands) /\ Sole(a, h)
<1>1. a \in Seq(Commands)
  BY SeqMonotone DEF Never
<1>2. \A n \in 1..Len(a) : a[n] \in Never(h)
  OBVIOUS
<1> QED BY <1>1, <1>2 DEF Never, Sole

(* Flattened, lists of which one hooks the chain once, and no other.       *)
LEMMA FlattenSole ==
    ASSUME NEW h, NEW n \in Nat \ {0}, NEW f \in [1..n -> Seq(Commands)],
           NEW j \in 1..n, Sole(f[j], h),
           \A i \in 1..n : i # j => f[i] \in Seq(Never(h))
    PROVE  FlattenSeq(f) \in Seq(Commands) /\ Sole(FlattenSeq(f), h)
<1>0. \A a, b \in Seq(Commands) : a \o b \in Seq(Commands)
  OBVIOUS
<1>1. PICK g : /\ g[1] = f[1] /\ FlattenSeq(f) = g[n]
               /\ \A m \in 2..n : g[m] = g[m - 1] \o f[m]
  BY <1>0, FlattenSteps
<1> DEFINE P == Seq(Never(h))
           Q == {s \in Seq(Commands) : Sole(s, h)}
           S == {m \in Nat : m < n => /\ j > m + 1 => g[m + 1] \in P
                                      /\ j <= m + 1 => g[m + 1] \in Q}
<1>2. /\ \A a \in P, b \in Q : a \o b \in Q /\ b \o a \in Q
      /\ \A a, b \in P : a \o b \in P
  <2>1. ASSUME NEW a \in P, NEW b \in Q PROVE a \o b \in Q /\ b \o a \in Q
    <3>1. a \in Seq(Commands) /\ b \in Seq(Commands)
      BY NeverSole
    <3>2. a \o b \in Seq(Commands) /\ b \o a \in Seq(Commands)
      BY <3>1
    <3>3. Sole(a \o b, h) /\ Sole(b \o a, h)
      BY SoleJoin
    <3> QED BY <3>2, <3>3
  <2>2. \A a, b \in P : a \o b \in P
    OBVIOUS
  <2> QED BY <2>1, <2>2
<1>3. f[j] \in Q /\ \A i \in 1..n : i # j => f[i] \in P
  OBVIOUS
<1> HIDE DEF P, Q
<1>4. 0 \in S
  BY <1>1, <1>3
<1>5. ASSUME NEW m \in Nat, m \in S PROVE m + 1 \in S
  <2> SUFFICES ASSUME m + 1 < n
               PROVE  /\ j > (m + 1) + 1 => g[(m + 1) + 1] \in P
                      /\ j <= (m + 1) + 1 => g[(m + 1) + 1] \in Q
    OBVIOUS
  <2>1. m + 2 \in 2..n /\ (m + 2) - 1 = m + 1 /\ (m + 1) + 1 = m + 2
    OBVIOUS
  <2>2. g[m + 2] = g[(m + 2) - 1] \o f[m + 2]
    BY <1>1, <2>1
  <2>3. g[m + 2] = g[m + 1] \o f[m + 2]
    BY <2>1, <2>2
  <2>4. /\ j > m + 1 => g[m + 1] \in P
        /\ j <= m + 1 => g[m + 1] \in Q
    BY <1>5, <2>1
  <2>5. CASE j > m + 2
    <3>1. g[m + 1] \in P /\ f[m + 2] \in P
      BY <2>1, <2>4, <2>5, <1>3
    <3>2. g[m + 2] \in P
      BY <3>1, <2>3, <1>2
    <3> QED BY <3>2, <2>1, <2>5
  <2>6. CASE j = m + 2
    <3>1. g[m + 1] \in P /\ f[m + 2] \in Q
      BY <2>4, <2>6, <1>3
    <3>2. g[m + 2] \in Q
      BY <3>1, <2>3, <1>2
    <3> QED BY <3>2, <2>1, <2>6
  <2>7. CASE j <= m + 1
    <3>1. g[m + 1] \in Q /\ f[m + 2] \in P
      BY <2>1, <2>4, <2>7, <1>3
    <3>2. g[m + 2] \in Q
      BY <3>1, <2>3, <1>2
    <3> QED BY <3>2, <2>1, <2>7
  <2> QED BY <2>5, <2>6, <2>7
<1>6. Nat \subseteq S
  <2> HIDE DEF S
  <2> QED BY <1>4, <1>5, InductNat
<1>7. n - 1 \in Nat /\ (n - 1) + 1 = n /\ n - 1 < n /\ j <= n
  OBVIOUS
<1>8. g[n] \in Q
  <2>1. n - 1 \in S
    BY <1>6, <1>7
  <2> QED BY <2>1, <1>7
<1> QED BY <1>8, <1>1 DEF Q

-----------------------------------------------------------------------------
(* Its parts are names, and removing it is a command of shutdown.          *)
LEMMA InParts ==
    ASSUME NEW i \in Ifaces
    PROVE  /\ In(i) \in Names \X Names /\ In(i)[1] = PREROUTING /\ In(i)[2] = INBOUND(i)
           /\ PREROUTING \in Base /\ PREROUTING \in Names /\ INBOUND(i) \in Names
           /\ RemoveRule(PREROUTING, INBOUND(i)) = RemoveRule(In(i)[1], In(i)[2])
<1>1. i \in Int
  BY LimitNames
<1> QED BY <1>1, ChainNames DEF In, Base

(* Of init's commands one inserts it.                                      *)
LEMMA InboundAdds ==
    ASSUME NEW cmd \in InitSet, NEW i, Adds(cmd, PREROUTING, INBOUND(i))
    PROVE  i \in Ifaces /\ cmd = Insert(PREROUTING, INBOUND(i))
<1> DEFINE Good(x) == Adds(x, PREROUTING, INBOUND(i)) =>
                          i \in Ifaces /\ x = Insert(PREROUTING, INBOUND(i))
<1>1. \A x : Idle(x) => Good(x)
  BY IdleAdds
<1>2. ASSUME NEW b, NEW t, b # PREROUTING \/ t[1] # "ISP_IN"
      PROVE  Good(Add(b, t)) /\ Good(Insert(b, t))
  <2>1. INBOUND(i)[1] = "ISP_IN"
    BY DEF INBOUND
  <2> QED BY <1>2, <2>1, CommandParts DEF Adds
<1>3. \A j \in Ifaces : Good(Insert(PREROUTING, INBOUND(j)))
  <2>1. \A j : INBOUND(j) = INBOUND(i) => j = i
    BY DEF INBOUND
  <2> QED BY <2>1, CommandParts DEF Adds
<1> HIDE DEF Good
<1>4. /\ HOOK # PREROUTING /\ PRE # PREROUTING /\ OUT # PREROUTING /\ OUTPUT # PREROUTING
      /\ NAT # PREROUTING /\ PRE[1] # "ISP_IN"
      /\ \A j : ISP(j) # PREROUTING /\ INBOUND(j) # PREROUTING
  BY DEF HOOK, PRE, OUT, OUTPUT, NAT, PREROUTING, ISP, INBOUND
<1>5. \A x \in {New(NAT), Flush(NAT), Flush(HOOK), Insert(HOOK, NAT)} : Good(x)
  BY <1>1, <1>2, <1>4, IdleKinds
<1>6. \A x \in HookSet(PREROUTING, PRE) \cup HookSet(OUTPUT, OUT) : Good(x)
  BY <1>1, <1>2, <1>4, IdleKinds DEF HookSet
<1>7. ASSUME NEW j \in Ifaces PROVE \A x \in SetupCmds(j) : Good(x)
  <2>1. /\ Good(Add(ISP(j), CONNMARK(j))) /\ Good(Add(ISP(j), MARK(j)))
        /\ Good(Add(ISP(j), ACCEPT)) /\ Good(Add(INBOUND(j), CONNMARK(j)))
        /\ Good(Add(NAT, SNAT(j))) /\ Good(Insert(PREROUTING, INBOUND(j)))
    BY <1>2, <1>3, <1>4
  <2> QED BY <2>1, <1>1, IdleKinds DEF SetupCmds
<1>8. \A x \in InitSet : Good(x)
  BY <1>5, <1>6, <1>7 DEF InitSet
<1> QED BY <1>8 DEF Good

(* It is inserted among the commands of its interface, and once.           *)
LEMMA SetupNever ==
    ASSUME NEW i \in Ifaces, NEW j \in Ifaces, i # j
    PROVE  SetupCmds(j) \subseteq Never(In(i))
<1> SUFFICES ASSUME NEW cmd \in SetupCmds(j), Adds(cmd, PREROUTING, INBOUND(i)) PROVE FALSE
  BY SetupQuiet, QuietCommands, InParts DEF Never
<1>1. cmd \in InitSet
  BY DEF InitSet
<1>2. cmd = Insert(PREROUTING, INBOUND(i))
  BY <1>1, InboundAdds
<1> DEFINE Good(x) == x # Insert(PREROUTING, INBOUND(i))
<1>3. \A x : Idle(x) => Good(x)
  BY CommandParts DEF Idle
<1>4. \A b, t : Good(Add(b, t)) /\ (t # INBOUND(i) => Good(Insert(b, t)))
  BY CommandParts
<1>5. INBOUND(j) # INBOUND(i)
  BY DEF INBOUND
<1> HIDE DEF Good
<1>6. Good(cmd)
  BY <1>3, <1>4, <1>5, IdleKinds DEF SetupCmds
<1> QED BY <1>2, <1>6 DEF Good

LEMMA SetupSole ==
    ASSUME NEW c \in Configs, NEW i \in Ifaces
    PROVE  InitIface(c, i) \in Seq(Commands) /\ Sole(InitIface(c, i), In(i))
<1> DEFINE S == Never(In(i))
           a == <<New(ISP(i)), Flush(ISP(i)), Add(ISP(i), CONNMARK(i)),
                  Add(ISP(i), MARK(i)), Add(ISP(i), ACCEPT)>>
           b == <<New(INBOUND(i)), Flush(INBOUND(i)),
                  Add(INBOUND(i), CONNMARK(i)), Insert(PREROUTING, INBOUND(i))>>
           d == <<RouteReplace(i), RuleDelete(i), RuleAdd(i)>>
           e == <<Add(NAT, SNAT(i))>>
           bb == If(c.sticky, b)
           ee == If(c.nat, e)
<1>1. \A cmd \in SetupCmds(i) : cmd \in Commands
                                /\ (cmd.op # "insert" => cmd \in S)
  <2>1. \A cmd \in SetupCmds(i) : cmd \in Commands /\ cmd \in InitSet
    BY SetupQuiet, QuietCommands DEF InitSet
  <2>2. Insert(PREROUTING, INBOUND(i)).op = "insert"
    BY CommandParts
  <2> QED BY <2>1, <2>2, InboundAdds, InParts DEF Never
<1>2. {New(ISP(i)), Flush(ISP(i)), Add(ISP(i), CONNMARK(i)), Add(ISP(i), MARK(i)),
       Add(ISP(i), ACCEPT), New(INBOUND(i)), Flush(INBOUND(i)),
       Add(INBOUND(i), CONNMARK(i)), RouteReplace(i), RuleDelete(i), RuleAdd(i),
       Add(NAT, SNAT(i))} \subseteq S
  <2> DEFINE T == SetupCmds(i)
  <2>1. /\ New(ISP(i)) \in T /\ Flush(ISP(i)) \in T /\ Add(ISP(i), CONNMARK(i)) \in T
        /\ Add(ISP(i), MARK(i)) \in T /\ Add(ISP(i), ACCEPT) \in T
        /\ New(INBOUND(i)) \in T /\ Flush(INBOUND(i)) \in T
        /\ Add(INBOUND(i), CONNMARK(i)) \in T /\ RouteReplace(i) \in T
        /\ RuleDelete(i) \in T /\ RuleAdd(i) \in T /\ Add(NAT, SNAT(i)) \in T
    BY DEF SetupCmds
  <2> HIDE DEF T, S
  <2>2. /\ \A x : New(x).op # "insert" /\ Flush(x).op # "insert"
        /\ \A x, t : Add(x, t).op # "insert"
        /\ RouteReplace(i).op # "insert" /\ RuleDelete(i).op # "insert"
        /\ RuleAdd(i).op # "insert"
    BY CommandParts, PolicyParts
  <2> QED BY <2>1, <2>2, <1>1 DEF T
<1>3. Insert(PREROUTING, INBOUND(i)) \in Commands
  BY <1>1 DEF SetupCmds
<1>4. a \in Seq(S) /\ d \in Seq(S) /\ e \in Seq(S)
  <2> HIDE DEF S
  <2> QED BY <1>2
<1>5. b \in Seq(Commands) /\ Sole(b, In(i))
  <2>1. S \subseteq Commands
    BY DEF Never
  <2>2. Len(b) = 4 /\ b[1] \in S /\ b[2] \in S /\ b[3] \in S /\ b[4] \in Commands
    <3> HIDE DEF S
    <3> QED BY <1>2, <1>3
  <2>3. b \in Seq(Commands)
    <3>1. {New(INBOUND(i)), Flush(INBOUND(i)), Add(INBOUND(i), CONNMARK(i)),
           Insert(PREROUTING, INBOUND(i))} \subseteq Commands
      BY <1>2, <1>3, <2>1
    <3> QED BY <3>1
  <2> HIDE DEF b
  <2>4. \A n \in 1..Len(b) : Adds(b[n], In(i)[1], In(i)[2]) => n = 4
    <3>1. \A n \in 1..Len(b) : n = 4 \/ n = 1 \/ n = 2 \/ n = 3
      BY <2>2
    <3> QED BY <3>1, <2>2 DEF Never
  <2>5. Sole(b, In(i))
    BY <2>4 DEF Sole
  <2> QED BY <2>3, <2>5
<1>6. InitIface(c, i) = a \o bb \o d \o ee
  BY DEF InitIface
<1> HIDE DEF a, b, d, e
<1>7. <<>> \in Seq(Commands) /\ Sole(<<>>, In(i)) /\ <<>> \in Seq(S)
  BY DEF Sole
<1>8. bb \in Seq(Commands) /\ Sole(bb, In(i)) /\ ee \in Seq(S)
  BY <1>4, <1>5, <1>7 DEF If
<1> HIDE DEF bb, ee
<1>9. a \in Seq(Commands) /\ d \in Seq(Commands) /\ ee \in Seq(Commands)
  BY <1>4, <1>8, NeverSole
<1> DEFINE u == a \o bb
           v == u \o d
<1>10. u \in Seq(Commands) /\ Sole(u, In(i))
  BY <1>4, <1>8, <1>9, SoleJoin
<1> HIDE DEF u
<1>11. v \in Seq(Commands) /\ Sole(v, In(i))
  BY <1>4, <1>9, <1>10, SoleJoin
<1> HIDE DEF v
<1>12. v \o ee \in Seq(Commands) /\ Sole(v \o ee, In(i))
  BY <1>8, <1>9, <1>11, SoleJoin
<1> QED BY <1>6, <1>12 DEF u, v

LEMMA InitSole ==
    ASSUME NEW c \in Configs, NEW i \in Ifaces
    PROVE  Sole(InitCmds(c), In(i))
<1> DEFINE S == Never(In(i))
           n == <<New(NAT), Flush(NAT), Flush(HOOK), Insert(HOOK, NAT)>>
           p == HookChain(PREROUTING, PRE)
           o == HookChain(OUTPUT, OUT)
           f == [j \in 1..NumIfaces |-> InitIface(c, j)]
           nn == If(c.nat, n)
           oo == If(c.local, o)
           t == FlattenSeq(f)
<1>1. \A b, x \in Names : x[1] # "ISP_IN" =>
          {New(b), Flush(b), RemoveRule(b, x), Add(b, x), Insert(b, x)} \subseteq S
  <2>1. \A b, x \in Names : /\ New(b) \in Commands /\ Flush(b) \in Commands
                            /\ RemoveRule(b, x) \in Commands /\ Add(b, x) \in Commands
                            /\ Insert(b, x) \in Commands
    BY ChainNames DEF Commands, New, Flush, Add, Insert, RemoveRule, Command, Ops
  <2>2. INBOUND(i)[1] = "ISP_IN"
    BY DEF INBOUND
  <2>3. \A b, x : x[1] # "ISP_IN" => /\ ~Adds(New(b), PREROUTING, INBOUND(i))
                  /\ ~Adds(Flush(b), PREROUTING, INBOUND(i))
                  /\ ~Adds(RemoveRule(b, x), PREROUTING, INBOUND(i))
                  /\ ~Adds(Add(b, x), PREROUTING, INBOUND(i))
                  /\ ~Adds(Insert(b, x), PREROUTING, INBOUND(i))
    BY <2>2, CommandParts DEF Adds
  <2> QED BY <2>1, <2>3, InParts DEF Never
<1>2. /\ {NAT, HOOK, PRE, OUT, PREROUTING, OUTPUT, ACCEPT} \subseteq Names
      /\ NAT[1] # "ISP_IN" /\ PRE[1] # "ISP_IN" /\ OUT[1] # "ISP_IN"
      /\ ACCEPT[1] # "ISP_IN"
  BY ChainNames, LeadsKinds
<1>3. n \in Seq(S)
  <2>1. {New(NAT), Flush(NAT), Flush(HOOK), Insert(HOOK, NAT)} \subseteq S
    BY <1>1, <1>2
  <2> HIDE DEF S
  <2> QED BY <2>1
<1>4. p \in Seq(S) /\ o \in Seq(S)
  <2>1. {New(PRE), Flush(PRE), Add(PRE, ACCEPT), RemoveRule(PREROUTING, PRE),
         Insert(PREROUTING, PRE), New(OUT), Flush(OUT), Add(OUT, ACCEPT),
         RemoveRule(OUTPUT, OUT), Insert(OUTPUT, OUT)} \subseteq S
    BY <1>1, <1>2
  <2> HIDE DEF S
  <2> QED BY <2>1 DEF HookChain
<1>5. t \in Seq(Commands) /\ Sole(t, In(i))
  <2>1. f \in [1..NumIfaces -> Seq(Commands)]
    BY SetupSole DEF Ifaces
  <2>2. i \in 1..NumIfaces /\ Sole(f[i], In(i))
    BY SetupSole DEF Ifaces
  <2>3. \A j \in 1..NumIfaces : j # i => f[j] \in Seq(S)
    <3> SUFFICES ASSUME NEW j \in Ifaces, j # i PROVE InitIface(c, j) \in Seq(S)
      BY DEF Ifaces
    <3> QED BY SetupNever, SetupType, SeqMonotone
  <2> HIDE DEF f
  <2> QED BY <2>1, <2>2, <2>3, FlattenSole, NumIfacesAssumption
<1>6. InitCmds(c) = nn \o p \o oo \o t
  BY DEF InitCmds, Each
<1> HIDE DEF n, p, o, f, t, S
<1>7. nn \in Seq(S) /\ oo \in Seq(S)
  BY <1>3, <1>4 DEF If
<1> HIDE DEF nn, oo
<1> DEFINE u == nn \o p
           v == u \o oo
<1>8. v \in Seq(S)
  BY <1>4, <1>7
<1> HIDE DEF v
<1>9. Sole(v \o t, In(i))
  BY <1>5, <1>8, SoleJoin DEF S
<1> QED BY <1>6, <1>9 DEF u, v

(* A command that does not add the jump; those of run and shutdown are     *)
(* such.                                                                   *)
LEMMA SparedStep ==
    ASSUME NEW k, Based(k), NEW h, h[1] \in Base, NEW cmd \in Never(h), Harmless(cmd)
    PROVE  /\ Atmost(k, h) => Atmost(Executed(k, cmd), h)
           /\ Unhooked(k, h) => Unhooked(Executed(k, cmd), h)
<1> DEFINE e == Executed(k, cmd)
<1>1. cmd \in Commands /\ Spares(cmd, h) /\ k \in Kernels /\ h[1] \in DOMAIN k.chains
  BY DEF Never, Adds, Harmless, Spares, Based
<1>2. /\ h[1] \in DOMAIN e.chains /\ e \in Kernels
      /\ Count(e.chains[h[1]], h[2]) <= Count(k.chains[h[1]], h[2])
  BY <1>1, SparedCount, ExecutedEffect
<1> HIDE DEF e
<1>3. Count(e.chains[h[1]], h[2]) \in Nat /\ Count(k.chains[h[1]], h[2]) \in Nat
  <2>1. e.chains[h[1]] \in Seq(Names) /\ k.chains[h[1]] \in Seq(Names)
    BY <1>1, <1>2, KernelParts
  <2> QED BY <2>1, CountType
<1>4. Atmost(k, h) => Atmost(e, h)
  BY <1>2, <1>3 DEF Atmost
<1> QED BY <1>1, <1>4, UnhookedStep DEF e

LEMMA SlackNever ==
    ASSUME NEW cmd \in Slack, NEW h, h[1] \in Base
    PROVE  cmd \in Never(h)
BY DEF Slack, Never

LEMMA ListedStep ==
    ASSUME NEW k, Based(k), NEW h, h[1] \in Base, NEW cmd \in RunSet \cup EndSet
    PROVE  /\ Atmost(k, h) => Atmost(Executed(k, cmd), h)
           /\ Unhooked(k, h) => Unhooked(Executed(k, cmd), h)
<1>1. cmd \in Slack /\ Harmless(cmd)
  BY ListsSlack, ListsHarmless
<1>2. cmd \in Never(h)
  BY <1>1, SlackNever
<1> QED BY <1>1, <1>2, SparedStep

(* Its insertion where it is not, after which it does not come again.      *)
LEMMA HookedOnce ==
    ASSUME NEW k, Based(k), NEW i \in Ifaces, Unhooked(k, In(i))
    PROVE  Atmost(Executed(k, Insert(PREROUTING, INBOUND(i))), In(i))
<1> DEFINE h == In(i)
           e == Executed(k, Insert(h[1], h[2]))
<1>1. /\ h \in Names \X Names /\ h[1] \in DOMAIN k.chains /\ k \in Kernels
      /\ Insert(h[1], h[2]) = Insert(PREROUTING, INBOUND(i))
  BY InParts DEF Based
<1>2. Count(k.chains[h[1]], h[2]) = 0
  <2>1. k.chains[h[1]] \in Seq(Names)
    BY <1>1, KernelParts
  <2>2. ~Contains(k.chains[h[1]], h[2])
    BY <1>1 DEF Unhooked, Jumps, Exists
  <2> QED BY <2>1, <2>2, ContainsCount
<1> HIDE DEF h
<1>3. Count(e.chains[h[1]], h[2]) <= Count(k.chains[h[1]], h[2]) + 1
  BY <1>1, InsertedCount
<1> HIDE DEF e
<1>4. Atmost(e, h)
  <2>1. Count(e.chains[h[1]], h[2]) <= 0 + 1
    BY <1>2, <1>3
  <2>2. 0 + 1 = 1
    OBVIOUS
  <2> QED BY <2>1, <2>2 DEF Atmost
<1> QED BY <1>1, <1>4 DEF e, h

LEMMA NeverTail ==
    ASSUME NEW S, NEW s \in Seq(S), s # <<>>, S \subseteq Commands, NEW h,
           \A n \in 1..Len(Tail(s)) : ~Adds(Tail(s)[n], h[1], h[2])
    PROVE  Tail(s) \in Seq(Never(h))
<1> DEFINE t == Tail(s)
<1>1. t \in Seq(S)
  BY Tailed
<1>2. \A n \in 1..Len(t) : t[n] \in Never(h)
  <2>1. \A n \in 1..Len(t) : t[n] \in S
    BY <1>1
  <2> QED BY <2>1 DEF Never
<1> HIDE DEF t
<1>3. t \in Seq(Never(h))
  BY <1>1, <1>2
<1> QED BY <1>3 DEF t

(* A command of init takes effect.                                         *)
LEMMA ComingStep ==
    ASSUME NEW k, Based(k), NEW s \in Seq(InitSet), s # <<>>, InitSet \subseteq Commands,
           NEW i \in Ifaces, Atmost(k, In(i)), Coming(k, s, In(i))
    PROVE  /\ Atmost(Executed(k, s[1]), In(i))
           /\ Coming(Executed(k, s[1]), Tail(s), In(i))
           /\ Unhooked(k, In(i)) /\ s \in Seq(Never(In(i))) =>
                 Unhooked(Executed(k, s[1]), In(i))
<1> DEFINE h == In(i)
           cmd == s[1]
           t == Tail(s)
<1>0. cmd \in InitSet /\ Harmless(cmd) /\ h[1] \in Base
  BY Tailed, ListsHarmless, InParts
<1>1. Sole(t, h) /\ (Adds(cmd, h[1], h[2]) => t \in Seq(Never(h)))
  BY SoleTail, NeverTail DEF Coming
<1>2. s \in Seq(Never(h)) => cmd \in Never(h) /\ t \in Seq(Never(h))
  BY Tailed
<1>3. ~Adds(cmd, h[1], h[2]) => cmd \in Never(h)
  BY <1>0 DEF Never
<1>4. Adds(cmd, h[1], h[2]) => cmd = Insert(PREROUTING, INBOUND(i)) /\ cmd \notin Never(h)
  BY <1>0, InParts, InboundAdds DEF Never
<1> HIDE DEF h, cmd, t
<1>5. CASE cmd \in Never(h)
  <2>1. /\ Atmost(k, h) => Atmost(Executed(k, cmd), h)
        /\ Unhooked(k, h) => Unhooked(Executed(k, cmd), h)
    BY <1>0, <1>5, SparedStep
  <2>2. Atmost(k, h) /\ (Unhooked(k, h) \/ s \in Seq(Never(h)))
    BY DEF Coming, h
  <2>3. Coming(Executed(k, cmd), t, h)
    BY <2>1, <2>2, <1>1, <1>2 DEF Coming
  <2> QED BY <2>1, <2>2, <2>3 DEF h, cmd, t
<1>6. CASE cmd \notin Never(h)
  <2>1. cmd = Insert(PREROUTING, INBOUND(i)) /\ t \in Seq(Never(h))
    BY <1>1, <1>3, <1>4, <1>6
  <2>2. Unhooked(k, h) /\ s \notin Seq(Never(h))
    BY <1>2, <1>6 DEF Coming, h
  <2>3. Atmost(Executed(k, cmd), h)
    BY <2>1, <2>2, HookedOnce DEF h
  <2>4. Coming(Executed(k, cmd), t, h)
    BY <2>1, <1>1 DEF Coming
  <2> QED BY <2>2, <2>3, <2>4 DEF h, cmd, t
<1> QED BY <1>5, <1>6

(* A command of shutdown takes effect, and shutdown begins.                *)
LEMMA GoingStep ==
    ASSUME NEW k, Based(k), NEW s \in Seq(EndSet), s # <<>>,
           NEW i \in Ifaces, Atmost(k, In(i)), Going(k, s, In(i))
    PROVE  Going(Executed(k, s[1]), Tail(s), In(i))
<1> DEFINE h == In(i)
<1>0. /\ s[1] \in EndSet /\ h \in Names \X Names /\ h[1] \in Base
      /\ k \in Kernels /\ h[1] \in DOMAIN k.chains
  BY Tailed, InParts DEF Based
<1>1. Atmost(k, h) /\ Going(k, s, h)
  OBVIOUS
<1> HIDE DEF h
<1>2. CASE Unhooked(k, h)
  BY <1>0, <1>2, ListedStep DEF Going, h
<1>3. CASE Contains(s, RemoveRule(h[1], h[2]))
  <2>1. s[1] = RemoveRule(h[1], h[2]) \/ Contains(Tail(s), RemoveRule(h[1], h[2]))
    BY <1>3, ContainsTail
  <2>2. Unhooked(Executed(k, RemoveRule(h[1], h[2])), h)
    BY <1>0, <1>1, RemovedUnhooks DEF Unhooked, Atmost
  <2> QED BY <2>1, <2>2 DEF Going, h
<1> QED BY <1>1, <1>2, <1>3 DEF Going

LEMMA GoingStart ==
    ASSUME NEW k, NEW c \in Configs, NEW i \in Ifaces, c.sticky
    PROVE  Going(k, ShutdownCmds(c), In(i))
<1>1. INBOUND(i) \in Owned(c) /\ Leads(PREROUTING, INBOUND(i))
  BY LeadsKinds DEF Owned
<1>2. /\ First(ShutdownCmds(c), RemoveRule(PREROUTING, INBOUND(i)), Keeps(INBOUND(i)))
      /\ ShutdownCmds(c) \in Seq(Commands)
  BY <1>1, SweepOrder
<1>3. Contains(ShutdownCmds(c), RemoveRule(PREROUTING, INBOUND(i)))
  BY <1>2, FirstContains
<1> QED BY <1>3, InParts DEF Going

(* Without sticky connections the chain is never hooked.                   *)
LEMMA ProperNever ==
    ASSUME NEW c, ~c.sticky, NEW i
    PROVE  Proper(c) \subseteq Never(In(i))
<1>1. In(i)[1] = PREROUTING /\ In(i)[2] = INBOUND(i) /\ INBOUND(i)[1] = "ISP_IN"
  BY DEF In, INBOUND
<1> QED BY <1>1 DEF Proper, Never, Adds

(* Init's commands are commands.                                           *)
LEMMA InitCommands == InitSet \subseteq Commands
<1>1. \A j \in Ifaces : SetupCmds(j) \subseteq Commands
  BY SetupQuiet, QuietCommands
<1>2. {NAT, HOOK, PRE, OUT, PREROUTING, OUTPUT, ACCEPT} \subseteq Names
  BY ChainNames
<1>3. \A b, x \in Names : /\ New(b) \in Commands /\ Flush(b) \in Commands
                          /\ RemoveRule(b, x) \in Commands /\ Add(b, x) \in Commands
                          /\ Insert(b, x) \in Commands
  BY ChainNames DEF Commands, New, Flush, Add, Insert, RemoveRule, Command, Ops
<1>4. /\ HookSet(PREROUTING, PRE) \subseteq Commands
      /\ HookSet(OUTPUT, OUT) \subseteq Commands
      /\ {New(NAT), Flush(NAT), Flush(HOOK), Insert(HOOK, NAT)} \subseteq Commands
  BY <1>2, <1>3 DEF HookSet
<1> QED BY <1>1, <1>4 DEF InitSet

-----------------------------------------------------------------------------
LEMMA PiledType ==
    ASSUME NEW k, Based(k), NEW i PROVE Piled(k, i) \in Nat
<1>1. k \in Kernels /\ PREROUTING \in DOMAIN k.chains
  BY DEF Based, Base
<1>2. k.chains[PREROUTING] \in Seq(Names)
  BY <1>1, KernelParts
<1> QED BY <1>2, CountType DEF Piled

LEMMA NumbersPile ==
    ASSUME NEW m \in Nat, NEW n \in Nat
    PROVE  /\ m <= n => m <= n + 1
           /\ \A l \in Nat : l <= m /\ m <= n => l <= n
           /\ \A l \in Nat : l <= m /\ m <= n + 1 => l <= n + 1
           /\ \A l \in Nat : l <= m + 1 /\ m <= n => l <= n + 1
           /\ \A l \in Nat : m # 0 /\ l <= m - 1 /\ m <= n + 1 => l <= n
           /\ 0 <= n /\ n + 1 \in Nat
OBVIOUS

(* A command fails.                                                        *)
LEMMA HeapFails ==
    ASSUME NEW k, Based(k), NEW i, NEW n \in Nat, NEW c, NEW p, NEW s, s # <<>>,
           p \in {"init", "run", "ending"}, Heap(k, s, c, p, i, n),
           p = "init" => s \in Seq(InitSet)
    PROVE  Heap(k, Tail(s), c, p, i, n + 1)
<1> DEFINE h == Piled(k, i)
<1>1. h \in Nat /\ h <= n + 1
  BY PiledType DEF Heap
<1>2. h <= (n + 1) + 1
  <2> HIDE DEF h
  <2> QED BY <1>1, NumbersPile
<1>3. p = "init" => /\ Sole(Tail(s), In(i))
                    /\ s \in Seq(Never(In(i))) => Tail(s) \in Seq(Never(In(i)))
  BY SoleTail, Tailed DEF Heap
<1>4. p = "init" /\ ~c.sticky => s \in Seq(Never(In(i)))
  BY DEF Heap
<1> HIDE DEF h
<1> QED BY <1>1, <1>2, <1>3, <1>4 DEF Heap, h

(* More mishaps allow for more.                                            *)
LEMMA HeapMore ==
    ASSUME NEW k, Based(k), NEW i, NEW n \in Nat, NEW m \in Nat, n <= m,
           NEW c, NEW p, NEW s, Heap(k, s, c, p, i, n)
    PROVE  Heap(k, s, c, p, i, m)
<1> DEFINE h == Piled(k, i)
<1>1. h \in Nat
  BY PiledType
<1> HIDE DEF h
<1>2. (h <= n => h <= m) /\ (h <= n + 1 => h <= m + 1)
  BY <1>1
<1> QED BY <1>2 DEF Heap, h

(* One mishap more allows for the one too many.                            *)
LEMMA HeapEnds ==
    ASSUME NEW k, Based(k), NEW i, NEW n \in Nat, NEW c, NEW p, NEW s,
           Heap(k, s, c, p, i, n)
    PROVE  Heap(k, <<>>, c, "dead", i, n + 1)
<1> DEFINE h == Piled(k, i)
<1>1. h \in Nat /\ h <= n + 1
  BY PiledType DEF Heap
<1> HIDE DEF h
<1>2. h <= (n + 1) + 1
  BY <1>1
<1> QED BY <1>1, <1>2 DEF Heap, h

(* A command takes effect.                                                 *)
LEMMA HeapStep ==
    ASSUME NEW k, Based(k), NEW i \in Ifaces, NEW n \in Nat, NEW c, NEW p,
           NEW s, s # <<>>, p \in {"init", "run", "ending"}, Heap(k, s, c, p, i, n),
           p = "init" => s \in Seq(InitSet),
           p = "run" => s \in Seq(RunSet), p = "ending" => s \in Seq(EndSet)
    PROVE  Heap(Executed(k, s[1]), Tail(s), c, p, i, n)
<1> DEFINE e == Executed(k, s[1])
           cmd == s[1]
           t == Tail(s)
           h == Piled(k, i)
           g == Piled(e, i)
           J == RemoveRule(PREROUTING, INBOUND(i))
<1>1. /\ cmd \in InitSet \cup RunSet \cup EndSet
      /\ p # "init" => cmd \in RunSet \cup EndSet
      /\ p = "init" => cmd \in InitSet
  BY Tailed
<1>2. /\ Harmless(cmd) /\ cmd \in Commands /\ k \in Kernels
      /\ PREROUTING \in DOMAIN k.chains /\ In(i)[1] = PREROUTING
      /\ In(i)[2] = INBOUND(i) /\ In(i)[1] \in Base /\ In(i) \in Names \X Names
  <2>1. cmd \in Commands
    BY <1>1, InitCommands, ListsSlack DEF Slack
  <2> QED BY <1>1, <2>1, ListsHarmless, InParts DEF Based
<1> HIDE DEF cmd
<1>3. Based(Executed(k, cmd))
  BY <1>1, <1>2, BasedStep
<1>4. h \in Nat /\ g \in Nat
  BY <1>3, PiledType DEF cmd
<1>5. cmd \in Never(In(i)) =>
         g <= h /\ (cmd = J /\ h # 0 => g <= h - 1)
  <2> SUFFICES ASSUME cmd \in Never(In(i))
               PROVE  g <= h /\ (cmd = J /\ h # 0 => g <= h - 1)
    OBVIOUS
  <2>1. Spares(cmd, In(i)) /\ In(i)[1] \in DOMAIN k.chains
    BY <1>2 DEF Never, Adds, Harmless, Spares
  <2>2. J.op = "remove" /\ J.about = PREROUTING /\ J.to = INBOUND(i)
    BY CommandParts
  <2> HIDE DEF J
  <2>3. /\ Count(Executed(k, cmd).chains[In(i)[1]], In(i)[2]) <= Count(k.chains[In(i)[1]], In(i)[2])
        /\ cmd.op = "remove" /\ cmd.about = In(i)[1] /\ cmd.to = In(i)[2]
           /\ Count(k.chains[In(i)[1]], In(i)[2]) # 0 =>
             Count(Executed(k, cmd).chains[In(i)[1]], In(i)[2]) <= Count(k.chains[In(i)[1]], In(i)[2]) - 1
    BY <1>2, <2>1, SparedCount
  <2> QED BY <2>2, <2>3, <1>2 DEF Piled, cmd
<1>6. cmd \notin Never(In(i)) => g <= h + 1
  <2> SUFFICES ASSUME cmd \notin Never(In(i)) PROVE g <= h + 1
    OBVIOUS
  <2>1. cmd \in InitSet /\ Adds(cmd, PREROUTING, INBOUND(i))
    <3>1. Adds(cmd, PREROUTING, INBOUND(i))
      BY <1>2 DEF Never
    <3>2. cmd \notin RunSet \cup EndSet
      BY ListsSlack, SlackNever, <1>2
    <3> QED BY <3>1, <3>2, <1>1
  <2>2. cmd = Insert(In(i)[1], In(i)[2])
    BY <2>1, <1>2, InboundAdds
  <2>3. Count(Executed(k, Insert(In(i)[1], In(i)[2])).chains[In(i)[1]], In(i)[2])
           <= Count(k.chains[In(i)[1]], In(i)[2]) + 1
    BY <1>2, InsertedCount
  <2> QED BY <2>2, <2>3, <1>2 DEF Piled, cmd
<1>7. p # "init" => cmd \in Never(In(i))
  BY <1>1, <1>2, ListsSlack, SlackNever
<1>8. p = "init" => /\ Sole(t, In(i)) /\ (s \in Seq(Never(In(i))) => t \in Seq(Never(In(i))))
                    /\ s \in Seq(Never(In(i))) => cmd \in Never(In(i))
                    /\ cmd \notin Never(In(i)) => t \in Seq(Never(In(i)))
  <2> SUFFICES ASSUME p = "init"
               PROVE  /\ Sole(t, In(i)) /\ (s \in Seq(Never(In(i))) => t \in Seq(Never(In(i))))
                      /\ s \in Seq(Never(In(i))) => cmd \in Never(In(i))
                      /\ cmd \notin Never(In(i)) => t \in Seq(Never(In(i)))
    OBVIOUS
  <2>1. s \in Seq(InitSet) /\ Sole(s, In(i))
    BY DEF Heap
  <2>2. /\ Sole(t, In(i))
        /\ Adds(cmd, In(i)[1], In(i)[2]) =>
              \A m \in 1..Len(t) : ~Adds(t[m], In(i)[1], In(i)[2])
    BY <2>1, SoleTail DEF cmd
  <2>3. s \in Seq(Never(In(i))) => cmd \in Never(In(i)) /\ t \in Seq(Never(In(i)))
    BY Tailed DEF cmd
  <2>4. cmd \notin Never(In(i)) => Adds(cmd, In(i)[1], In(i)[2])
    BY <1>2 DEF Never
  <2>5. InitSet \subseteq Commands
    BY InitCommands
  <2>6. Adds(cmd, In(i)[1], In(i)[2]) => t \in Seq(Never(In(i)))
    BY <2>1, <2>2, <2>5, NeverTail
  <2> QED BY <2>2, <2>3, <2>4, <2>6
<1>9. p = "ending" /\ Contains(s, J) => cmd = J \/ Contains(t, J)
  BY ContainsTail DEF cmd
<1>10. /\ h <= n + 1 /\ (~c.sticky => h <= n)
       /\ p = "init" => /\ ~c.sticky => s \in Seq(Never(In(i)))
                        /\ h <= n \/ s \in Seq(Never(In(i)))
       /\ p = "ending" => h <= n \/ Contains(s, J)
  BY DEF Heap
<1> DEFINE N == Never(In(i))
<1>11. Piled(Executed(k, s[1]), i) = g
  OBVIOUS
<1> HIDE DEF h, g, e, t, J, N
<1>12. /\ cmd \in N => /\ g <= n + 1 /\ (h <= n => g <= n)
                       /\ cmd = J => g <= n
       /\ cmd \notin N /\ h <= n => g <= n + 1
  <2>1. cmd \in N => g <= h /\ (cmd = J /\ h # 0 => g <= h - 1)
    BY <1>5 DEF N
  <2>2. cmd \notin N => g <= h + 1
    BY <1>6 DEF N
  <2>3. h = 0 => h <= n
    BY NumbersPile
  <2> QED BY <2>1, <2>2, <2>3, <1>4, <1>10, NumbersPile
<1>13. /\ g <= n + 1 /\ (~c.sticky => g <= n)
       /\ p = "init" => /\ ~c.sticky => t \in Seq(N)
                        /\ g <= n \/ t \in Seq(N)
       /\ p = "ending" => g <= n \/ Contains(t, J)
  BY <1>7, <1>8, <1>9, <1>10, <1>12 DEF N
<1> QED BY <1>8, <1>11, <1>13 DEF Heap, t, J, N

(* No instance yet.                                                        *)
LEMMA InitPile == Init => PileInv
<1> SUFFICES ASSUME Init, NEW i \in Ifaces PROVE Heap(kernel, todo, cfg, proc, i, mishaps)
  BY DEF PileInv
<1>1. kernel.chains[PREROUTING] = <<>> /\ proc = "off" /\ mishaps = 0
  BY DEF Init, Bare
<1>2. Piled(kernel, i) = 0
  BY <1>1, CountEmpty DEF Piled
<1> QED BY <1>1, <1>2 DEF Heap

(* What the daemon does, and what becomes of it.                           *)
LEMMA ExecutePile == MInv /\ FInv /\ PileInv /\ Execute => PileInv'
<1> SUFFICES ASSUME MInv, FInv, PileInv, Execute, NEW i \in Ifaces
             PROVE  Heap(kernel', todo', cfg', proc', i, mishaps')
  BY DEF PileInv
<1>1. /\ todo # <<>> /\ todo' = Tail(todo) /\ UNCHANGED <<proc, cfg>>
      /\ \/ kernel' = Executed(kernel, todo[1]) /\ mishaps' = mishaps
         \/ kernel' = kernel /\ mishaps' = mishaps + 1
  BY DEF Execute, Head, Mishap
<1>2. /\ Based(kernel) /\ mishaps \in Nat /\ proc \in {"init", "run", "ending"}
      /\ proc = "init" => todo \in Seq(InitSet)
      /\ proc = "run" => todo \in Seq(RunSet)
      /\ proc = "ending" => todo \in Seq(EndSet)
      /\ Heap(kernel, todo, cfg, proc, i, mishaps)
  BY <1>1, LifecycleAssumption DEF MInv, IInv, TypeOK, FInv, ListsInv, PileInv
<1>3. CASE kernel' = Executed(kernel, todo[1]) /\ mishaps' = mishaps
  BY <1>1, <1>2, <1>3, HeapStep
<1>4. CASE kernel' = kernel /\ mishaps' = mishaps + 1
  BY <1>1, <1>2, <1>4, HeapFails
<1> QED BY <1>1, <1>3, <1>4

LEMMA SamePile ==
    ASSUME PileInv, UNCHANGED <<kernel, todo, cfg, mishaps>>,
           \/ proc' = proc
           \/ proc' \in {"test", "apply", "run"} /\ proc \notin {"off", "dead", "forked"}
    PROVE  PileInv'
BY DEF PileInv, Heap

LEMMA StillPile ==
    MInv /\ PileInv /\ (\/ Initialised \/ HealthTest \/ StartCycle \/ Recheck
                        \/ UNCHANGED vars) => PileInv'
<1> SUFFICES ASSUME PileInv,
                    \/ Initialised \/ HealthTest \/ StartCycle \/ Recheck
                    \/ UNCHANGED vars
             PROVE  PileInv'
  OBVIOUS
<1>1. UNCHANGED <<kernel, todo, cfg, mishaps>>
  BY DEF Initialised, HealthTest, StartCycle, Recheck, vars, process, history
<1>2. \/ proc' = proc
      \/ proc' \in {"test", "apply", "run"} /\ proc \notin {"off", "dead", "forked"}
  BY DEF Initialised, HealthTest, StartCycle, Recheck, vars
<1> QED BY <1>1, <1>2, SamePile

LEMMA WritePidPile == MInv /\ PileInv /\ WritePid => PileInv'
<1> SUFFICES ASSUME MInv, PileInv, WritePid, NEW i \in Ifaces
             PROVE  Heap(kernel', todo', cfg', proc', i, mishaps')
  BY DEF PileInv
<1>1. /\ proc = "forked" /\ proc' = "init" /\ todo' = InitCmds(cfg)
      /\ UNCHANGED <<kernel, cfg, mishaps>> /\ cfg \in Configs
  BY DEF WritePid, history, MInv, IInv, TypeOK
<1>2. Piled(kernel, i) <= mishaps + 1 /\ Piled(kernel, i) <= mishaps
  BY <1>1 DEF PileInv, Heap
<1>3. Sole(todo', In(i))
  BY <1>1, InitSole
<1>4. ~cfg.sticky => todo' \in Seq(Never(In(i)))
  <2> SUFFICES ASSUME ~cfg.sticky PROVE todo' \in Seq(Never(In(i)))
    OBVIOUS
  <2>1. Proper(cfg) \subseteq Never(In(i)) /\ todo' \in Seq(Proper(cfg))
    BY <1>1, ProperNever, InitProper
  <2> QED BY <2>1, SeqMonotone
<1> QED BY <1>1, <1>2, <1>3, <1>4 DEF Heap

LEMMA ApplyRulesPile == PileInv /\ ApplyRules => PileInv'
<1> SUFFICES ASSUME PileInv, ApplyRules, NEW i \in Ifaces
             PROVE  Heap(kernel', todo', cfg', proc', i, mishaps')
  BY DEF PileInv
<1>1. proc = "apply" /\ proc' = "run" /\ UNCHANGED <<kernel, cfg, mishaps>>
  BY DEF ApplyRules
<1> QED BY <1>1 DEF PileInv, Heap

LEMMA ExitPile == PileInv /\ Exit => PileInv'
<1> SUFFICES ASSUME PileInv, Exit, NEW i \in Ifaces
             PROVE  Heap(kernel', todo', cfg', proc', i, mishaps')
  BY DEF PileInv
<1>1. /\ proc = "ending" /\ Len(todo) = 0 /\ proc' = "off"
      /\ UNCHANGED <<kernel, cfg, mishaps>>
  BY DEF Exit, history
<1>2. Heap(kernel, todo, cfg, proc, i, mishaps)
  BY DEF PileInv
<1>3. ~Contains(todo, RemoveRule(PREROUTING, INBOUND(i)))
  BY <1>1 DEF Contains
<1> QED BY <1>1, <1>2, <1>3 DEF Heap

LEMMA DiesPile == MInv /\ FInv /\ PileInv /\ Dies => PileInv'
<1> SUFFICES ASSUME MInv, FInv, PileInv, Dies, NEW i \in Ifaces
             PROVE  Heap(kernel', todo', cfg', proc', i, mishaps')
  BY DEF PileInv
<1>1. /\ Based(kernel) /\ mishaps \in Nat
      /\ Heap(kernel, todo, cfg, proc, i, mishaps)
  BY LifecycleAssumption DEF MInv, IInv, TypeOK, FInv, PileInv
<1>2. /\ proc' = "dead" /\ todo' = <<>> /\ mishaps' = mishaps + 1
      /\ UNCHANGED <<kernel, cfg>>
  BY DEF Dies, Mishap
<1>3. Heap(kernel, <<>>, cfg, "dead", i, mishaps + 1)
  BY <1>1, HeapEnds
<1> QED BY <1>2, <1>3

(* Shutdown has the removals before it, whatever signal begins it again.   *)
LEMMA HandlePile ==
    ASSUME MInv, FInv, PileInv, NEW sig, Handle(sig),
           proc \in {"test", "apply", "run", "ending"}
    PROVE  PileInv'
<1> SUFFICES ASSUME NEW i \in Ifaces
             PROVE  Heap(kernel', todo', cfg', proc', i, mishaps')
  BY DEF PileInv
<1>1. /\ Based(kernel) /\ mishaps \in Nat /\ cfg \in Configs
      /\ Heap(kernel, todo, cfg, proc, i, mishaps)
  BY LifecycleAssumption DEF MInv, IInv, TypeOK, FInv, PileInv
<1>2. /\ proc' = "ending" /\ todo' = ShutdownCmds(cfg)
      /\ UNCHANGED <<kernel, cfg>>
      /\ mishaps' = mishaps \/ mishaps' = mishaps + 1
  BY DEF Handle, Overtaken, Mishap
<1>3. cfg.sticky => Contains(ShutdownCmds(cfg), RemoveRule(PREROUTING, INBOUND(i)))
  <2> SUFFICES ASSUME cfg.sticky
               PROVE  Contains(ShutdownCmds(cfg), RemoveRule(PREROUTING, INBOUND(i)))
    OBVIOUS
  <2> DEFINE x == INBOUND(i)
  <2>1. x \in Owned(cfg) /\ Leads(PREROUTING, x)
    BY LeadsKinds DEF Owned
  <2> HIDE DEF x
  <2>2. /\ First(ShutdownCmds(cfg), RemoveRule(PREROUTING, x), Keeps(x))
        /\ ShutdownCmds(cfg) \in Seq(Commands)
    BY <1>1, <2>1, SweepOrder
  <2> QED BY <2>2, FirstContains DEF x
<1>4. Heap(kernel, ShutdownCmds(cfg), cfg, "ending", i, mishaps)
  BY <1>1, <1>3 DEF Heap
<1>5. mishaps' \in Nat /\ mishaps <= mishaps'
  BY <1>1, <1>2
<1>6. Heap(kernel, ShutdownCmds(cfg), cfg, "ending", i, mishaps')
  BY <1>1, <1>4, <1>5, HeapMore
<1> QED BY <1>2, <1>6

LEMMA DeliverPile ==
    ASSUME MInv, FInv, PileInv, NEW sig, Deliver(sig) PROVE PileInv'
BY DiesPile, HandlePile DEF Deliver

LEMMA StopSignalPile ==
    ASSUME MInv, FInv, PileInv, StopSignal PROVE PileInv'
<1>1. CASE pidfile = "current" /\ "SIGTERM" \notin handling
  BY <1>1, DeliverPile DEF StopSignal
<1>2. CASE ~(pidfile = "current" /\ "SIGTERM" \notin handling)
  <2>1. UNCHANGED <<kernel, proc, todo, cfg, mishaps>>
    BY <1>2 DEF StopSignal, process, history
  <2> QED BY <2>1, SamePile
<1> QED BY <1>1, <1>2

LEMMA SpawnPile ==
    ASSUME PileInv, Spawn, UNCHANGED <<kernel, mishaps>> PROVE PileInv'
<1>1. CASE proc \in {"off", "dead"}
  <2>1. proc' = "forked"
    BY <1>1 DEF Spawn
  <2> QED BY <1>1, <2>1 DEF PileInv, Heap
<1>2. CASE proc \notin {"off", "dead"}
  <2>1. UNCHANGED <<kernel, proc, todo, cfg, mishaps>>
    BY <1>2 DEF Spawn, process
  <2> QED BY <2>1, SamePile
<1> QED BY <1>1, <1>2

(* The late commands insert no jump.                                       *)
LEMMA ListedPile ==
    ASSUME NEW k, Based(k), NEW cmd \in RunSet \cup EndSet, NEW i \in Ifaces
    PROVE  /\ Piled(Executed(k, cmd), i) <= Piled(k, i)
           /\ Piled(Executed(k, cmd), i) \in Nat /\ Piled(k, i) \in Nat
<1>1. /\ Harmless(cmd) /\ cmd \in Commands /\ k \in Kernels
      /\ In(i)[1] \in DOMAIN k.chains /\ In(i)[1] = PREROUTING
      /\ In(i)[2] = INBOUND(i) /\ In(i)[1] \in Base /\ cmd \in Never(In(i))
  <2>1. cmd \in Commands /\ cmd \in Slack
    BY ListsSlack DEF Slack
  <2> QED BY <2>1, ListsHarmless, SlackNever, InParts DEF Based
<1>2. Based(Executed(k, cmd))
  BY <1>1, BasedStep
<1>3. Spares(cmd, In(i))
  BY <1>1 DEF Never, Adds, Harmless, Spares
<1>4. Count(Executed(k, cmd).chains[In(i)[1]], In(i)[2]) <= Count(k.chains[In(i)[1]], In(i)[2])
  BY <1>1, <1>3, SparedCount
<1> QED BY <1>1, <1>2, <1>4, PiledType DEF Piled

LEMMA LatePile == MInv /\ FInv /\ PileInv /\ Late => PileInv'
<1> SUFFICES ASSUME MInv, FInv, PileInv, Late, NEW i \in Ifaces
             PROVE  Heap(kernel', todo', cfg', proc', i, mishaps')
  BY DEF PileInv
<1>1. PICK cmd \in orphans : kernel' = Executed(kernel, cmd)
  BY DEF Late
<1>2. /\ UNCHANGED <<proc, todo, cfg, mishaps>> /\ Based(kernel) /\ mishaps \in Nat
      /\ cmd \in RunSet \cup EndSet /\ Heap(kernel, todo, cfg, proc, i, mishaps)
  BY LifecycleAssumption DEF Late, process, MInv, IInv, TypeOK, FInv, ListsInv, PileInv
<1> DEFINE e == Executed(kernel, cmd)
           h == Piled(kernel, i)
           g == Piled(e, i)
<1>3. g <= h /\ g \in Nat /\ h \in Nat
  BY <1>2, ListedPile
<1>4. e = kernel'
  BY <1>1
<1> HIDE DEF e, h, g
<1>5. (h <= mishaps => g <= mishaps) /\ (h <= mishaps + 1 => g <= mishaps + 1)
  BY <1>2, <1>3
<1> QED BY <1>2, <1>4, <1>5 DEF Heap, g, h

(* All of them.                                                            *)
LEMMA NextPile == MInv /\ FInv /\ PileInv /\ [Next]_vars => PileInv'
<1> SUFFICES ASSUME MInv, FInv, PileInv, [Next]_vars PROVE PileInv'
  OBVIOUS
<1>1. CASE Daemon
  BY <1>1, ExecutePile, StillPile, WritePidPile, ApplyRulesPile, ExitPile DEF Daemon
<1>2. CASE Late
  BY <1>2, LatePile
<1>3. CASE Start \/ RestartStart
  BY <1>3, SpawnPile DEF Start, RestartStart
<1>4. CASE Stop \/ Restart
  BY <1>4, StopSignalPile DEF Stop, Restart
<1>5. CASE \E sig \in Signals : Terminate(sig)
  BY <1>5, DeliverPile DEF Terminate
<1>6. CASE Wake \/ Crash
  BY <1>6, DiesPile DEF Wake, Crash
<1>7. CASE Recheck \/ UNCHANGED vars
  BY <1>7, StillPile
<1> QED BY <1>1, <1>2, <1>3, <1>4, <1>5, <1>6, <1>7 DEF Next

(* However often the daemon is killed and started again, with whatever     *)
(* configurations, the base chains jump to the balancing chains once at    *)
(* most, and once more for every command that failed; and PREROUTING jumps *)
(* to the chain of the inbound connections of an interface once at most,   *)
(* and once more for every kill, failed or overtaken command.              *)
THEOREM OneHookTheorem == Spec => []OneHook
<1>1. IInv /\ FInv /\ PileInv => OneHook
  <2> SUFFICES ASSUME IInv, FInv, PileInv PROVE OneHook
    OBVIOUS
  <2>1. \A h \in Hooks : JumpCount(kernel, h[1], h[2]) <= 1 + faults
    BY DEF IInv, HookInv, JumpCount, Count
  <2>2. ASSUME NEW i \in Ifaces
        PROVE  JumpCount(kernel, PREROUTING, INBOUND(i)) <= 1 + mishaps
    <3>1. Piled(kernel, i) <= mishaps + 1 /\ mishaps \in Nat
      BY LifecycleAssumption DEF PileInv, Heap, IInv, TypeOK
    <3>2. mishaps + 1 = 1 + mishaps
      BY <3>1
    <3> QED BY <3>1, <3>2 DEF Piled, JumpCount, Count
  <2> QED BY <2>1, <2>2 DEF OneHook, Hooks
<1>2. MInv => IInv
  BY DEF MInv
<1> QED BY <1>1, <1>2, InitMInv, InitFInv, InitPile, NextMInv, NextFInv, NextPile,
           PTL DEF Spec

-----------------------------------------------------------------------------
(* A command of an instance makes no other chains and rules.               *)
LEMMA NamedStep ==
    ASSUME NEW k, Based(k), NEW c, NEW L, NEW cmd \in Proper(c), Named(k, c, L), Ways(k)
    PROVE  Named(Executed(k, cmd), c, L) /\ Ways(Executed(k, cmd))
<1>1. k \in Kernels /\ cmd \in Commands
  BY DEF Based, Proper
<1>2. Ways(Executed(k, cmd))
  BY <1>1, WaysStep
<1>3. \A b \in DOMAIN Executed(k, cmd).chains :
              b \in DOMAIN k.chains \/ (cmd.op = "new" /\ b = cmd.about)
  BY <1>1, ChainsMade
<1>4. cmd.op = "new" => cmd.about \in Fixed \cup Owned(c)
  BY DEF Proper, Fixed
<1> QED BY <1>2, <1>3, <1>4 DEF Named

(* What no chain of an instance that may have left something is, is swept. *)
LEMMA CleanableOthers ==
    ASSUME NEW c, NEW L, NEW x \in Owned(c), x \notin OwnedBy(L)
    PROVE  Cleanable(c, L, x)
<1>1. /\ PRE[1] \notin {"ISP_IN", "ISP"} /\ OUT[1] \notin {"ISP_IN", "ISP"}
      /\ \A i : /\ ISP(i)[1] # "ISP_IN" /\ INBOUND(i)[1] # "ISP"
                /\ PreLimit(i)[1] \notin {"ISP_IN", "ISP"}
                /\ OutLimit(i)[1] \notin {"ISP_IN", "ISP"}
  BY DEF PRE, OUT, ISP, INBOUND, PreLimit, OutLimit
<1>2. ASSUME NEW i \in Ifaces, x = ISP(i) PROVE Cleanable(c, L, x)
  <2>1. \A d \in L : x \in Owned(d)
    BY <1>2 DEF Owned
  <2>2. \A d \in L : FALSE
    BY <2>1 DEF OwnedBy
  <2> QED BY <2>2 DEF Cleanable, Mates, NoneSticky
<1>3. ASSUME NEW i \in Ifaces, x = INBOUND(i) PROVE Cleanable(c, L, x)
  <2>1. \A d \in L : d.sticky => x \in Owned(d)
    BY <1>3 DEF Owned
  <2>2. NoneSticky(L)
    BY <2>1 DEF OwnedBy, NoneSticky
  <2> QED BY <2>2, <1>1, <1>3 DEF Cleanable
<1>4. CASE x \in Caps(c) \/ x = PRE \/ x = OUT
  <2>1. x[1] \notin {"ISP_IN", "ISP"}
    BY <1>1, <1>4 DEF Caps
  <2> QED BY <2>1 DEF Cleanable
<1> QED BY <1>2, <1>3, <1>4, OwnedKinds

-----------------------------------------------------------------------------
(* No instance yet.                                                        *)
LEMMA InitCInv == Init => CInv
<1> SUFFICES ASSUME Init PROVE CleanInv
  BY DEF CInv
<1>1. /\ kernel = Bare /\ proc = "off" /\ todo = <<>> /\ orphans = {} /\ left = {}
      /\ cfg \in Configs
  BY DEF Init
<1>2. /\ DOMAIN kernel.chains = {PREROUTING, OUTPUT, HOOK}
      /\ kernel.rules = {} /\ kernel.routes = {}
      /\ kernel.chains[PREROUTING] = <<>>
  BY <1>1 DEF Bare
<1>3. ASSUME NEW b, NEW t PROVE ~Jumps(kernel, b, t)
  BY <1>1 DEF Bare, Jumps, Exists, Contains
<1>4. NamesInv
  BY <1>1, <1>2, <1>3 DEF NamesInv, Named, Fixed, Ways
<1>5. StickyInv
  <2>1. \A i \in Ifaces : Atmost(kernel, In(i)) /\ Unhooked(kernel, In(i))
    <3> SUFFICES ASSUME NEW i \in Ifaces PROVE Atmost(kernel, In(i)) /\ Unhooked(kernel, In(i))
      OBVIOUS
    <3>1. Count(kernel.chains[PREROUTING], INBOUND(i)) = 0
      BY <1>2, CountEmpty
    <3> QED BY <3>1, <1>3, InParts DEF Atmost, Unhooked
  <2> QED BY <2>1, <1>1 DEF StickyInv, Inbound
<1>6. BareInv
  <2>1. Owned(cfg) \cap Fixed = {}
    BY <1>1, OwnedNames
  <2>2. Swept(kernel, cfg, left)
    BY <2>1, <1>2, <1>3 DEF Swept, Vacant, Fixed
  <2> QED BY <2>2, <1>2, <1>3 DEF BareInv, Ebbed, Vacant, Unhooked
<1>7. SweepInv
  BY <1>1 DEF SweepInv
<1> QED BY <1>4, <1>5, <1>6, <1>7 DEF CleanInv

(* While it holds, a removal takes the only jump there is.                 *)
LEMMA FewJumps ==
    ASSUME MInv, FInv, faults = 0, NamesInv, StickyInv
    PROVE  Few(kernel, cfg, left)
<1>0. cfg \in Configs /\ Bases \subseteq DOMAIN kernel.chains
  BY DEF MInv, IInv, TypeOK, FInv, Based, Base, Bases
<1> SUFFICES ASSUME NEW x \in Owned(cfg), NEW b \in Bases, Hung(cfg, left, b, x)
             PROVE  Count(kernel.chains[b], x) <= 1
  BY <1>0 DEF Few
<1>1. \A h \in Hooks : Count(kernel.chains[h[1]], h[2]) <= 1
  BY DEF MInv, IInv, HookInv
<1>2. Count(kernel.chains[PREROUTING], PRE) <= 1 /\ Count(kernel.chains[OUTPUT], OUT) <= 1
  <2>1. <<PREROUTING, PRE>> \in Hooks /\ <<OUTPUT, OUT>> \in Hooks
    BY DEF Hooks
  <2> QED BY <1>1, <2>1
<1>3. \/ b = PREROUTING /\ (x = PRE \/ \E i \in Ifaces : x = INBOUND(i) /\ cfg.sticky)
      \/ b = OUTPUT /\ x = OUT /\ cfg.local
  BY LeadsOwned DEF Hung, Bases
<1>4. ASSUME NEW i \in Ifaces, x = INBOUND(i), b = PREROUTING
      PROVE  Count(kernel.chains[b], x) <= 1
  <2>1. NoneSticky(left)
    BY <1>4 DEF Hung, INBOUND
  <2>2. Atmost(kernel, In(i))
    BY <2>1 DEF StickyInv, Inbound
  <2> QED BY <2>2, <1>4, InParts DEF Atmost
<1> QED BY <1>2, <1>3, <1>4

(* A command takes effect.                                                 *)
LEMMA ExecutedCInv ==
    ASSUME MInv, FInv, CleanInv, faults = 0, todo # <<>>,
           kernel' = Executed(kernel, todo[1]), todo' = Tail(todo),
           UNCHANGED <<proc, cfg, left, orphans, raced>>
    PROVE  CleanInv'
<1> DEFINE cmd == todo[1]
           e == Executed(kernel, cmd)
           t == Tail(todo)
<1>0. /\ Based(kernel) /\ kernel \in Kernels /\ cfg \in Configs
      /\ proc \in {"init", "run", "ending"}
      /\ proc = "init" => todo \in Seq(InitSet)
      /\ proc = "run" => todo \in Seq(RunSet)
      /\ proc = "ending" => todo \in Seq(EndSet)
  BY DEF MInv, IInv, TypeOK, FInv, Based, ListsInv
<1>1. /\ cmd \in Proper(cfg) /\ t \in Seq(Proper(cfg))
      /\ Named(kernel, cfg, left) /\ Ways(kernel)
  BY Tailed DEF CleanInv, NamesInv
<1>2. e = kernel' /\ t = todo'
  OBVIOUS
<1>3. Named(e, cfg, left) /\ Ways(e)
  <2> HIDE DEF cmd
  <2> QED BY <1>0, <1>1, NamedStep
<1>4. NamesInv'
  BY <1>1, <1>2, <1>3 DEF CleanInv, NamesInv
<1>5. StickyInv'
  <2> SUFFICES ASSUME NoneSticky(left), NEW i \in Ifaces PROVE Inbound(i)'
    BY DEF StickyInv
  <2>0. Inbound(i)
    BY DEF CleanInv, StickyInv
  <2>1. CASE proc = "init"
    <3>1. InitSet \subseteq Commands
      BY InitCommands
    <3>2. todo \in Seq(InitSet) /\ Atmost(kernel, In(i)) /\ Coming(kernel, todo, In(i))
      BY <2>0, <2>1, <1>0 DEF Inbound
    <3>3. /\ Atmost(e, In(i)) /\ Coming(e, t, In(i))
          /\ Unhooked(kernel, In(i)) /\ todo \in Seq(Never(In(i))) => Unhooked(e, In(i))
      BY <3>1, <3>2, <1>0, ComingStep
    <3>4. ~cfg.sticky => Unhooked(kernel, In(i)) /\ todo \in Seq(Never(In(i)))
      <4> SUFFICES ASSUME ~cfg.sticky
                   PROVE  Unhooked(kernel, In(i)) /\ todo \in Seq(Never(In(i)))
        OBVIOUS
      <4>1. Proper(cfg) \subseteq Never(In(i)) /\ todo \in Seq(Proper(cfg))
        BY ProperNever DEF CleanInv, NamesInv
      <4>2. todo \in Seq(Never(In(i)))
        BY <4>1, SeqMonotone
      <4> QED BY <4>2, <2>0 DEF Inbound
    <3> HIDE DEF e, t
    <3> QED BY <3>3, <3>4, <2>1, <1>2 DEF Inbound
  <2>2. CASE proc \in {"run", "ending"}
    <3>1. cmd \in RunSet \cup EndSet
      BY <2>2, <1>0, Tailed
    <3> HIDE DEF cmd
    <3>2. /\ Atmost(e, In(i))
          /\ Unhooked(kernel, In(i)) => Unhooked(e, In(i))
      BY <3>1, <2>0, <1>0, InParts, ListedStep DEF Inbound
    <3>3. proc = "ending" => Going(e, t, In(i))
      BY <2>0, <1>0, GoingStep DEF Inbound, cmd
    <3> HIDE DEF e, t
    <3> QED BY <3>2, <3>3, <2>0, <2>2, <1>2 DEF Inbound
  <2> QED BY <2>1, <2>2, <1>0
<1>6. SweepInv'
  <2> SUFFICES ASSUME proc = "ending"
               PROVE  Ebbing(e, t) /\ (~raced => Sweeping(e, t, cfg, left))
    BY DEF SweepInv
  <2>1. Ebbing(kernel, todo) /\ (~raced => Sweeping(kernel, todo, cfg, left))
    BY DEF CleanInv, SweepInv
  <2>2. Ebbing(e, t)
    BY <2>1, <1>0, EbbingStep
  <2>3. Few(kernel, cfg, left)
    BY FewJumps DEF CleanInv
  <2>4. ~raced => Sweeping(e, t, cfg, left)
    BY <2>1, <2>3, <1>0, <1>1, SweepingStep
  <2> QED BY <2>2, <2>4
<1>7. BareInv'
  BY <1>0 DEF BareInv
<1> QED BY <1>4, <1>5, <1>6, <1>7 DEF CleanInv

(* A command takes effect; one that fails is beyond the invariant.         *)
LEMMA ExecuteCInv == MInv /\ FInv /\ CInv /\ Execute => CInv'
<1> SUFFICES ASSUME MInv, FInv, CInv, Execute, faults' = 0 PROVE CleanInv'
  BY DEF CInv
<1>1. /\ todo # <<>> /\ todo' = Tail(todo)
      /\ UNCHANGED <<proc, cfg, left, orphans, raced>>
      /\ \/ kernel' = Executed(kernel, todo[1]) /\ UNCHANGED faults
         \/ faults' = faults + 1
  BY DEF Execute, Head
<1>2. faults \in Nat
  BY DEF MInv, IInv, TypeOK
<1>3. kernel' = Executed(kernel, todo[1]) /\ faults = 0
  BY <1>1, <1>2
<1> QED BY <1>1, <1>3, ExecutedCInv DEF CInv

(* What the invariant is about stays as it is, or another phase begins in  *)
(* which it says no more.                                                  *)
LEMMA SameCInv ==
    ASSUME CInv, UNCHANGED <<kernel, todo, orphans, cfg, left, faults, raced>>,
           \/ proc' = proc
           \/ proc' \in {"test", "apply", "run"} /\ proc \notin {"off", "forked"}
    PROVE  CInv'
<1> SUFFICES ASSUME faults = 0 PROVE CleanInv'
  BY DEF CInv
<1>0. CleanInv
  BY DEF CInv
<1>1. NamesInv'
  BY <1>0 DEF CleanInv, NamesInv
<1>2. StickyInv'
  <2> SUFFICES ASSUME NoneSticky(left), NEW i \in Ifaces PROVE Inbound(i)'
    BY DEF StickyInv
  <2>1. Inbound(i)
    BY <1>0 DEF CleanInv, StickyInv
  <2> QED BY <2>1 DEF Inbound
<1>3. SweepInv' /\ BareInv'
  BY <1>0 DEF CleanInv, SweepInv, BareInv, Feeds
<1> QED BY <1>1, <1>2, <1>3 DEF CleanInv

(* A cycle goes on.                                                        *)
LEMMA StillCInv ==
    MInv /\ CInv /\ (Initialised \/ HealthTest \/ StartCycle \/ UNCHANGED vars) => CInv'
<1> SUFFICES ASSUME CInv, Initialised \/ HealthTest \/ StartCycle \/ UNCHANGED vars
             PROVE  CInv'
  OBVIOUS
<1>1. UNCHANGED <<kernel, todo, orphans, cfg, left, faults, raced>>
  BY DEF Initialised, HealthTest, StartCycle, vars, process, history
<1>2. \/ proc' = proc
      \/ proc' \in {"test", "apply", "run"} /\ proc \notin {"off", "forked"}
  BY DEF Initialised, HealthTest, StartCycle, vars
<1> QED BY <1>1, <1>2, SameCInv

(* The commands of init and of a cycle are set out.                        *)
LEMMA WritePidCInv == MInv /\ CInv /\ WritePid => CInv'
<1> SUFFICES ASSUME MInv, CInv, WritePid, faults' = 0 PROVE CleanInv'
  BY DEF CInv
<1>1. /\ proc = "forked" /\ proc' = "init" /\ todo' = InitCmds(cfg)
      /\ UNCHANGED <<kernel, cfg, orphans, left, faults>>
  BY DEF WritePid, history
<1>2. cfg \in Configs
  BY DEF MInv, IInv, TypeOK
<1>0. CleanInv
  BY <1>1 DEF CInv
<1>3. NamesInv'
  <2>1. todo' \in Seq(Proper(cfg))
    BY <1>1, <1>2, InitProper
  <2> QED BY <2>1, <1>0, <1>1 DEF CleanInv, NamesInv
<1>4. StickyInv'
  <2> SUFFICES ASSUME NoneSticky(left), NEW i \in Ifaces PROVE Inbound(i)'
    BY <1>1 DEF StickyInv
  <2>1. Inbound(i)
    BY <1>0 DEF CleanInv, StickyInv
  <2>2. Atmost(kernel, In(i)) /\ Unhooked(kernel, In(i))
    BY <2>1, <1>1 DEF Inbound
  <2>3. Coming(kernel, todo', In(i))
    BY <2>2, <1>1, <1>2, InitSole DEF Coming
  <2> QED BY <2>2, <2>3, <1>1 DEF Inbound
<1> QED BY <1>1, <1>3, <1>4 DEF CleanInv, SweepInv, BareInv

LEMMA ApplyRulesCInv == MInv /\ CInv /\ ApplyRules => CInv'
<1> SUFFICES ASSUME MInv, CInv, ApplyRules, faults' = 0 PROVE CleanInv'
  BY DEF CInv
<1>1. /\ proc = "apply" /\ proc' = "run"
      /\ todo' = PathCmds(kernel, cfg, active) \o If(changed, RunCmds(cfg, active))
      /\ UNCHANGED <<kernel, cfg, orphans, left, faults>>
  BY DEF ApplyRules
<1>2. cfg \in Configs /\ active \in SUBSET Ifaces /\ changed \in BOOLEAN
  BY DEF MInv, IInv, TypeOK
<1>0. CleanInv
  BY <1>1 DEF CInv
<1>3. NamesInv'
  <2>1. PathCmds(kernel, cfg, active) \in Seq(Proper(cfg))
    BY <1>2, PathProper
  <2>2. If(changed, RunCmds(cfg, active)) \in Seq(Proper(cfg))
    BY <1>2, RunProper, IfType
  <2>3. todo' \in Seq(Proper(cfg))
    BY <1>1, <2>1, <2>2
  <2> QED BY <2>3, <1>0, <1>1 DEF CleanInv, NamesInv
<1>4. StickyInv'
  <2> SUFFICES ASSUME NoneSticky(left), NEW i \in Ifaces PROVE Inbound(i)'
    BY <1>1 DEF StickyInv
  <2>1. Inbound(i)
    BY <1>0 DEF CleanInv, StickyInv
  <2> QED BY <2>1, <1>1 DEF Inbound
<1> QED BY <1>1, <1>3, <1>4 DEF CleanInv, SweepInv, BareInv

(* A shutdown has run all its commands.                                    *)
LEMMA ExitCInv == MInv /\ CInv /\ Exit => CInv'
<1> SUFFICES ASSUME MInv, CInv, Exit, faults' = 0 PROVE CleanInv'
  BY DEF CInv
<1>1. /\ proc = "ending" /\ todo = <<>> /\ proc' = "off"
      /\ UNCHANGED <<kernel, cfg, todo, orphans, left, raced, faults>>
  BY DEF Exit, history
<1>0. CleanInv /\ RouteInv /\ Len(todo) = 0
  BY <1>1 DEF CInv, MInv
<1>2. \A cmd : ~Contains(todo, cmd)
  BY <1>1 DEF Contains
<1>3. NamesInv'
  BY <1>0, <1>1 DEF CleanInv, NamesInv
<1>4. StickyInv'
  <2> SUFFICES ASSUME NoneSticky(left), NEW i \in Ifaces PROVE Inbound(i)'
    BY <1>1 DEF StickyInv
  <2>1. Inbound(i)
    BY <1>0 DEF CleanInv, StickyInv
  <2>2. Unhooked(kernel, In(i))
    BY <2>1, <1>1, <1>2 DEF Inbound, Going
  <2> QED BY <2>1, <2>2, <1>1 DEF Inbound
<1>5. BareInv'
  <2>1. Ebbed(kernel)
    BY <1>0, <1>1, EbbingEnd DEF CleanInv, SweepInv
  <2>2. ~raced => Swept(kernel, cfg, left)
    BY <1>0, <1>1, SweepingEnd DEF CleanInv, SweepInv
  <2>3. ASSUME NEW h \in Hooks, Feeds(h) PROVE Unhooked(kernel, h)
    <3>1. EndSafe(h)
      BY <2>3, <1>0, <1>1 DEF RouteInv, PhaseInv
    <3>2. ~First(todo, RemoveRule(h[1], h[2]), Keeping)
      BY <1>0 DEF First
    <3> QED BY <3>1, <3>2 DEF EndSafe
  <2> QED BY <2>1, <2>2, <2>3, <1>1 DEF BareInv, Feeds
<1> QED BY <1>1, <1>3, <1>4, <1>5 DEF CleanInv, SweepInv

(* The process dies, and what it was configured for counts as left.        *)
LEMMA DiesCInv ==
    ASSUME CInv, Dies PROVE CInv'
<1> SUFFICES ASSUME faults' = 0 PROVE CleanInv'
  BY DEF CInv
<1>1. /\ proc' = "dead" /\ todo' = <<>> /\ left' = left \cup {cfg}
      /\ UNCHANGED <<kernel, cfg, orphans, faults>>
  BY DEF Dies
<1>0. CleanInv
  BY <1>1 DEF CInv
<1>2. NamesInv'
  <2>1. OwnedBy(left) \subseteq OwnedBy(left')
    BY <1>1 DEF OwnedBy
  <2>2. DOMAIN kernel.chains \subseteq Fixed \cup Owned(cfg) \cup OwnedBy(left')
    BY <2>1, <1>0 DEF CleanInv, NamesInv, Named
  <2>3. Named(kernel', cfg', left')
    BY <2>2, <1>1 DEF Named
  <2> QED BY <2>3, <1>0, <1>1 DEF CleanInv, NamesInv
<1>3. StickyInv'
  <2> SUFFICES ASSUME NoneSticky(left'), NEW i \in Ifaces PROVE Inbound(i)'
    BY DEF StickyInv
  <2>1. NoneSticky(left) /\ ~cfg.sticky
    BY <1>1 DEF NoneSticky
  <2>2. Inbound(i)
    BY <2>1, <1>0 DEF CleanInv, StickyInv
  <2> QED BY <2>1, <2>2, <1>1 DEF Inbound
<1> QED BY <1>1, <1>2, <1>3 DEF CleanInv, SweepInv, BareInv

(* A handler begins a shutdown, perhaps over.                              *)
LEMMA HandleCInv ==
    ASSUME MInv, CInv, proc \in {"test", "apply", "run", "ending"}, NEW sig, Handle(sig)
    PROVE  CInv'
<1> SUFFICES ASSUME faults' = 0 PROVE CleanInv'
  BY DEF CInv
<1>1. /\ proc' = "ending" /\ todo' = ShutdownCmds(cfg)
      /\ UNCHANGED <<kernel, cfg, left, raced, faults>>
      /\ orphans' = orphans \/ (todo # <<>> /\ orphans' = orphans \cup {todo[1]})
  BY DEF Handle, Overtaken, Head
<1>2. cfg \in Configs
  BY DEF MInv, IInv, TypeOK
<1>0. CleanInv
  BY <1>1 DEF CInv
<1>3. NamesInv'
  <2>1. todo' \in Seq(Proper(cfg))
    BY <1>1, <1>2, EndProper
  <2>2. todo # <<>> => todo[1] \in Proper(cfg)
    BY <1>0, Tailed DEF CleanInv, NamesInv
  <2> QED BY <2>1, <2>2, <1>0, <1>1 DEF CleanInv, NamesInv
<1>4. StickyInv'
  <2> SUFFICES ASSUME NoneSticky(left), NEW i \in Ifaces PROVE Inbound(i)'
    BY <1>1 DEF StickyInv
  <2>1. Inbound(i)
    BY <1>0 DEF CleanInv, StickyInv
  <2>2. Going(kernel, todo', In(i))
    <3>1. CASE cfg.sticky
      BY <3>1, <1>1, <1>2, GoingStart
    <3>2. CASE ~cfg.sticky
      BY <3>2, <2>1 DEF Inbound, Going
    <3> QED BY <3>1, <3>2
  <2> QED BY <2>1, <2>2, <1>1 DEF Inbound
<1>5. SweepInv'
  BY <1>1, <1>2, EbbingStart, SweepingStart DEF SweepInv
<1> QED BY <1>1, <1>3, <1>4, <1>5 DEF CleanInv, BareInv

(* A signal, whatever it does.                                             *)
LEMMA DeliverCInv ==
    ASSUME MInv, CInv, NEW sig, Deliver(sig) PROVE CInv'
<1>1. Dies \/ (proc \in {"test", "apply", "run", "ending"} /\ Handle(sig))
  BY DEF Deliver
<1> QED BY <1>1, DiesCInv, HandleCInv

LEMMA StopSignalCInv ==
    ASSUME MInv, CInv, StopSignal PROVE CInv'
<1>1. CASE pidfile = "current" /\ "SIGTERM" \notin handling
  BY <1>1, DeliverCInv DEF StopSignal
<1>2. CASE ~(pidfile = "current" /\ "SIGTERM" \notin handling)
  <2>1. UNCHANGED <<kernel, proc, todo, orphans, cfg, left, faults, raced>>
    BY <1>2 DEF StopSignal, process, history
  <2> QED BY <2>1, SameCInv
<1> QED BY <1>1, <1>2

(* A start.  What a late command may have brought back counts as left.     *)
LEMMA SpawnCInv ==
    ASSUME MInv, CInv, Spawn, UNCHANGED <<kernel, orphans, faults>>
    PROVE  CInv'
<1>1. CASE proc \in {"off", "dead"}
  <2> SUFFICES ASSUME faults' = 0 PROVE CleanInv'
    BY DEF CInv
  <2>1. /\ orphans = {} /\ proc' = "forked" /\ todo' = <<>> /\ cfg' \in Configs
        /\ left' = IF raced THEN left \cup {cfg} ELSE left
    BY <1>1 DEF Spawn
  <2>0. CleanInv /\ RouteInv /\ raced \in BOOLEAN
    BY DEF CInv, MInv, IInv, TypeOK
  <2>2. left \subseteq left' /\ OwnedBy(left) \subseteq OwnedBy(left')
    BY <2>1 DEF OwnedBy
  <2>3. DOMAIN kernel.chains \subseteq Fixed \cup OwnedBy(left')
    <3>1. DOMAIN kernel.chains \subseteq Fixed \cup Owned(cfg) \cup OwnedBy(left')
      BY <2>0, <2>2 DEF CleanInv, NamesInv, Named
    <3>2. CASE cfg \in left'
      <4>1. Owned(cfg) \subseteq OwnedBy(left')
        BY <3>2 DEF OwnedBy
      <4> QED BY <3>1, <4>1
    <3>3. CASE cfg \notin left'
      <4>1. proc = "off" /\ ~raced /\ left' = left
        BY <3>3, <1>1, <2>0, <2>1, <2>2 DEF RouteInv, LocalInv
      <4>2. Swept(kernel, cfg, left)
        BY <4>1, <2>0 DEF CleanInv, BareInv
      <4>3. \A x \in Owned(cfg) : x \in OwnedBy(left) \/ x \notin DOMAIN kernel.chains
        BY <4>2, CleanableOthers DEF Swept
      <4> QED BY <3>1, <4>1, <4>3
    <3> QED BY <3>2, <3>3
  <2>4. NamesInv'
    <3>1. Named(kernel, cfg', left')
      BY <2>3 DEF Named
    <3>2. Ways(kernel) /\ orphans' = {}
      BY <2>0, <2>1 DEF CleanInv, NamesInv
    <3> QED BY <3>1, <3>2, <2>1 DEF NamesInv
  <2>5. StickyInv'
    <3> SUFFICES ASSUME NoneSticky(left'), NEW i \in Ifaces PROVE Inbound(i)'
      BY DEF StickyInv
    <3>1. NoneSticky(left) /\ (proc = "dead" => ~cfg.sticky)
      <4>1. proc = "dead" => cfg \in left
        BY <2>0 DEF RouteInv, LocalInv
      <4> QED BY <4>1, <2>2 DEF NoneSticky
    <3>2. Inbound(i)
      BY <3>1, <2>0 DEF CleanInv, StickyInv
    <3>3. Atmost(kernel, In(i)) /\ Unhooked(kernel, In(i))
      BY <3>1, <3>2, <1>1 DEF Inbound
    <3> QED BY <3>3, <2>1 DEF Inbound
  <2> QED BY <2>1, <2>4, <2>5 DEF CleanInv, SweepInv, BareInv
<1>2. CASE proc \notin {"off", "dead"}
  <2>1. UNCHANGED <<kernel, proc, todo, orphans, cfg, left, faults, raced>>
    BY <1>2 DEF Spawn, process
  <2> QED BY <2>1, SameCInv
<1> QED BY <1>1, <1>2

(* An overtaken command takes effect.  What it makes may stay, but it      *)
(* hooks nothing and adds no policy rule.                                  *)
LEMMA LateCInv == MInv /\ FInv /\ CInv /\ Late => CInv'
<1> SUFFICES ASSUME MInv, FInv, CInv, Late, faults' = 0 PROVE CleanInv'
  BY DEF CInv
<1>1. PICK cmd \in orphans : /\ kernel' = Executed(kernel, cmd)
                             /\ orphans' = orphans \ {cmd}
                             /\ raced' = (raced \/ proc \in {"ending", "off"})
  BY DEF Late
<1>2. UNCHANGED <<proc, cfg, todo, left, faults>>
  BY DEF Late, process
<1>3. proc \notin {"forked", "init", "test", "apply", "run"}
  BY <1>1, NoOrphans DEF MInv
<1>0. CleanInv
  BY <1>2 DEF CInv
<1>4. /\ Based(kernel) /\ kernel \in Kernels /\ cmd \in Proper(cfg)
      /\ cmd \in Quiet /\ cmd \in RunSet \cup EndSet
      /\ Named(kernel, cfg, left) /\ Ways(kernel)
  BY <1>0 DEF MInv, FInv, IInv, HookInv, ListsInv, CleanInv, NamesInv
<1>5. cmd \in Commands /\ cmd \in Slack /\ \A h \in Hooks : Spares(cmd, h)
  BY <1>4, QuietCommands, ListsSlack DEF Quiet
<1> DEFINE e == Executed(kernel, cmd)
<1>6. e = kernel'
  BY <1>1
<1>7. NamesInv'
  <2>1. Named(e, cfg, left) /\ Ways(e)
    BY <1>4, NamedStep
  <2>2. orphans' \subseteq orphans
    BY <1>1
  <2> HIDE DEF e
  <2> QED BY <2>1, <2>2, <1>0, <1>2, <1>6 DEF CleanInv, NamesInv
<1>8. StickyInv'
  <2> SUFFICES ASSUME NoneSticky(left), NEW i \in Ifaces PROVE Inbound(i)'
    BY <1>2 DEF StickyInv
  <2>1. Inbound(i)
    BY <1>0 DEF CleanInv, StickyInv
  <2>2. /\ Atmost(e, In(i))
        /\ Unhooked(kernel, In(i)) => Unhooked(e, In(i))
    BY <1>4, <2>1, InParts, ListedStep DEF Inbound
  <2>3. proc = "ending" => Going(e, todo, In(i))
    BY <2>1, <2>2 DEF Inbound, Going
  <2> HIDE DEF e
  <2> QED BY <2>1, <2>2, <2>3, <1>2, <1>3, <1>6 DEF Inbound
<1>9. SweepInv'
  <2>1. proc = "ending" => Ebbing(e, todo)
    BY <1>0, <1>4, <1>5, EbbingLate DEF CleanInv, SweepInv
  <2> HIDE DEF e
  <2> QED BY <2>1, <1>1, <1>2, <1>6 DEF SweepInv
<1>10. BareInv'
  <2>1. ASSUME proc = "off"
        PROVE  /\ Ebbed(e)
               /\ \A h \in Hooks : Feeds(h) => Unhooked(e, h)
    <3>1. Ebbed(e)
      BY <2>1, <1>0, <1>4, <1>5, EbbedStep DEF CleanInv, BareInv
    <3>2. ASSUME NEW h \in Hooks, Feeds(h) PROVE Unhooked(e, h)
      <4>1. Unhooked(kernel, h)
        BY <2>1, <3>2, <1>0 DEF CleanInv, BareInv
      <4> QED BY <4>1, <1>4, <1>5, UnhookedStep
    <3> QED BY <3>1, <3>2
  <2> HIDE DEF e
  <2> QED BY <2>1, <1>1, <1>2, <1>6 DEF BareInv, Feeds
<1> QED BY <1>7, <1>8, <1>9, <1>10 DEF CleanInv

(* All of them.                                                            *)
LEMMA NextCInv == MInv /\ FInv /\ CInv /\ [Next]_vars => CInv'
<1> SUFFICES ASSUME MInv, FInv, CInv, [Next]_vars PROVE CInv'
  OBVIOUS
<1>1. CASE Daemon
  BY <1>1, ExecuteCInv, StillCInv, WritePidCInv, ApplyRulesCInv, ExitCInv DEF Daemon
<1>2. CASE Late
  BY <1>2, LateCInv
<1>3. CASE Start \/ RestartStart
  BY <1>3, SpawnCInv DEF Start, RestartStart
<1>4. CASE Stop \/ Restart
  BY <1>4, StopSignalCInv DEF Stop, Restart
<1>5. CASE \E sig \in Signals : Terminate(sig)
  BY <1>5, DeliverCInv DEF Terminate
<1>6. CASE Wake \/ Crash
  BY <1>6, DiesCInv DEF Wake, Crash
<1>7. CASE Recheck
  BY <1>7, SameCInv DEF Recheck, history
<1>8. CASE UNCHANGED vars
  BY <1>8, StillCInv
<1> QED BY <1>1, <1>2, <1>3, <1>4, <1>5, <1>6, <1>7, <1>8 DEF Next

-----------------------------------------------------------------------------
(* A shutdown of a configuration that covers others removes what they own. *)
LEMMA CoversOwned ==
    ASSUME \A d \in left : Covers(d)
    PROVE  /\ NoneSticky(left) /\ OwnedBy(left) \subseteq Owned(cfg)
           /\ \A x : Cleanable(cfg, left, x)
<1>1. NoneSticky(left) /\ Mates(cfg, left)
  BY DEF Covers, NoneSticky, Mates
<1>2. OwnedBy(left) \subseteq Owned(cfg)
  <2> SUFFICES ASSUME NEW d \in left, NEW x \in Owned(d) PROVE x \in Owned(cfg)
    BY DEF OwnedBy
  <2>1. (d.local => cfg.local) /\ ~d.sticky /\ Limits(d) \subseteq Limits(cfg)
    BY DEF Covers
  <2>2. \/ x \in {PRE} \cup {ISP(i) : i \in Ifaces} \cup {PreLimit(r) : r \in Limits(d)}
        \/ d.local /\ x \in {OUT} \cup {OutLimit(r) : r \in Limits(d)}
    BY <2>1 DEF Owned
  <2> QED BY <2>1, <2>2 DEF Owned
<1> QED BY <1>1, <1>2 DEF Cleanable

(* No packet passes a chain of the daemon after an orderly end.            *)
LEMMA HooksVacant ==
    ASSUME MInv, FInv, CInv, proc = "off", faults = 0, NoneSticky(left),
           \A d \in left : d.local => cfg.local
    PROVE  Vacant(kernel, PREROUTING) /\ Vacant(kernel, OUTPUT)
<1>0. /\ CleanInv /\ Shape(kernel) /\ RouteInv /\ kernel \in Kernels
  BY DEF CInv, MInv, ListsInv, FInv, Based
<1>1. ASSUME NEW t, Jumps(kernel, PREROUTING, t) PROVE FALSE
  <2>1. t = PRE \/ t[1] = "ISP_IN"
    BY <1>0, <1>1 DEF Shape, Fits
  <2>2. CASE t = PRE
    <3>1. <<PREROUTING, PRE>> \in Hooks /\ Feeds(<<PREROUTING, PRE>>)
      BY ChainsApart DEF Hooks, Feeds
    <3>2. Unhooked(kernel, <<PREROUTING, PRE>>)
      BY <3>1, <1>0 DEF CleanInv, BareInv
    <3> QED BY <3>2, <2>2, <1>1 DEF Unhooked
  <2>3. CASE t[1] = "ISP_IN"
    <3>1. t[2] \in Ifaces
      BY <2>3, <1>0, <1>1 DEF CleanInv, NamesInv, Ways, Leads
    <3>2. t \in Names
      BY <1>0, <1>1, KernelParts DEF Jumps, Exists, Contains
    <3>3. t = INBOUND(t[2])
      BY <2>3, <3>2 DEF Names, INBOUND
    <3>4. PICK i \in Ifaces : t = INBOUND(i)
      BY <3>1, <3>3
    <3>5. Unhooked(kernel, In(i))
      BY <1>0 DEF CleanInv, StickyInv, Inbound
    <3> QED BY <3>4, <3>5, <1>1, InParts DEF Unhooked
  <2> QED BY <2>1, <2>2, <2>3
<1>2. ASSUME NEW t, Jumps(kernel, OUTPUT, t) PROVE FALSE
  <2>1. t = OUT
    BY <1>0, <1>2 DEF Shape, Fits
  <2>2. Unhooked(kernel, <<OUTPUT, OUT>>)
    <3>1. CASE cfg.local
      <4>1. <<OUTPUT, OUT>> \in Hooks /\ Feeds(<<OUTPUT, OUT>>)
        BY <3>1 DEF Hooks, Feeds
      <4> QED BY <4>1, <1>0 DEF CleanInv, BareInv
    <3>2. CASE ~cfg.local
      <4>1. NoneLocal
        BY <3>2 DEF NoneLocal
      <4> QED BY <4>1, <1>0 DEF RouteInv, LocalInv
    <3> QED BY <3>1, <3>2
  <2> QED BY <2>1, <2>2, <1>2 DEF Unhooked
<1> QED BY <1>1, <1>2 DEF Vacant

(* What the invariant says of the kernel once the daemon is off.           *)
LEMMA CInvCleans == MInv /\ FInv /\ CInv => ShutdownCleans
<1> SUFFICES ASSUME MInv, FInv, CInv, proc = "off", faults = 0,
                    \A d \in left : Covers(d)
             PROVE  /\ kernel.chains[PREROUTING] = <<>> /\ kernel.chains[OUTPUT] = <<>>
                    /\ kernel.chains[HOOK] = <<>>
                    /\ kernel.rules = {}
                    /\ ~raced => /\ DOMAIN kernel.chains
                                       \subseteq {PREROUTING, OUTPUT, HOOK, NAT}
                                 /\ kernel.routes = {}
                                 /\ Exists(kernel, NAT) => kernel.chains[NAT] = <<>>
  BY DEF ShutdownCleans
<1>0. /\ CleanInv /\ Based(kernel) /\ kernel \in Kernels
      /\ {PREROUTING, OUTPUT, HOOK} \subseteq DOMAIN kernel.chains
  BY DEF CInv, FInv, Based, Base
<1>1. /\ NoneSticky(left) /\ OwnedBy(left) \subseteq Owned(cfg)
      /\ \A x : Cleanable(cfg, left, x)
      /\ \A d \in left : d.local => cfg.local
  BY CoversOwned DEF Covers
<1>2. Vacant(kernel, PREROUTING) /\ Vacant(kernel, OUTPUT)
  BY <1>1, HooksVacant
<1>3. Ebbed(kernel) /\ (~raced => Swept(kernel, cfg, left))
  BY <1>0 DEF CleanInv, BareInv
<1>4. kernel.chains[PREROUTING] = <<>> /\ kernel.chains[OUTPUT] = <<>>
  BY <1>0, <1>2, VacantEmpty
<1>5. kernel.chains[HOOK] = <<>> /\ kernel.rules = {}
  <2>1. Vacant(kernel, HOOK) /\ \A i \in Ifaces : i \notin kernel.rules
    BY <1>3 DEF Ebbed
  <2>2. kernel.rules \subseteq Ifaces
    BY <1>0 DEF Based
  <2> QED BY <2>1, <2>2, <1>0, VacantEmpty
<1>6. ASSUME ~raced
      PROVE  /\ DOMAIN kernel.chains \subseteq Fixed /\ kernel.routes = {}
             /\ Exists(kernel, NAT) => kernel.chains[NAT] = <<>>
  <2>1. Swept(kernel, cfg, left)
    BY <1>3, <1>6
  <2>2. DOMAIN kernel.chains \subseteq Fixed
    <3>1. DOMAIN kernel.chains \subseteq Fixed \cup Owned(cfg)
      BY <1>0, <1>1 DEF CleanInv, NamesInv, Named
    <3>2. \A x \in Owned(cfg) : x \notin DOMAIN kernel.chains
      BY <1>1, <2>1 DEF Swept
    <3> QED BY <3>1, <3>2
  <2>3. kernel.routes = {}
    <3>1. kernel.routes \subseteq Ifaces
      BY <1>0 DEF Based
    <3> QED BY <3>1, <2>1 DEF Swept
  <2>4. Exists(kernel, NAT) => kernel.chains[NAT] = <<>>
    BY <1>0, <2>1, VacantEmpty DEF Swept, Exists
  <2> QED BY <2>2, <2>3, <2>4
<1> QED BY <1>4, <1>5, <1>6 DEF Fixed

(* After an orderly end, in the handler of whatever signal, of however     *)
(* many one within the other, nothing of the daemon is left in the path of *)
(* a packet, and no policy rule; and if no command took effect late, no    *)
(* mangle chain, no table, and the nat chain empty. That includes what any *)
(* number of killed instances left, wherever they were killed, as long as  *)
(* the last configuration covers theirs and no command failed.             *)
THEOREM ShutdownTheorem == Spec => []ShutdownCleans
<1>1. MInv /\ FInv /\ CInv /\ [Next]_vars => MInv' /\ FInv' /\ CInv'
  BY NextMInv, NextFInv, NextCInv
<1>2. Init => MInv /\ FInv /\ CInv
  BY InitMInv, InitFInv, InitCInv
<1> QED BY <1>1, <1>2, CInvCleans, PTL DEF Spec
=============================================================================
