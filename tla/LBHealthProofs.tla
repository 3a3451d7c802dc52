--------------------------- MODULE LBHealthProofs ---------------------------
(***************************************************************************)
(* Proofs about LBHealth, for every ring size and every configuration.     *)
(* The inductive invariant relates the ring to the true runs:              *)
(*   - the slots of the current lap (below index) show exactly the most    *)
(*     recent results, so a run seen there is as long as the true run;     *)
(*   - while the interface is active the true run of failures is short,    *)
(*     counted separately before and after the last wrap of the ring.      *)
(***************************************************************************)
EXTENDS LBHealth, TLAPS

(* The first i slots show the last i results, whose final run of results   *)
(* like rtt has length streak.                                             *)
LapShows(resp, i, rtt, streak) ==
    \A c \in 1..i : RunOf(resp, i - 1, rtt, c) <=> streak >= c

(* A run that never made the scan count to n, with the ring at slot i. *)
Unnoticed(streak, i, n) ==
    /\ streak <= i => streak < n
    /\ streak > i  => i < n /\ streak - i < n

LapInv ==
    /\ LapShows(resp_data, index, -1, failure_count)
    /\ LapShows(resp_data, index, 0, success_count)

UnnoticedInv ==
    /\ is_active /\ failure_ct <= BufferSize =>
        Unnoticed(failure_count, index, Policy!AtLeastOne(failure_ct))
    /\ ~is_active /\ success_ct <= BufferSize =>
        Unnoticed(success_count, index, Policy!AtLeastOne(success_ct))

ToldInv ==
    /\ phase = "test" => \/ told = "NONE" /\ state_changed
                         \/ told = StateName /\ ~state_changed
    /\ phase = "apply" => (state_changed <=> told # StateName)
    /\ phase = "end" => told = StateName

IInv == TypeOK /\ LapInv /\ UnnoticedInv /\ ToldInv

-----------------------------------------------------------------------------
(* Writing a result into slot s lengthens the run of its own kind by one. *)
LEMMA RunGrows ==
    ASSUME NEW resp \in [Slots -> Rtts], NEW s \in Slots, NEW rtt \in Rtts,
           NEW streak \in Nat, LapShows(resp, s, rtt, streak)
    PROVE  LapShows([resp EXCEPT ![s] = rtt], s + 1, rtt, streak + 1)
<1> DEFINE new == [resp EXCEPT ![s] = rtt]
<1> SUFFICES ASSUME NEW c \in 1..(s + 1)
             PROVE  RunOf(new, s, rtt, c) <=> streak + 1 >= c
  <2>1. (s + 1) - 1 = s
    BY BufferAssumption DEF Slots
  <2> QED BY <2>1 DEF LapShows
<1>1. new[s] = rtt /\ \A i \in 0..(s - 1) : new[i] = resp[i]
  BY BufferAssumption DEF Slots
<1>2. CASE c = 1
  BY <1>1, <1>2, BufferAssumption DEF RunOf, Same, Slots
<1>3. CASE c > 1
  <2>1. c - 1 \in 1..s
    BY <1>3, BufferAssumption DEF Slots
  <2>2. RunOf(resp, s - 1, rtt, c - 1) <=> streak >= c - 1
    BY <2>1 DEF LapShows
  <2>3. RunOf(new, s, rtt, c) <=> RunOf(resp, s - 1, rtt, c - 1)
    BY <1>1, <2>1, BufferAssumption DEF RunOf, Same, Slots
  <2> QED BY <2>1, <2>2, <2>3
<1> QED BY <1>2, <1>3, BufferAssumption DEF Slots

(* ... and leaves no run of the other kind. *)
LEMMA RunBreaks ==
    ASSUME NEW resp \in [Slots -> Rtts], NEW s \in Slots, NEW rtt \in Rtts,
           NEW other \in Rtts, other # rtt
    PROVE  LapShows([resp EXCEPT ![s] = rtt], s + 1, other, 0)
BY BufferAssumption DEF LapShows, RunOf, Same, Slots, Rtts

(* What push returns is the true run when the scan stops above slot 0;     *)
(* otherwise the true run covers the whole lap.  For a failure it is       *)
(* never more than the lap.                                                *)
LEMMA CountsBounds ==
    ASSUME NEW resp \in [Slots -> Rtts], NEW s \in Slots, NEW rtt \in Rtts,
           NEW streak \in Nat, LapShows(resp, s + 1, rtt, streak),
           NEW ct, ct \in Counts(resp, s, rtt)
    PROVE  /\ ct \in 1..BufferSize
           /\ ct <= s => ct = streak
           /\ ct > s => streak >= s + 1
           /\ rtt = -1 => ct <= streak
<1>1. ct \in 1..BufferSize
  BY DEF Counts
<1>2. ASSUME ct <= s PROVE ct = streak
  <2>1. RunOf(resp, s, rtt, ct) /\ ~Same(resp[s - ct], rtt)
    BY <1>1, <1>2, BufferAssumption DEF Counts, Slots
  <2>2. ct + 1 \in 1..(s + 1) /\ ct \in 1..(s + 1)
    BY <1>1, <1>2, BufferAssumption DEF Slots
  <2>3. ~RunOf(resp, s, rtt, ct + 1)
    BY <2>1, <2>2, <1>1, <1>2, BufferAssumption DEF RunOf, Slots
  <2>4. streak >= ct /\ ~(streak >= ct + 1)
    BY <2>1, <2>2, <2>3, BufferAssumption DEF LapShows, Slots
  <2> QED BY <2>4, <1>1
<1>3. ASSUME ct > s PROVE streak >= s + 1
  <2>1. RunOf(resp, s, rtt, s + 1)
    BY <1>1, <1>3, BufferAssumption DEF Counts, Slots
  <2> QED BY <2>1, BufferAssumption DEF LapShows, Slots
<1>4. ASSUME rtt = -1 PROVE ct <= s + 1
  BY <1>1, <1>4, BufferAssumption DEF Counts, Slots
<1> QED BY <1>1, <1>2, <1>3, <1>4, BufferAssumption DEF Slots

(* A run that has now been pushed, and was still counted below n, is       *)
(* unnoticed at the next slot.                                             *)
LEMMA StaysUnnoticed ==
    ASSUME NEW s \in Slots, NEW streak \in Nat, NEW n \in 1..BufferSize,
           Unnoticed(streak, s, n),
           NEW ct \in 1..BufferSize, ct < n,
           ct <= s => ct = streak + 1,
           ct > s => streak + 1 >= s + 1
    PROVE  Unnoticed(streak + 1, NextSlot(s), n)
<1>1. CASE s = BufferSize - 1
  BY <1>1, BufferAssumption DEF Unnoticed, NextSlot, Slots
<1>2. CASE s # BufferSize - 1
  BY <1>2, BufferAssumption DEF Unnoticed, NextSlot, Slots
<1> QED BY <1>1, <1>2

(* A threshold with its lower bound is a number of slots, if it is within  *)
(* the ring.                                                               *)
LEMMA AtLeastOneType ==
    ASSUME NEW n \in Nat
    PROVE  /\ Policy!AtLeastOne(n) \in Nat
           /\ n <= BufferSize => Policy!AtLeastOne(n) \in 1..BufferSize
           /\ n <= Policy!AtLeastOne(n)
           /\ n = 0 \/ n = Policy!AtLeastOne(n)
BY BufferAssumption DEF Policy!AtLeastOne

(* Moving to the next slot keeps what the lap shows: after the wrap the    *)
(* new lap is empty.                                                       *)
LEMMA LapAdvances ==
    ASSUME NEW resp, NEW s \in Slots, NEW rtt, NEW streak,
           LapShows(resp, s + 1, rtt, streak)
    PROVE  LapShows(resp, NextSlot(s), rtt, streak)
BY BufferAssumption DEF LapShows, NextSlot, Slots

-----------------------------------------------------------------------------
(* The invariant holds when the program starts. *)
LEMMA InitInv == Init => IInv
<1> SUFFICES ASSUME Init PROVE IInv
  OBVIOUS
<1>1. TypeOK
  BY BufferAssumption DEF Init, TypeOK, Rtts, Slots
<1>2. LapInv
  BY DEF Init, LapInv, LapShows
<1>3. UnnoticedInv
  <2>1. failure_ct <= BufferSize =>
           Policy!AtLeastOne(failure_ct) \in 1..BufferSize
    BY AtLeastOneType, BoundsAssumption DEF Init
  <2> QED BY <2>1, BufferAssumption DEF Init, UnnoticedInv, Unnoticed
<1>4. ToldInv
  BY DEF Init, ToldInv
<1> QED BY <1>1, <1>2, <1>3, <1>4 DEF IInv

(* The facts about one failure that the theorems need. *)
LEMMA FailureStep ==
    ASSUME IInv, PutFailure
    PROVE  /\ IInv'
           /\ is_active /\ ~is_active' =>
                 failure_count' >= failure_ct /\ failure_ct <= BufferSize
           /\ is_active' \in {is_active, FALSE}
<1> USE DEF IInv
<1>0. PICK ct \in 1..BufferSize :
        /\ Push(-1, ct)
        /\ is_active' = (is_active /\ ~Fails(ct))
        /\ state_changed' = (state_changed \/ is_active # is_active')
  BY DEF PutFailure
<1>1. /\ resp_data' = [resp_data EXCEPT ![index] = -1]
      /\ index' = NextSlot(index)
      /\ failure_count' = failure_count + 1
      /\ success_count' = 0
      /\ ct \in Counts(resp_data', index, -1)
      /\ index' \in Slots
  BY <1>0, BufferAssumption DEF Push, TypeOK, NextSlot, Slots
<1>2. /\ phase = "test" /\ phase' = "apply"
      /\ UNCHANGED <<success_ct, failure_ct, told>>
  BY DEF PutFailure
<1>3. TypeOK'
  <2>1. is_active' \in BOOLEAN /\ state_changed' \in BOOLEAN
    BY <1>0
  <2>2. resp_data' \in [Slots -> Rtts]
    BY <1>1 DEF TypeOK, Rtts
  <2>3. success_count' \in Nat /\ failure_count' \in Nat
    BY <1>1 DEF TypeOK
  <2> QED BY <1>1, <1>2, <2>1, <2>2, <2>3 DEF TypeOK
<1>4. /\ LapShows(resp_data', index + 1, -1, failure_count')
      /\ LapShows(resp_data', index + 1, 0, success_count')
  <2>1. /\ resp_data \in [Slots -> Rtts] /\ index \in Slots
        /\ failure_count \in Nat
        /\ LapShows(resp_data, index, -1, failure_count)
    BY DEF TypeOK, LapInv
  <2>2. -1 \in Rtts /\ 0 \in Rtts /\ 0 # -1
    BY DEF Rtts
  <2>3. LapShows(resp_data', index + 1, -1, failure_count')
    BY <1>1, <2>1, <2>2, RunGrows, Zenon
  <2>4. LapShows(resp_data', index + 1, 0, success_count')
    BY <1>1, <2>1, <2>2, RunBreaks, Zenon
  <2> QED BY <2>3, <2>4
<1>5. LapInv'
  BY <1>1, <1>4, LapAdvances DEF LapInv, TypeOK
<1>6. /\ ct <= index => ct = failure_count'
      /\ ct > index => failure_count' >= index + 1
      /\ ct <= failure_count'
  <2>1. /\ resp_data' \in [Slots -> Rtts] /\ index \in Slots
        /\ failure_count' \in Nat
    BY <1>3 DEF TypeOK
  <2>2. -1 \in Rtts
    BY DEF Rtts
  <2>3. ct \in Counts(resp_data', index, -1)
    BY <1>1
  <2> QED BY <1>4, <2>1, <2>2, <2>3, CountsBounds
<1>7. UnnoticedInv'
  <2>1. ASSUME is_active', failure_ct' <= BufferSize
        PROVE  Unnoticed(failure_count', index',
                         Policy!AtLeastOne(failure_ct'))
    <3>0. is_active /\ ~(ct >= failure_ct)
      BY <1>0, <2>1 DEF Fails
    <3>1. is_active /\ ct < failure_ct
      BY <3>0, BufferAssumption DEF TypeOK
    <3>2. /\ Policy!AtLeastOne(failure_ct) \in 1..BufferSize
          /\ ct < Policy!AtLeastOne(failure_ct)
      BY <3>1, <2>1, <1>2, AtLeastOneType, BoundsAssumption DEF TypeOK
    <3>3. Unnoticed(failure_count, index, Policy!AtLeastOne(failure_ct))
      BY <3>1, <2>1, <1>2 DEF UnnoticedInv
    <3>4. Unnoticed(failure_count + 1, NextSlot(index),
                    Policy!AtLeastOne(failure_ct))
      BY <3>2, <3>3, <1>1, <1>6, StaysUnnoticed DEF TypeOK
    <3> QED BY <3>4, <1>1, <1>2
  <2>2. ASSUME success_ct' <= BufferSize
        PROVE  Unnoticed(success_count', index', Policy!AtLeastOne(success_ct'))
    <3>1. Policy!AtLeastOne(success_ct') \in 1..BufferSize
      BY <1>2, <2>2, AtLeastOneType, BoundsAssumption DEF TypeOK
    <3> QED BY <3>1, <1>1 DEF Unnoticed, Slots
  <2> QED BY <2>1, <2>2 DEF UnnoticedInv
<1>8. ToldInv'
  BY <1>0, <1>2, <1>3 DEF ToldInv, StateName, TypeOK
<1>9. is_active /\ ~is_active' =>
         failure_count' >= failure_ct /\ failure_ct <= BufferSize
  <2> SUFFICES ASSUME is_active, ~is_active'
               PROVE  failure_count' >= failure_ct /\ failure_ct <= BufferSize
    OBVIOUS
  <2>1. ct >= failure_ct
    BY <1>0 DEF Fails
  <2> QED BY <2>1, <1>2, <1>3, <1>6, BufferAssumption DEF TypeOK
<1>10. is_active' \in {is_active, FALSE}
  BY <1>0 DEF TypeOK
<1> QED BY <1>3, <1>5, <1>7, <1>8, <1>9, <1>10

(* The facts about one success that the theorems need. *)
LEMMA SuccessStep ==
    ASSUME IInv, PutSuccess
    PROVE  /\ IInv'
           /\ is_active' \in {is_active, TRUE}
           /\ ~is_active /\ is_active' => success_ct <= BufferSize
<1> USE DEF IInv
<1>0. PICK ct \in 1..BufferSize :
        /\ Push(0, ct)
        /\ is_active' = (is_active \/ Recovers(ct))
        /\ state_changed' = (state_changed \/ is_active # is_active')
  BY DEF PutSuccess
<1>1. /\ resp_data' = [resp_data EXCEPT ![index] = 0]
      /\ index' = NextSlot(index)
      /\ success_count' = success_count + 1
      /\ failure_count' = 0
      /\ ct \in Counts(resp_data', index, 0)
      /\ index' \in Slots
  BY <1>0, BufferAssumption DEF Push, TypeOK, NextSlot, Slots
<1>2. /\ phase = "test" /\ phase' = "apply"
      /\ UNCHANGED <<success_ct, failure_ct, told>>
  BY DEF PutSuccess
<1>3. TypeOK'
  <2>1. is_active' \in BOOLEAN /\ state_changed' \in BOOLEAN
    BY <1>0
  <2>2. resp_data' \in [Slots -> Rtts]
    BY <1>1 DEF TypeOK, Rtts
  <2>3. success_count' \in Nat /\ failure_count' \in Nat
    BY <1>1 DEF TypeOK
  <2> QED BY <1>1, <1>2, <2>1, <2>2, <2>3 DEF TypeOK
<1>4. /\ LapShows(resp_data', index + 1, 0, success_count')
      /\ LapShows(resp_data', index + 1, -1, failure_count')
  <2>1. /\ resp_data \in [Slots -> Rtts] /\ index \in Slots
        /\ success_count \in Nat
        /\ LapShows(resp_data, index, 0, success_count)
    BY DEF TypeOK, LapInv
  <2>2. -1 \in Rtts /\ 0 \in Rtts /\ 0 # -1
    BY DEF Rtts
  <2>3. LapShows(resp_data', index + 1, 0, success_count')
    BY <1>1, <2>1, <2>2, RunGrows, Zenon
  <2>4. LapShows(resp_data', index + 1, -1, failure_count')
    BY <1>1, <2>1, <2>2, RunBreaks, Zenon
  <2> QED BY <2>3, <2>4
<1>5. LapInv'
  BY <1>1, <1>4, LapAdvances DEF LapInv, TypeOK
<1>6. /\ ct <= index => ct = success_count'
      /\ ct > index => success_count' >= index + 1
  <2>1. /\ resp_data' \in [Slots -> Rtts] /\ index \in Slots
        /\ success_count' \in Nat
    BY <1>3 DEF TypeOK
  <2>2. 0 \in Rtts
    BY DEF Rtts
  <2>3. ct \in Counts(resp_data', index, 0)
    BY <1>1
  <2> QED BY <1>4, <2>1, <2>2, <2>3, CountsBounds
<1>7. UnnoticedInv'
  <2>1. ASSUME ~is_active', success_ct' <= BufferSize
        PROVE  Unnoticed(success_count', index',
                         Policy!AtLeastOne(success_ct'))
    <3>0. ~is_active /\ ~(ct >= success_ct)
      BY <1>0, <2>1 DEF Recovers
    <3>1. ~is_active /\ ct < success_ct
      BY <3>0, BufferAssumption DEF TypeOK
    <3>2. /\ Policy!AtLeastOne(success_ct) \in 1..BufferSize
          /\ ct < Policy!AtLeastOne(success_ct)
      BY <3>1, <2>1, <1>2, AtLeastOneType, BoundsAssumption DEF TypeOK
    <3>3. Unnoticed(success_count, index, Policy!AtLeastOne(success_ct))
      BY <3>1, <2>1, <1>2 DEF UnnoticedInv
    <3>4. Unnoticed(success_count + 1, NextSlot(index),
                    Policy!AtLeastOne(success_ct))
      BY <3>2, <3>3, <1>1, <1>6, StaysUnnoticed DEF TypeOK
    <3> QED BY <3>4, <1>1, <1>2
  <2>2. ASSUME failure_ct' <= BufferSize
        PROVE  Unnoticed(failure_count', index', Policy!AtLeastOne(failure_ct'))
    <3>1. Policy!AtLeastOne(failure_ct') \in 1..BufferSize
      BY <1>2, <2>2, AtLeastOneType, BoundsAssumption DEF TypeOK
    <3> QED BY <3>1, <1>1 DEF Unnoticed, Slots
  <2> QED BY <2>1, <2>2 DEF UnnoticedInv
<1>8. ToldInv'
  BY <1>0, <1>2, <1>3 DEF ToldInv, StateName, TypeOK
<1>9. is_active' \in {is_active, TRUE}
  BY <1>0 DEF TypeOK
<1>10. ~is_active /\ is_active' => success_ct <= BufferSize
  <2>1. ~is_active /\ is_active' => ct >= success_ct
    BY <1>0 DEF Recovers
  <2> QED BY <2>1, BufferAssumption, BoundsAssumption DEF TypeOK
<1> QED BY <1>3, <1>5, <1>7, <1>8, <1>9, <1>10

(* The reading and the clearing of the flag leave the history alone. *)
LEMMA LoopStep ==
    ASSUME IInv, StateChanged \/ ResetStateChanged \/ UNCHANGED vars
    PROVE  IInv' /\ UNCHANGED <<success_ct, failure_ct, failure_count,
                                success_count, is_active>>
<1>1. UNCHANGED <<success_ct, failure_ct, resp_data, index, failure_count,
                  success_count, is_active>>
  BY DEF StateChanged, ResetStateChanged, vars, config, history
<1>2. TypeOK'
  BY <1>1 DEF IInv, TypeOK, StateChanged, ResetStateChanged, vars, StateName
<1>3. LapInv' /\ UnnoticedInv'
  BY <1>1 DEF IInv, LapInv, UnnoticedInv, LapShows, Unnoticed, RunOf
<1>4. ToldInv'
  BY <1>1 DEF IInv, TypeOK, ToldInv, StateChanged, ResetStateChanged, vars,
              StateName
<1> QED BY <1>1, <1>2, <1>3, <1>4 DEF IInv

(* Every step keeps the invariant. *)
LEMMA NextInv == IInv /\ [Next]_vars => IInv'
BY FailureStep, SuccessStep, LoopStep DEF Next

(* The inductive invariant holds in every reachable state. *)
THEOREM Invariance == Spec => []IInv
BY InitInv, NextInv, PTL DEF Spec

-----------------------------------------------------------------------------
(* The state of a health record has the types of TypeOK. *)
THEOREM TypeCorrect == Spec => []TypeOK
<1>1. IInv => TypeOK
  BY DEF IInv
<1> QED BY <1>1, Invariance, PTL

(* A run shorter than the bound is all that can go unnoticed. *)
LEMMA BoundLemma ==
    ASSUME NEW streak \in Nat, NEW i \in Slots, NEW n \in Nat,
           n <= BufferSize, Unnoticed(streak, i, Policy!AtLeastOne(n))
    PROVE  streak < Policy!Bound(n)
<1>1. Policy!AtLeastOne(n) \in 1..BufferSize
  BY AtLeastOneType
<1> QED BY <1>1, BufferAssumption DEF Unnoticed, Policy!Bound, Slots

(* What goes unnoticed is too short to reach either bound. *)
LEMMA InvBounds == IInv => DetectionBound /\ RecoveryBound
<1> SUFFICES ASSUME IInv PROVE DetectionBound /\ RecoveryBound
  OBVIOUS
<1>1. DetectionBound
  <2> SUFFICES ASSUME is_active, failure_ct <= BufferSize
               PROVE  ~(failure_count >= Policy!Bound(failure_ct))
    BY DEF DetectionBound, Policy!Reached
  <2>1. failure_count < Policy!Bound(failure_ct)
    BY BoundLemma, BoundsAssumption DEF IInv, TypeOK, UnnoticedInv
  <2>2. Policy!Bound(failure_ct) \in Int
    BY AtLeastOneType, BoundsAssumption DEF IInv, TypeOK, Policy!Bound
  <2> QED BY <2>1, <2>2 DEF IInv, TypeOK
<1>2. RecoveryBound
  <2> SUFFICES ASSUME ~is_active, success_ct <= BufferSize
               PROVE  ~(success_count >= Policy!Bound(success_ct))
    BY DEF RecoveryBound, Policy!Reached
  <2>1. success_count < Policy!Bound(success_ct)
    BY BoundLemma, BoundsAssumption DEF IInv, TypeOK, UnnoticedInv
  <2>2. Policy!Bound(success_ct) \in Int
    BY AtLeastOneType, BoundsAssumption DEF IInv, TypeOK, Policy!Bound
  <2> QED BY <2>1, <2>2 DEF IInv, TypeOK
<1> QED BY <1>1, <1>2

(* A long run of failures never goes unnoticed, wherever it starts in the  *)
(* ring.                                                                   *)
THEOREM DetectionTheorem == Spec => []DetectionBound
BY InvBounds, Invariance, PTL

(* A long run of successes always brings the interface back. *)
THEOREM RecoveryTheorem == Spec => []RecoveryBound
BY InvBounds, Invariance, PTL

(* An interface only fails after failure-count failures in a row. *)
THEOREM FailureTheorem == Spec => FailureNeedsStreak
<1>1. IInv /\ [Next]_vars =>
        [is_active /\ ~is_active' => failure_count' >= failure_ct]_vars
  BY FailureStep, SuccessStep, LoopStep DEF Next
<1> QED BY <1>1, Invariance, PTL DEF Spec, FailureNeedsStreak

(* The decision is told of every change, once. *)
THEOREM ReportTheorem == Spec => ReportsExactlyChanges
<1>1. IInv /\ [Next]_vars =>
        [phase = "apply" => /\ told' = StateName
                            /\ state_changed <=> told # StateName]_vars
  <2> SUFFICES ASSUME IInv, Next, phase = "apply"
               PROVE  /\ told' = StateName
                      /\ state_changed <=> told # StateName
    OBVIOUS
  <2>1. StateChanged
    BY DEF Next, PutFailure, PutSuccess, ResetStateChanged
  <2> QED BY <2>1 DEF IInv, TypeOK, ToldInv, StateChanged
<1> QED BY <1>1, Invariance, PTL DEF Spec, ReportsExactlyChanges

(* The ring with its faulty wrap implements the health policy. *)
THEOREM Refinement == Spec => ImplementsPolicy
<1>1. Init => Policy!Init
  BY BufferAssumption, BoundsAssumption DEF Init, Policy!Init
<1>2. IInv /\ IInv' /\ [Next]_vars => [Policy!Next]_Policy!policyVars
  <2> SUFFICES ASSUME IInv, IInv', [Next]_vars
               PROVE  [Policy!Next]_Policy!policyVars
    OBVIOUS
  <2>0. DetectionBound' /\ RecoveryBound'
    BY InvBounds, PTL
  <2>1. CASE PutFailure
    <3>1. /\ failure_count' = failure_count + 1
          /\ success_count' = 0
          /\ UNCHANGED <<success_ct, failure_ct>>
      BY <2>1 DEF PutFailure, Push
    <3>2. /\ is_active' \in {is_active, FALSE}
          /\ is_active # is_active' =>
                failure_count' >= failure_ct /\ failure_ct <= BufferSize
      BY <2>1, FailureStep, Zenon DEF IInv, TypeOK
    <3>3. Policy!Reached(failure_count', failure_ct) => ~is_active'
      BY <2>0, <3>1 DEF DetectionBound, Policy!Reached, Policy!Bound
    <3> QED BY <3>1, <3>2, <3>3 DEF Policy!Next, Policy!Fail
  <2>2. CASE PutSuccess
    <3>1. /\ success_count' = success_count + 1
          /\ failure_count' = 0
          /\ UNCHANGED <<success_ct, failure_ct>>
      BY <2>2 DEF PutSuccess, Push
    <3>2. /\ is_active' \in {is_active, TRUE}
          /\ is_active # is_active' => success_ct <= BufferSize
      BY <2>2, SuccessStep, Zenon DEF IInv, TypeOK
    <3>3. Policy!Reached(success_count', success_ct) => is_active'
      BY <2>0, <3>1 DEF RecoveryBound, Policy!Reached, Policy!Bound
    <3> QED BY <3>1, <3>2, <3>3 DEF Policy!Next, Policy!Succeed
  <2>3. CASE StateChanged \/ ResetStateChanged \/ UNCHANGED vars
    BY <2>3, LoopStep DEF Policy!policyVars
  <2> QED BY <2>1, <2>2, <2>3 DEF Next
<1> QED BY <1>1, <1>2, Invariance, PTL DEF Spec, ImplementsPolicy, Policy!Spec
=============================================================================
