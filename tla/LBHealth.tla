------------------------------ MODULE LBHealth ------------------------------
(***************************************************************************)
(* The health record of one interface: LBHealthHistory (the ring of the    *)
(* last results) and LBHealth::put (the hysteresis that turns results      *)
(* into ACTIVE / FAILED), driven once per cycle of the main loop, which    *)
(* then reads the state_changed flag and clears it.                        *)
(*                                                                         *)
(* A result is -1 (no answer) or a round trip time; push and put only ask  *)
(* whether it is -1, so every time is 0 here.  _index only occurs modulo   *)
(* _buffer_size: the variable index is that remainder, the next slot.      *)
(***************************************************************************)
EXTENDS Integers

CONSTANTS
    BufferSize,  \* LBHealthHistory::_buffer_size
    MaxThreshold, \* bound on success-count and failure-count, which may
                 \* exceed the ring
    MaxStreak    \* bound on runs of equal results explored

ASSUME BufferAssumption == BufferSize \in Nat \ {0}
ASSUME BoundsAssumption == MaxThreshold \in Nat /\ MaxStreak \in Nat

VARIABLES
    success_ct,     \* _success_ct, from the configuration
    failure_ct,     \* _failure_ct, from the configuration
    resp_data,      \* _hresults._resp_data
    index,          \* _hresults._index % _buffer_size
    failure_count,  \* _hresults._failure_count
    is_active,      \* _is_active
    state_changed,  \* _state_changed
    phase,          \* where the main loop is: "test", "apply" or "end"
    told,           \* the state last handed to the decision and the hook
    success_count   \* history: successes since the last failure

config  == <<success_ct, failure_ct>>
history == <<resp_data, index, failure_count, success_count>>
vars == <<success_ct, failure_ct, resp_data, index, failure_count,
          is_active, state_changed, phase, told, success_count>>

Rtts  == {-1, 0}
Slots == 0..(BufferSize - 1)

TypeOK ==
    /\ success_ct \in 0..MaxThreshold
    /\ failure_ct \in 0..MaxThreshold
    /\ resp_data \in [Slots -> Rtts]
    /\ index \in Slots
    /\ failure_count \in Nat
    /\ is_active \in BOOLEAN
    /\ state_changed \in BOOLEAN
    /\ phase \in {"test", "apply", "end"}
    /\ told \in {"NONE", "ACTIVE", "FAILED"}
    /\ success_count \in Nat

Init ==
    /\ success_ct \in 0..MaxThreshold
    /\ failure_ct \in 0..MaxThreshold
    /\ resp_data = [i \in Slots |-> 0]
    /\ index = 0
    /\ failure_count = 0
    /\ is_active = TRUE
    /\ state_changed = TRUE
    /\ phase = "test"
    /\ told = "NONE"
    /\ success_count = 0

-----------------------------------------------------------------------------
Same(r, rtt) == (r = -1) <=> (rtt = -1)

(* The c most recent slots of this lap of the ring, the newest being slot *)
(* s, all hold results like rtt.                                           *)
RunOf(resp, s, rtt, c) == \A i \in (s - c + 1)..s : Same(resp[i], rtt)

(* The scan if the word past the ring could be -1 too. *)
CountsBeyondFailures(resp, s, rtt) ==
    {c \in 1..BufferSize :
        \/ c <= s /\ RunOf(resp, s, rtt, c) /\ ~Same(resp[s - c], rtt)
        \/ c > s /\ RunOf(resp, s, rtt, s + 1)}

(***************************************************************************)
(* What push may return when the newest result is in slot s.  The scan     *)
(* goes down to slot 0 and should then continue at the top of the ring,    *)
(* but for index < 0 it computes _buffer_size - index, past the end of the *)
(* vector: first word _buffer_size + 1, then the words after it.  With the *)
(* ten 4-byte words of the build, word 11 belongs to the size field of the *)
(* next heap chunk, which is never -1; the words after it hold anything.   *)
(* So a run of failures always ends at slot 0, and a run of successes that *)
(* reaches slot 0 goes on for an arbitrary number of words.                *)
(***************************************************************************)
Counts(resp, s, rtt) ==
    {c \in 1..BufferSize :
        \/ c <= s /\ RunOf(resp, s, rtt, c) /\ ~Same(resp[s - c], rtt)
        \/ c = s + 1 /\ RunOf(resp, s, rtt, c)
           /\ (rtt = -1 \/ c = BufferSize)
        \/ c > s + 1 /\ RunOf(resp, s, rtt, s + 1) /\ rtt # -1}

(* The ring index without its wrap, and the thresholds off by one. *)
NextSlotUnwrapped(i) == i + 1
FailsEarly(ct)   == ct + 1 >= failure_ct
FailsLate(ct)    == ct > failure_ct
RecoversLate(ct) == ct > success_ct

NextSlot(i) == IF i = BufferSize - 1 THEN 0 ELSE i + 1

(* The comparisons of put. *)
Fails(ct)    == ct >= failure_ct
Recovers(ct) == ct >= success_ct

(* LBHealthHistory::push: record the result, return a count. *)
Push(rtt, ct) ==
    /\ resp_data' = [resp_data EXCEPT ![index] = rtt]
    /\ index' = NextSlot(index)
    /\ failure_count' = IF rtt = -1 THEN failure_count + 1 ELSE 0
    /\ success_count' = IF rtt = -1 THEN 0 ELSE success_count + 1
    /\ ct \in Counts(resp_data', index, rtt)

(* LBHealth::put for a missing answer. *)
PutFailure ==
    /\ phase = "test"
    /\ failure_count < MaxStreak
    /\ \E ct \in 1..BufferSize :
        /\ Push(-1, ct)
        /\ is_active' = (is_active /\ ~Fails(ct))
        /\ state_changed' = (state_changed \/ is_active # is_active')
    /\ phase' = "apply"
    /\ UNCHANGED <<success_ct, failure_ct, told>>

(* LBHealth::put for an answer. *)
PutSuccess ==
    /\ phase = "test"
    /\ success_count < MaxStreak
    /\ \E ct \in 1..BufferSize :
        /\ Push(0, ct)
        /\ is_active' = (is_active \/ Recovers(ct))
        /\ state_changed' = (state_changed \/ is_active # is_active')
    /\ phase' = "apply"
    /\ UNCHANGED <<success_ct, failure_ct, told>>

StateName == IF is_active THEN "ACTIVE" ELSE "FAILED"

(* LBData::state_changed, called once by LBDecision::run. *)
StateChanged ==
    /\ phase = "apply"
    /\ told' = IF state_changed THEN StateName ELSE told
    /\ phase' = "end"
    /\ UNCHANGED <<config, history, is_active, state_changed>>

(* A cycle that leaves the flag as it is. *)
KeepStateChanged ==
    /\ phase = "end"
    /\ phase' = "test"
    /\ UNCHANGED <<config, history, is_active, state_changed, told>>

(* LBData::reset_state_changed, called by LoadBalance::start_cycle. *)
ResetStateChanged ==
    /\ phase = "end"
    /\ state_changed' = FALSE
    /\ phase' = "test"
    /\ UNCHANGED <<config, history, is_active, told>>

Next == PutFailure \/ PutSuccess \/ StateChanged \/ ResetStateChanged

Spec == Init /\ [][Next]_vars

-----------------------------------------------------------------------------
(* The policy this record implements. *)
Policy == INSTANCE HealthPolicy WITH
    Memory <- BufferSize,
    successCt <- success_ct, failureCt <- failure_ct,
    failures <- failure_count, successes <- success_count,
    active <- is_active

(* Every behaviour of the record is one the policy allows, in particular   *)
(* the bounds below hold whatever the heap holds past the ring; and a      *)
(* threshold beyond the ring, which the parser accepts, is never reached:  *)
(* the interface then never fails, or never comes back.                    *)
ImplementsPolicy == Policy!Spec

(* LBHealth::put takes an active interface out of service only after       *)
(* failure-count failures in a row: no result of an earlier lap of the     *)
(* ring is ever counted into the run.                                      *)
FailureNeedsStreak ==
    [][is_active /\ ~is_active' => failure_count' >= failure_ct]_vars

(* The scan of push forgets the failures before the last wrap of the ring, *)
(* so a failure may be noticed late, but never later than after            *)
(* 2 * failure-count - 1 failures in a row.                                *)
DetectionBound ==
    Policy!Reached(failure_count, failure_ct) => ~is_active

(* A failed interface that answers again is back in service after at most  *)
(* 2 * success-count - 1 successes in a row.                               *)
RecoveryBound ==
    Policy!Reached(success_count, success_ct) => is_active

(* LBDecision::run is told of the state of an interface exactly when it    *)
(* differs from what it was told last: a flip is never lost to             *)
(* reset_state_changed, and a state is never announced twice.              *)
ReportsExactlyChanges ==
    [][phase = "apply" => /\ told' = StateName
                          /\ state_changed <=> told # StateName]_vars

(* What push's comments say (lbdata.cc:177 "compute count of sequence of   *)
(* same responses", lbdata.cc:183 "handle wrap around of index here"): a   *)
(* failed interface returns only after success-count successes in a row.   *)
RecoveryNeedsStreak ==
    [][~is_active /\ is_active' => success_count' >= success_ct]_vars
=============================================================================
