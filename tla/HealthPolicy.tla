---------------------------- MODULE HealthPolicy ----------------------------
(***************************************************************************)
(* What the health record of one interface promises the rest of wan_lb,    *)
(* whatever it does to keep the promise.  Only the true run of equal       *)
(* results at the end of the history counts:                               *)
(*   - an active interface fails only after failureCt failures in a row;   *)
(*   - it is certainly failed after 2 * failureCt - 1 of them;             *)
(*   - a failed interface is certainly active again after                  *)
(*     2 * successCt - 1 successes in a row;                               *)
(*   - a threshold beyond what the record remembers is never reached.      *)
(* The policy says nothing of how few successes may bring an interface     *)
(* back: LBHealth does not bound that from below.                          *)
(***************************************************************************)
EXTENDS Integers

CONSTANT Memory  \* how many results the record remembers

VARIABLES
    successCt,   \* configured success-count
    failureCt,   \* configured failure-count
    failures,    \* failures since the last success
    successes,   \* successes since the last failure
    active       \* may traffic be sent through the interface?

policyVars == <<successCt, failureCt, failures, successes, active>>

(* A count of 0 (the line is missing from the configuration) acts as 1. *)
AtLeastOne(n) == IF n < 1 THEN 1 ELSE n

(* The longest run of one result that can go unnoticed, plus one. *)
Bound(n) == 2 * AtLeastOne(n) - 1

(* A run of results after which the threshold n is certainly met. *)
Reached(streak, n) == n <= Memory /\ streak >= Bound(n)

Init ==
    /\ successCt \in Nat
    /\ failureCt \in Nat
    /\ failures = 0
    /\ successes = 0
    /\ active = TRUE

Fail ==
    /\ failures' = failures + 1
    /\ successes' = 0
    /\ active' \in {active, FALSE}
    /\ active # active' => failures' >= failureCt /\ failureCt <= Memory
    /\ Reached(failures', failureCt) => ~active'
    /\ UNCHANGED <<successCt, failureCt>>

Succeed ==
    /\ successes' = successes + 1
    /\ failures' = 0
    /\ active' \in {active, TRUE}
    /\ active # active' => successCt <= Memory
    /\ Reached(successes', successCt) => active'
    /\ UNCHANGED <<successCt, failureCt>>

Next == Fail \/ Succeed

Spec == Init /\ [][Next]_policyVars
=============================================================================
