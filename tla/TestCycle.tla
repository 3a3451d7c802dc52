----------------------------- MODULE TestCycle -----------------------------
(***************************************************************************)
(* What a cycle of health tests promises, whatever the network does and    *)
(* however the rounds interleave the interfaces: every interface tries its *)
(* tests one after the other until one succeeds, and gets one verdict,     *)
(* alive after a test that succeeded or failed after all of them failed.   *)
(***************************************************************************)
EXTENDS Integers

CONSTANT Ifaces

VARIABLES
    count,      \* the number of tests of every interface
    running,    \* is a cycle going on?
    left,       \* tests not tried yet
    verdict     \* "none", "alive" or "failed"

vars == <<count, running, left, verdict>>

Init ==
    /\ count \in [Ifaces -> Nat]
    /\ running = FALSE
    /\ left = count
    /\ verdict = [i \in Ifaces |-> "none"]

Begin ==
    /\ ~running /\ running'
    /\ left' = count
    /\ verdict' = [i \in Ifaces |-> "none"]
    /\ UNCHANGED count

(* The next test of an interface without a verdict. *)
Try(i) ==
    /\ running /\ verdict[i] = "none" /\ left[i] > 0
    /\ left' = [left EXCEPT ![i] = @ - 1]
    /\ UNCHANGED <<count, running>>

Fail(i)    == Try(i) /\ UNCHANGED verdict
Succeed(i) == Try(i) /\ verdict' = [verdict EXCEPT ![i] = "alive"]

GiveUp(i) ==
    /\ running /\ verdict[i] = "none" /\ left[i] = 0
    /\ verdict' = [verdict EXCEPT ![i] = "failed"]
    /\ UNCHANGED <<count, running, left>>

End ==
    /\ running /\ \A i \in Ifaces : verdict[i] # "none"
    /\ running' = FALSE
    /\ UNCHANGED <<count, left, verdict>>

Next ==
    \/ Begin \/ End
    \/ \E i \in Ifaces : Fail(i) \/ Succeed(i) \/ GiveUp(i)

Spec == Init /\ [][Next]_vars
=============================================================================
