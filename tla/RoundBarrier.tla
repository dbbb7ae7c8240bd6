---------------------------- MODULE RoundBarrier ----------------------------
(***************************************************************************)
(* What a barrier promises round after round: no PE leaves its n-th call   *)
(* before every PE has entered its n-th, and all leave once all are in.    *)
(***************************************************************************)
EXTENDS Naturals

CONSTANT PEs

VARIABLES entered, left

vars == <<entered, left>>

Init == entered = [p \in PEs |-> 0] /\ left = [p \in PEs |-> 0]

Enter(p) ==
  /\ entered[p] = left[p]
  /\ entered' = [entered EXCEPT ![p] = entered[p] + 1]
  /\ UNCHANGED left

Leave(p) ==
  /\ left[p] < entered[p]
  /\ \A q \in PEs : entered[p] <= entered[q]
  /\ left' = [left EXCEPT ![p] = entered[p]]
  /\ UNCHANGED entered

Next == \E p \in PEs : Enter(p) \/ Leave(p)

Spec == Init /\ [][Next]_vars

(* A PE need not enter; one that may leave does. *)
Fairness == \A p \in PEs : WF_vars(Leave(p))
=============================================================================
