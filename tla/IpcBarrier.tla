----------------------------- MODULE IpcBarrier -----------------------------
(***************************************************************************)
(* internal_sync of the IPC backend: the barrier under sync, barrier and   *)
(* the collectives, called again and again on one pSync array.  PE 0 of    *)
(* the team gathers arrivals, one flag per member (direct) or one counter  *)
(* (atomic, from 64 PEs on), takes them down, and releases the members     *)
(* through their own pSync[0].  PEs are numbered by their offset in the    *)
(* team; each load, store and atomic add on a pSync is one step.           *)
(***************************************************************************)
EXTENDS Integers, FiniteSets

CONSTANTS
  N,          \* PE_size
  MaxRounds   \* bound: barriers each PE calls

ASSUME TeamAssumption == N \in Nat \ {0} /\ MaxRounds \in Nat

PEs == 0 .. N - 1
Members == 1 .. N - 1

VARIABLES
  direct,   \* PE_size < 64; either is tried whatever N is
  pSync,    \* the array of each PE
  pc,       \* where each PE is
  i,        \* the loop variable of PE 0
  round     \* barriers each PE has entered

vars == <<direct, pSync, pc, i, round>>

Goto(p, from, to) == pc[p] = from /\ pc' = [pc EXCEPT ![p] = to]
Store(p, k, v) == pSync' = [pSync EXCEPT ![p] = [pSync[p] EXCEPT ![k] = v]]

(* ROCSHMEM_SYNC_VALUE is 0. *)
Init ==
  /\ direct \in BOOLEAN
  /\ pSync = [p \in PEs |-> [k \in PEs |-> 0]]
  /\ pc = [p \in PEs |-> "out"]
  /\ i = 1
  /\ round = [p \in PEs |-> 0]

Enter(p) ==
  /\ Goto(p, "out", IF p = 0 THEN "gather" ELSE "arrive")
  /\ round[p] < MaxRounds
  /\ round' = [round EXCEPT ![p] = round[p] + 1]
  /\ i' = IF p = 0 THEN 1 ELSE i
  /\ UNCHANGED <<direct, pSync>>

----------------------------------------------------------------------------
(* Members *)

(* Where a member's arrival goes in PE 0's array. *)
ArrivalAt(p) == IF direct THEN p ELSE 0

(* A put of 1, or amo_add of 1. *)
Arrive(p) ==
  /\ p \in Members /\ Goto(p, "arrive", "wait")
  /\ Store(0, ArrivalAt(p), IF direct THEN 1 ELSE pSync[0][0] + 1)
  /\ UNCHANGED <<direct, i, round>>

SeeRelease(p) ==
  /\ p \in Members /\ Goto(p, "wait", "clear") /\ pSync[p][0] = 1
  /\ UNCHANGED <<direct, pSync, i, round>>

(* Faulty variant: the release is left standing. *)
KeepRelease(p) ==
  /\ p \in Members /\ Goto(p, "clear", "out")
  /\ UNCHANGED <<direct, pSync, i, round>>

ClearRelease(p) ==
  /\ p \in Members /\ Goto(p, "clear", "out")
  /\ Store(p, 0, 0)
  /\ UNCHANGED <<direct, i, round>>

----------------------------------------------------------------------------
(* PE 0 *)

(* The wait for the next member, or for all of them. *)
SeeArrival ==
  /\ Goto(0, "gather", "reset")
  /\ IF direct THEN i < N /\ pSync[0][i] = 1 ELSE pSync[0][0] = N - 1
  /\ UNCHANGED <<direct, pSync, i, round>>

ResetArrival ==
  /\ Goto(0, "reset", IF direct THEN "gather" ELSE "release")
  /\ Store(0, IF direct THEN i ELSE 0, 0)
  /\ i' = IF direct THEN i + 1 ELSE 1
  /\ UNCHANGED <<direct, round>>

(* The direct loop has seen every member. *)
AllReached ==
  /\ Goto(0, "gather", "release") /\ direct /\ i = N
  /\ i' = 1
  /\ UNCHANGED <<direct, pSync, round>>

Announce ==
  /\ pc[0] = "release" /\ i < N
  /\ Store(i, 0, 1)
  /\ i' = i + 1
  /\ UNCHANGED <<direct, pc, round>>

(* Faulty variant: the last member is not released. *)
LeaveEarly ==
  /\ Goto(0, "release", "out") /\ i >= N - 1
  /\ UNCHANGED <<direct, pSync, i, round>>

Leave ==
  /\ Goto(0, "release", "out") /\ i = N
  /\ UNCHANGED <<direct, pSync, i, round>>

----------------------------------------------------------------------------
Step(p) ==
  \/ Arrive(p) \/ SeeRelease(p) \/ ClearRelease(p)
  \/ p = 0 /\ (SeeArrival \/ ResetArrival \/ AllReached \/ Announce \/ Leave)

(* wait_until *)
Spin(p) == pc[p] \in {"wait", "gather"} /\ UNCHANGED vars

Next == \E p \in PEs : Enter(p) \/ Step(p) \/ Spin(p)

Finished ==
  /\ \A p \in PEs : pc[p] = "out" /\ round[p] = MaxRounds
  /\ UNCHANGED vars

(* A work-group inside the barrier keeps running. *)
Fairness == \A p \in PEs : WF_vars(Step(p))

Spec == Init /\ [][Next \/ Finished]_vars
FairSpec == Spec /\ Fairness

----------------------------------------------------------------------------
(* Every variable keeps its type; the counter never passes the members. *)
TypeOK ==
  /\ direct \in BOOLEAN
  /\ pSync \in [PEs -> [PEs -> 0 .. N]]
  /\ pc \in [PEs -> {"out", "arrive", "wait", "clear", "gather", "reset", "release"}]
  /\ i \in 1 .. N
  /\ round \in [PEs -> 0 .. MaxRounds]

(* No signal of one round lands on one of an earlier round that has not *)
(* been taken down: a put never overwrites a flag somebody still needs. *)
FlagsFresh ==
  /\ \A p \in Members : direct /\ pc[p] = "arrive" => pSync[0][p] = 0
  /\ pc[0] = "release" /\ i < N => pSync[i][0] = 0

(* Both algorithms, over any number of rounds on one array, are a barrier: *)
(* nobody leaves before all are in; and when all are in, all leave. *)
Left == [p \in PEs |-> IF pc[p] = "out" THEN round[p] ELSE round[p] - 1]
Rounds == INSTANCE RoundBarrier WITH entered <- round, left <- Left
ImplementsBarrier == Rounds!Spec
EveryoneLeaves == Rounds!Fairness
=============================================================================
