-------------------------- MODULE IpcBarrierProofs --------------------------
(***************************************************************************)
(* The barriers of both backends are barriers for teams of any size and    *)
(* stride, by every algorithm and with any number of wavefronts, however   *)
(* often they are called on one array.  The argument follows the releases  *)
(* each member has been given: a member is finishing the round of its last *)
(* release, or is one round ahead of it and its arrival is either on PE    *)
(* 0's array or has been taken by PE 0.                                    *)
(***************************************************************************)
EXTENDS GdaBarrier, FiniteSetTheorems, TLAPS

(* The round of the last release PE 0 has given p. *)
Released(p) ==
  IF pc[0] = "out" \/ (pc[0] = "release" /\ p < i) THEN round[0] ELSE round[0] - 1

Finishing(p) ==
  /\ round[p] = Released(p)
  /\ \/ pc[p] \in {"wait", "clear"} /\ pSync[p][0] = 1
     \/ pc[p] = "out" /\ pSync[p][0] = 0

Ahead(p) ==
  /\ round[p] = Released(p) + 1
  /\ pc[p] \in {"arrive", "wait"} /\ pSync[p][0] = 0

Arrived(p) == Ahead(p) /\ pc[p] = "wait"

(* PE 0 has taken down p's arrival and not released p yet. *)
Taken(p) ==
  \/ direct /\ pc[0] \in {"gather", "reset"} /\ p < i
  \/ pc[0] = "release" /\ p >= i

(* The members whose arrival is on PE 0's array. *)
Announced == {p \in Members : Arrived(p) /\ ~Taken(p)}

MemberInv ==
  \A p \in Members : (Finishing(p) \/ Ahead(p)) /\ (Taken(p) => Arrived(p))

FlagInv ==
  direct => \A p \in Members : pSync[0][p] = IF p \in Announced THEN 1 ELSE 0

CountInv == ~direct => pSync[0][0] = Cardinality(Announced)

RootInv ==
  /\ pc[0] \in {"out", "gather", "reset", "release"}
  /\ pc[0] # "out" => round[0] > 0
  /\ pc[0] = "reset" =>
       IF direct THEN i < N /\ pSync[0][i] = 1 ELSE pSync[0][0] = N - 1

BarrierInv == TypeOK /\ MemberInv /\ FlagInv /\ CountInv /\ RootInv

----------------------------------------------------------------------------
(* A set of members has at most N - 1 elements, and N - 1 only if it holds *)
(* them all. *)
LEMMA MemberSets ==
  ASSUME NEW S \in SUBSET Members
  PROVE  /\ IsFiniteSet(S) /\ Cardinality(S) \in 0 .. N - 1
         /\ Cardinality(S) = N - 1 => S = Members
<1>1. 1 \in Int /\ N - 1 \in Int /\ N \in Nat \ {0}
  BY TeamAssumption
<1>2. IsFiniteSet(Members) /\ Cardinality(Members) = N - 1
  <2>1. 1 > N - 1 \/ (N - 1) - 1 + 1 = N - 1
    BY <1>1
  <2>2. CASE 1 > N - 1
    <3>1. Members = {} /\ N - 1 = 0
      BY <1>1, <2>2 DEF Members
    <3> QED
      BY <3>1, FS_EmptySet
  <2>3. CASE ~(1 > N - 1)
    BY <1>1, <2>3, FS_Interval DEF Members
  <2> QED
    BY <2>2, <2>3
<1>3. IsFiniteSet(S) /\ Cardinality(S) <= N - 1
      /\ (Cardinality(S) = N - 1 => S = Members)
  BY <1>2, FS_Subset
<1>4. Cardinality(S) \in Nat
  BY <1>3, FS_CardinalityType
<1> QED
  BY <1>1, <1>3, <1>4

(* Members are PEs, and PE 0 is none of them. *)
LEMMA PENumbers ==
  /\ N \in Nat \ {0} /\ 0 \in PEs
  /\ \A p \in Members : p \in PEs /\ p \in Nat /\ p >= 1 /\ p < N /\ p # 0
  /\ \A p \in PEs : p \in Nat /\ p < N /\ (p # 0 => p \in Members)
  BY TeamAssumption DEF PEs, Members

(* A value of i short of the end is a member. *)
LEMMA LoopVariable ==
  ASSUME TypeOK
  PROVE  i \in Nat /\ i >= 1 /\ (i < N => i \in Members /\ i \in PEs /\ i + 1 \in 1 .. N)
  BY TeamAssumption DEF TypeOK, Members, PEs

(* Nobody has called yet. *)
LEMMA InitBarrier == Init => BarrierInv
<1> SUFFICES ASSUME Init PROVE BarrierInv
  OBVIOUS
<1> USE PENumbers
<1>1. TypeOK
  BY TeamAssumption DEF Init, TypeOK
<1>2. \A p \in Members : Finishing(p) /\ ~Taken(p)
  BY DEF Init, Finishing, Taken, Released
<1>3. Announced = {}
  BY DEF Announced, Arrived, Init
<1>4. \A p \in Members : pSync[0][p] = 0
  BY DEF Init
<1>5. pSync[0][0] = Cardinality(Announced)
  BY <1>3, FS_EmptySet DEF Init
<1>6. RootInv
  BY DEF Init, RootInv
<1> QED
  BY <1>1, <1>2, <1>3, <1>4, <1>5, <1>6
  DEF BarrierInv, MemberInv, FlagInv, CountInv

(* A step that keeps every member where it is on its round, and PE 0's *)
(* array and the announced arrivals as they are, keeps the flags. *)
LEMMA SameFlags ==
  ASSUME FlagInv, CountInv, direct' = direct, Announced' = Announced,
         \A p \in PEs : pSync'[0][p] = pSync[0][p]
  PROVE  FlagInv' /\ CountInv'
  BY PENumbers DEF FlagInv, CountInv

(* PE 0 starts to gather; a member is one round ahead of its release. *)
LEMMA EnterBarrier ==
  ASSUME BarrierInv, NEW p \in PEs, Enter(p)
  PROVE  BarrierInv'
<1> USE PENumbers
<1>1. TypeOK'
  <2>1. round[p] + 1 \in 0 .. MaxRounds
    BY TeamAssumption DEF BarrierInv, TypeOK, Enter
  <2>2. round' \in [PEs -> 0 .. MaxRounds] /\ i' \in 1 .. N
    BY <2>1 DEF BarrierInv, TypeOK, Enter
  <2> QED
    BY <2>2 DEF BarrierInv, TypeOK, Enter, Goto
<1>2. ASSUME NEW q \in Members
      PROVE  Released(q)' = Released(q) /\ Taken(q)' = Taken(q)
  <2>1. CASE p = 0
    BY <2>1 DEF BarrierInv, TypeOK, Enter, Goto, Released, Taken
  <2>2. CASE p # 0
    BY <2>2 DEF BarrierInv, TypeOK, Enter, Goto, Released, Taken
  <2> QED
    BY <2>1, <2>2
<1>3. ASSUME NEW q \in Members
      PROVE  /\ (Finishing(q) \/ Ahead(q))'
             /\ Arrived(q)' = Arrived(q)
  <2>1. CASE q # p
    BY <1>2, <2>1
    DEF BarrierInv, TypeOK, MemberInv, Enter, Goto, Finishing, Ahead, Arrived
  <2>2. CASE q = p
    BY <1>2, <2>2
    DEF BarrierInv, TypeOK, MemberInv, Enter, Goto, Finishing, Ahead, Arrived
  <2> QED
    BY <2>1, <2>2
<1>4. MemberInv'
  BY <1>2, <1>3 DEF BarrierInv, MemberInv
<1>5. Announced' = Announced
  BY <1>2, <1>3 DEF Announced
<1>6. FlagInv' /\ CountInv'
  BY <1>5, SameFlags DEF BarrierInv, Enter
<1>7. RootInv'
  BY DEF BarrierInv, TypeOK, RootInv, Enter, Goto
<1> QED
  BY <1>1, <1>4, <1>6, <1>7 DEF BarrierInv

(* The member's arrival joins those on PE 0's array. *)
LEMMA ArriveBarrier ==
  ASSUME BarrierInv, NEW p \in PEs, Arrive(p)
  PROVE  BarrierInv'
<1> USE PENumbers
<1>1. p \in Members /\ pc[p] = "arrive" /\ pc' = [pc EXCEPT ![p] = "wait"]
      /\ direct' = direct /\ i' = i /\ round' = round /\ pc'[0] = pc[0]
  BY DEF Arrive, Goto, BarrierInv, TypeOK
<1>2. /\ ArrivalAt(p) \in PEs
      /\ pSync' \in [PEs -> [PEs -> Int]]
      /\ \A q \in PEs, k \in PEs : pSync'[q][k] =
           IF q = 0 /\ k = ArrivalAt(p)
           THEN IF direct THEN 1 ELSE pSync[0][0] + 1
           ELSE pSync[q][k]
  <2>1. ArrivalAt(p) \in PEs
    BY <1>1 DEF ArrivalAt
  <2>2. pSync \in [PEs -> [PEs -> Int]]
    BY DEF BarrierInv, TypeOK
  <2> QED
    BY <2>1, <2>2 DEF Arrive, Store
<1>3. ASSUME NEW q \in Members
      PROVE  /\ Released(q)' = Released(q) /\ Taken(q)' = Taken(q)
             /\ pSync'[q][0] = pSync[q][0]
  BY <1>1, <1>2 DEF Released, Taken
<1>4. Ahead(p) /\ ~Taken(p) /\ ~Arrived(p)
  BY <1>1 DEF BarrierInv, MemberInv, Finishing, Arrived
<1>5. ASSUME NEW q \in Members
      PROVE  /\ (Finishing(q) \/ Ahead(q))'
             /\ Arrived(q)' = (Arrived(q) \/ q = p)
  <2>1. CASE q # p
    BY <1>1, <1>3, <2>1
    DEF BarrierInv, TypeOK, MemberInv, Finishing, Ahead, Arrived
  <2>2. CASE q = p
    BY <1>1, <1>3, <1>4, <2>2 DEF BarrierInv, TypeOK, Ahead, Arrived
  <2> QED
    BY <2>1, <2>2
<1>6. MemberInv'
  BY <1>3, <1>4, <1>5 DEF BarrierInv, MemberInv
<1>7. Announced' = Announced \cup {p} /\ p \notin Announced
  BY <1>1, <1>3, <1>4, <1>5 DEF Announced
<1>8. FlagInv'
  BY <1>1, <1>2, <1>7 DEF BarrierInv, FlagInv, ArrivalAt
<1>9. Announced \in SUBSET Members /\ Announced' \in SUBSET Members
  BY <1>1, <1>7 DEF Announced
<1>10. Cardinality(Announced') = Cardinality(Announced) + 1
  BY <1>7, <1>9, MemberSets, FS_AddElement
<1>11. CountInv'
  BY <1>1, <1>2, <1>10 DEF BarrierInv, CountInv, ArrivalAt
<1>12. Cardinality(Announced) + 1 \in 0 .. N
  BY <1>9, <1>10, MemberSets
<1>13. TypeOK'
  <2>1. ASSUME NEW q \in PEs, NEW k \in PEs PROVE pSync'[q][k] \in 0 .. N
    BY <1>2, <1>12 DEF BarrierInv, TypeOK, CountInv
  <2>2. pSync' \in [PEs -> [PEs -> 0 .. N]]
    BY <1>2, <2>1
  <2> QED
    BY <1>1, <2>2 DEF BarrierInv, TypeOK
<1>14. RootInv'
  <2>1. CASE pc[0] # "reset"
    BY <1>1, <2>1 DEF BarrierInv, RootInv
  <2>2. CASE pc[0] = "reset" /\ direct
    <3>1. i \in PEs /\ i < N /\ pSync[0][i] = 1
      BY <2>2, LoopVariable DEF BarrierInv, RootInv
    <3>2. pSync'[0][i] = 1
      BY <1>2, <2>2, <3>1 DEF ArrivalAt
    <3> QED
      BY <1>1, <2>2, <3>1, <3>2 DEF BarrierInv, RootInv
  <2>3. CASE pc[0] = "reset" /\ ~direct
    <3>1. Announced = Members
      BY <1>9, <2>3, MemberSets DEF BarrierInv, RootInv, CountInv
    <3> QED
      BY <1>1, <1>7, <3>1
  <2> QED
    BY <2>1, <2>2, <2>3
<1> QED
  BY <1>6, <1>8, <1>11, <1>13, <1>14 DEF BarrierInv

(* Only a finishing member sees its release. *)
LEMMA SeeReleaseBarrier ==
  ASSUME BarrierInv, NEW p \in PEs, SeeRelease(p)
  PROVE  BarrierInv'
<1> USE PENumbers
<1>1. p \in Members /\ pc[p] = "wait" /\ pc' = [pc EXCEPT ![p] = "clear"]
      /\ direct' = direct /\ i' = i /\ round' = round /\ pSync' = pSync
      /\ pSync[p][0] = 1 /\ pc'[0] = pc[0]
  BY DEF SeeRelease, Goto, BarrierInv, TypeOK
<1>2. TypeOK'
  BY <1>1 DEF BarrierInv, TypeOK
<1>3. ASSUME NEW q \in Members
      PROVE  Released(q)' = Released(q) /\ Taken(q)' = Taken(q)
  BY <1>1 DEF Released, Taken
<1>4. Finishing(p) /\ ~Ahead(p)
  BY <1>1 DEF BarrierInv, MemberInv, Ahead
<1>5. ASSUME NEW q \in Members
      PROVE  (Finishing(q) \/ Ahead(q))' /\ Arrived(q)' = Arrived(q)
  <2>1. CASE q # p
    BY <1>1, <1>3, <2>1
    DEF BarrierInv, TypeOK, MemberInv, Finishing, Ahead, Arrived
  <2>2. CASE q = p
    BY <1>1, <1>3, <1>4, <2>2 DEF BarrierInv, TypeOK, Finishing, Ahead, Arrived
  <2> QED
    BY <2>1, <2>2
<1>6. MemberInv'
  BY <1>3, <1>5 DEF BarrierInv, MemberInv
<1>7. Announced' = Announced
  BY <1>3, <1>5 DEF Announced
<1>8. FlagInv' /\ CountInv'
  BY <1>1, <1>7, SameFlags DEF BarrierInv
<1>9. RootInv'
  BY <1>1 DEF BarrierInv, RootInv
<1> QED
  BY <1>2, <1>6, <1>8, <1>9 DEF BarrierInv

(* The release is taken down: the member is out with its flag down. *)
LEMMA ClearReleaseBarrier ==
  ASSUME BarrierInv, NEW p \in PEs, ClearRelease(p)
  PROVE  BarrierInv'
<1> USE PENumbers
<1>1. p \in Members /\ pc[p] = "clear" /\ pc' = [pc EXCEPT ![p] = "out"]
      /\ direct' = direct /\ i' = i /\ round' = round /\ pc'[0] = pc[0]
  BY DEF ClearRelease, Goto, BarrierInv, TypeOK
<1>2. \A q, k \in PEs :
        pSync'[q][k] = IF q = p /\ k = 0 THEN 0 ELSE pSync[q][k]
  BY DEF ClearRelease, Store, BarrierInv, TypeOK
<1>3. TypeOK'
  BY <1>1 DEF BarrierInv, TypeOK, ClearRelease, Store
<1>4. ASSUME NEW q \in Members
      PROVE  Released(q)' = Released(q) /\ Taken(q)' = Taken(q)
  BY <1>1 DEF Released, Taken
<1>5. Finishing(p) /\ ~Ahead(p)
  BY <1>1 DEF BarrierInv, MemberInv, Ahead
<1>6. ASSUME NEW q \in Members
      PROVE  (Finishing(q) \/ Ahead(q))' /\ Arrived(q)' = Arrived(q)
  <2>1. CASE q # p
    BY <1>1, <1>2, <1>4, <2>1
    DEF BarrierInv, TypeOK, MemberInv, Finishing, Ahead, Arrived
  <2>2. CASE q = p
    BY <1>1, <1>2, <1>4, <1>5, <2>2
    DEF BarrierInv, TypeOK, Finishing, Ahead, Arrived
  <2> QED
    BY <2>1, <2>2
<1>7. MemberInv'
  BY <1>4, <1>6 DEF BarrierInv, MemberInv
<1>8. Announced' = Announced
  BY <1>4, <1>6 DEF Announced
<1>9. FlagInv' /\ CountInv'
  BY <1>1, <1>2, <1>8, SameFlags DEF BarrierInv
<1>10. RootInv'
  BY <1>1, <1>2, LoopVariable DEF BarrierInv, RootInv
<1> QED
  BY <1>3, <1>7, <1>9, <1>10 DEF BarrierInv

(* PE 0 has seen a flag, or all of the count; nothing moves yet. *)
LEMMA SeeArrivalBarrier ==
  ASSUME BarrierInv, SeeArrival
  PROVE  BarrierInv'
<1> USE PENumbers
<1>1. pc[0] = "gather" /\ pc' = [pc EXCEPT ![0] = "reset"]
      /\ direct' = direct /\ i' = i /\ round' = round /\ pSync' = pSync
      /\ pc'[0] = "reset" /\ (\A q \in Members : pc'[q] = pc[q])
  BY DEF SeeArrival, Goto, BarrierInv, TypeOK
<1>2. TypeOK'
  BY <1>1 DEF BarrierInv, TypeOK
<1>3. ASSUME NEW q \in Members
      PROVE  Released(q)' = Released(q) /\ Taken(q)' = Taken(q)
  BY <1>1 DEF Released, Taken
<1>4. ASSUME NEW q \in Members
      PROVE  (Finishing(q) \/ Ahead(q))' /\ Arrived(q)' = Arrived(q)
  BY <1>1, <1>3 DEF BarrierInv, MemberInv, Finishing, Ahead, Arrived
<1>5. MemberInv' /\ Announced' = Announced
  BY <1>3, <1>4 DEF BarrierInv, MemberInv, Announced
<1>6. FlagInv' /\ CountInv'
  BY <1>1, <1>5, SameFlags DEF BarrierInv
<1>7. RootInv'
  BY <1>1 DEF BarrierInv, RootInv, SeeArrival
<1> QED
  BY <1>2, <1>5, <1>6, <1>7 DEF BarrierInv

(* PE 0 takes the next arrival, or all of them, off its array. *)
LEMMA ResetArrivalBarrier ==
  ASSUME BarrierInv, ResetArrival
  PROVE  BarrierInv'
<1> USE PENumbers
<1>1. pc[0] = "reset" /\ direct' = direct /\ round' = round
      /\ pc'[0] = (IF direct THEN "gather" ELSE "release")
      /\ (\A q \in Members : pc'[q] = pc[q])
      /\ i' = (IF direct THEN i + 1 ELSE 1)
  BY DEF ResetArrival, Goto, BarrierInv, TypeOK
<1>2. direct => i \in Members /\ i \in PEs /\ pSync[0][i] = 1
  BY <1>1, LoopVariable DEF BarrierInv, RootInv
<1>3. \A q, k \in PEs : pSync'[q][k] =
        IF q = 0 /\ k = (IF direct THEN i ELSE 0) THEN 0 ELSE pSync[q][k]
  BY <1>2 DEF ResetArrival, Store, BarrierInv, TypeOK
<1>4. TypeOK'
  <2>1. pSync' \in [PEs -> [PEs -> 0 .. N]]
    BY <1>2 DEF ResetArrival, Store, BarrierInv, TypeOK
  <2>2. i' \in 1 .. N
    BY <1>1, <1>2, LoopVariable DEF BarrierInv
  <2>3. pc' \in [PEs -> {"out", "arrive", "wait", "clear", "gather", "reset",
                         "release"}]
    BY DEF ResetArrival, Goto, BarrierInv, TypeOK
  <2> QED
    BY <1>1, <2>1, <2>2, <2>3 DEF BarrierInv, TypeOK
<1>5. ASSUME NEW q \in Members
      PROVE  Released(q)' = Released(q) /\ pSync'[q][0] = pSync[q][0]
  BY <1>1, <1>3 DEF Released
<1>6. ASSUME NEW q \in Members
      PROVE  (Finishing(q) \/ Ahead(q))' /\ Arrived(q)' = Arrived(q)
  BY <1>1, <1>5 DEF BarrierInv, MemberInv, Finishing, Ahead, Arrived
<1>7. CASE direct
  <2>1. i \in Members /\ i \in PEs /\ pSync[0][i] = 1 /\ i \in Nat
    BY <1>2, <1>7
  <2>2. i \in Announced
    BY <1>7, <2>1 DEF BarrierInv, FlagInv
  <2>3. ASSUME NEW q \in Members PROVE Taken(q)' <=> Taken(q) \/ q = i
    <3>1. Taken(q) <=> q < i
      BY <1>1, <1>7 DEF Taken
    <3>2. Taken(q)' <=> q < i + 1
      BY <1>1, <1>7 DEF Taken
    <3> QED
      BY <2>1, <3>1, <3>2
  <2>4. MemberInv'
    BY <1>6, <2>2, <2>3 DEF BarrierInv, MemberInv, Announced
  <2>5. Announced' = Announced \ {i}
    BY <1>6, <2>3 DEF Announced
  <2>6. FlagInv'
    BY <1>1, <1>3, <1>7, <2>1, <2>5 DEF BarrierInv, FlagInv
  <2>7. CountInv' /\ RootInv'
    BY <1>1, <1>7 DEF BarrierInv, CountInv, RootInv
  <2> QED
    BY <1>4, <2>4, <2>6, <2>7 DEF BarrierInv
<1>8. CASE ~direct
  <2>1. Announced \in SUBSET Members /\ Cardinality(Announced) = N - 1
    BY <1>1, <1>8 DEF BarrierInv, RootInv, CountInv, Announced
  <2>2. Announced = Members
    BY <2>1, MemberSets
  <2>3. ASSUME NEW q \in Members PROVE Arrived(q) /\ Taken(q)'
    BY <1>1, <1>8, <2>2 DEF Announced, Taken
  <2>4. MemberInv'
    BY <1>6, <2>3 DEF MemberInv
  <2>5. Announced' = {}
    BY <2>3 DEF Announced
  <2>6. FlagInv' /\ CountInv' /\ RootInv'
    BY <1>1, <1>3, <1>8, <2>5, FS_EmptySet
    DEF BarrierInv, FlagInv, CountInv, RootInv
  <2> QED
    BY <1>4, <2>4, <2>6 DEF BarrierInv
<1> QED
  BY <1>7, <1>8

(* The last arrival is taken: from here on i counts releases. *)
LEMMA AllReachedBarrier ==
  ASSUME BarrierInv, AllReached
  PROVE  BarrierInv'
<1> USE PENumbers
<1>1. pc[0] = "gather" /\ direct /\ i = N /\ i' = 1 /\ pc'[0] = "release"
      /\ direct' = direct /\ round' = round /\ pSync' = pSync
      /\ (\A q \in Members : pc'[q] = pc[q])
  BY DEF AllReached, Goto, BarrierInv, TypeOK
<1>2. TypeOK'
  <2>1. i' \in 1 .. N
    BY <1>1
  <2> QED
    BY <1>1, <2>1 DEF AllReached, Goto, BarrierInv, TypeOK
<1>3. ASSUME NEW q \in Members
      PROVE  Released(q)' = Released(q) /\ Taken(q) /\ Taken(q)'
  BY <1>1 DEF Released, Taken
<1>4. ASSUME NEW q \in Members
      PROVE  (Finishing(q) \/ Ahead(q))' /\ Arrived(q)' = Arrived(q)
  BY <1>1, <1>3 DEF BarrierInv, MemberInv, Finishing, Ahead, Arrived
<1>5. MemberInv' /\ Announced' = Announced
  BY <1>3, <1>4 DEF BarrierInv, MemberInv, Announced
<1>6. FlagInv' /\ CountInv'
  BY <1>1, <1>5, SameFlags DEF BarrierInv
<1>7. RootInv'
  BY <1>1 DEF BarrierInv, RootInv
<1> QED
  BY <1>2, <1>5, <1>6, <1>7 DEF BarrierInv

(* The next member is released: it now finishes the round. *)
LEMMA AnnounceBarrier ==
  ASSUME BarrierInv, Announce
  PROVE  BarrierInv'
<1> USE PENumbers
<1>1. pc[0] = "release" /\ i < N /\ i' = i + 1 /\ pc' = pc
      /\ direct' = direct /\ round' = round
      /\ i \in Members /\ i \in PEs /\ i \in Nat
  BY LoopVariable DEF Announce, BarrierInv
<1> PICK m \in Members : m = i
  BY <1>1
<1>2. \A q, k \in PEs :
        pSync'[q][k] = IF q = m /\ k = 0 THEN 1 ELSE pSync[q][k]
  BY <1>1 DEF Announce, Store, BarrierInv, TypeOK
<1>3. TypeOK'
  <2>1. pSync' \in [PEs -> [PEs -> 0 .. N]]
    BY <1>1 DEF Announce, Store, BarrierInv, TypeOK
  <2>2. i' \in 1 .. N
    BY <1>1 DEF Members
  <2> QED
    BY <1>1, <2>1, <2>2 DEF BarrierInv, TypeOK
<1>4. Arrived(m) /\ Taken(m) /\ Released(m) = round[0] - 1
      /\ Released(m)' = round[0] /\ ~Taken(m)'
  BY <1>1 DEF BarrierInv, MemberInv, Taken, Released
<1>5. Finishing(m)' /\ ~Arrived(m)'
  <2>1. round[m] = round[0] /\ pc[m] = "wait" /\ pSync'[m][0] = 1
    BY <1>1, <1>2, <1>4 DEF Arrived, Ahead, BarrierInv, TypeOK
  <2> QED
    BY <1>1, <1>4, <2>1 DEF Finishing, Arrived, Ahead
<1>6. ASSUME NEW q \in Members, q # m
      PROVE  /\ Released(q)' = Released(q) /\ Taken(q)' = Taken(q)
             /\ (Finishing(q) \/ Ahead(q))' /\ Arrived(q)' = Arrived(q)
  <2>1. Released(q)' = Released(q) /\ Taken(q)' = Taken(q)
    BY <1>1, <1>6 DEF Released, Taken
  <2> QED
    BY <1>1, <1>2, <1>6, <2>1
    DEF BarrierInv, MemberInv, Finishing, Ahead, Arrived
<1>7. MemberInv'
  BY <1>4, <1>5, <1>6 DEF BarrierInv, MemberInv
<1>8. Announced' = Announced
  BY <1>4, <1>5, <1>6 DEF Announced
<1>9. FlagInv' /\ CountInv'
  BY <1>1, <1>2, <1>8, SameFlags DEF BarrierInv
<1>10. RootInv'
  BY <1>1 DEF BarrierInv, RootInv
<1> QED
  BY <1>3, <1>7, <1>9, <1>10 DEF BarrierInv

(* Everyone has been released, so PE 0 is out. *)
LEMMA LeaveBarrier ==
  ASSUME BarrierInv, Leave
  PROVE  BarrierInv'
<1> USE PENumbers
<1>1. pc[0] = "release" /\ i = N /\ pc'[0] = "out"
      /\ direct' = direct /\ round' = round /\ pSync' = pSync /\ i' = i
      /\ (\A q \in Members : pc'[q] = pc[q])
  BY DEF Leave, Goto, BarrierInv, TypeOK
<1>2. TypeOK'
  BY <1>1 DEF Leave, Goto, BarrierInv, TypeOK
<1>3. ASSUME NEW q \in Members
      PROVE  Released(q)' = Released(q) /\ Taken(q)' = Taken(q)
  BY <1>1 DEF Released, Taken
<1>4. ASSUME NEW q \in Members
      PROVE  (Finishing(q) \/ Ahead(q))' /\ Arrived(q)' = Arrived(q)
  BY <1>1, <1>3 DEF BarrierInv, MemberInv, Finishing, Ahead, Arrived
<1>5. MemberInv' /\ Announced' = Announced
  BY <1>3, <1>4 DEF BarrierInv, MemberInv, Announced
<1>6. FlagInv' /\ CountInv'
  BY <1>1, <1>5, SameFlags DEF BarrierInv
<1>7. RootInv'
  BY <1>1 DEF BarrierInv, RootInv
<1> QED
  BY <1>2, <1>5, <1>6, <1>7 DEF BarrierInv

(* Every step keeps the invariant. *)
LEMMA NextBarrier == BarrierInv /\ [Next \/ Finished]_vars => BarrierInv'
<1> SUFFICES ASSUME BarrierInv, [Next \/ Finished]_vars PROVE BarrierInv'
  OBVIOUS
<1>1. ASSUME NEW p \in PEs, Enter(p) PROVE BarrierInv'
  BY <1>1, EnterBarrier
<1>2. ASSUME NEW p \in PEs, Step(p) PROVE BarrierInv'
  BY <1>2, ArriveBarrier, SeeReleaseBarrier, ClearReleaseBarrier,
     SeeArrivalBarrier, ResetArrivalBarrier, AllReachedBarrier,
     AnnounceBarrier, LeaveBarrier DEF Step
<1>3. CASE UNCHANGED vars
  <2>1. /\ direct' = direct /\ pSync' = pSync /\ pc' = pc /\ i' = i
        /\ round' = round
    BY <1>3 DEF vars
  <2>2. ASSUME NEW q \in Members
        PROVE  /\ Finishing(q)' = Finishing(q) /\ Ahead(q)' = Ahead(q)
               /\ Arrived(q)' = Arrived(q) /\ Taken(q)' = Taken(q)
    BY <2>1 DEF Finishing, Ahead, Arrived, Taken, Released
  <2>3. MemberInv' /\ Announced' = Announced
    BY <2>2 DEF BarrierInv, MemberInv, Announced
  <2>4. FlagInv' /\ CountInv'
    BY <2>1, <2>3, SameFlags DEF BarrierInv
  <2>5. TypeOK' /\ RootInv'
    BY <2>1 DEF BarrierInv, TypeOK, RootInv
  <2> QED
    BY <2>3, <2>4, <2>5 DEF BarrierInv
<1> QED
  BY <1>1, <1>2, <1>3 DEF Next, Spin, Finished

(* The strengthened invariant holds throughout. *)
THEOREM BarrierInvariant == Spec => []BarrierInv
<1> QED
  BY InitBarrier, NextBarrier, PTL DEF Spec

(* Every variable keeps its type: in particular the arrival counter never *)
(* counts more PEs than there are. *)
THEOREM BarrierTypes == Spec => []TypeOK
<1>1. BarrierInv => TypeOK
  BY DEF BarrierInv
<1> QED
  BY <1>1, BarrierInvariant, PTL

(* A flag about to be put is down. *)
LEMMA FreshFlags == BarrierInv => FlagsFresh
<1> SUFFICES ASSUME BarrierInv PROVE FlagsFresh
  OBVIOUS
<1>1. ASSUME NEW p \in Members, direct, pc[p] = "arrive"
      PROVE  pSync[0][p] = 0
  BY <1>1 DEF BarrierInv, FlagInv, Announced, Arrived
<1>2. ASSUME pc[0] = "release", i < N
      PROVE  pSync[i][0] = 0
  <2>1. i \in Members /\ i >= i
    BY <1>2, LoopVariable DEF BarrierInv
  <2>2. Arrived(i)
    BY <1>2, <2>1 DEF BarrierInv, MemberInv, Taken
  <2> QED
    BY <2>2 DEF Arrived, Ahead
<1> QED
  BY <1>1, <1>2 DEF FlagsFresh

(* A PE that puts a flag finds the flag of the round before taken down. *)
THEOREM FlagsAreFresh == Spec => []FlagsFresh
<1> QED
  BY FreshFlags, BarrierInvariant, PTL

----------------------------------------------------------------------------
(* Refinement.                                                             *)

(* A PE that is about to leave finds every PE in its round or later. *)
LEMMA EveryoneIn ==
  ASSUME BarrierInv, NEW p \in PEs,
         \/ p \in Members /\ pc[p] = "clear"
         \/ p = 0 /\ pc[0] = "release" /\ i = N
  PROVE  \A q \in PEs : round[p] <= round[q]
<1> USE PENumbers
<1>1. \A q \in PEs : round[q] \in Int
  BY DEF BarrierInv, TypeOK
<1>2. i \in Nat
  BY LoopVariable DEF BarrierInv
<1>3. \A q \in Members :
        /\ Released(q) \in Int /\ round[q] >= Released(q)
        /\ Released(q) >= round[0] - 1 /\ Released(q) <= round[0]
  BY <1>1 DEF BarrierInv, MemberInv, Finishing, Ahead, Released
<1>4. \A q \in Members : Taken(q) => round[q] = Released(q) + 1
  BY DEF BarrierInv, MemberInv, Arrived, Ahead
<1>5. CASE p = 0 /\ pc[0] = "release" /\ i = N
  <2>1. \A q \in Members : Released(q) = round[0]
    BY <1>5 DEF Released
  <2> QED
    BY <1>1, <1>3, <1>5, <2>1
<1>6. CASE p \in Members /\ pc[p] = "clear"
  <2>1. round[p] = Released(p)
    BY <1>6 DEF BarrierInv, MemberInv, Finishing, Ahead
  <2>2. ASSUME NEW q \in Members PROVE round[p] <= round[q]
    <3>1. CASE Released(p) = round[0] - 1
      BY <1>1, <1>3, <1>6, <2>1, <3>1
    <3>2. CASE Released(q) = round[0]
      BY <1>1, <1>3, <1>6, <2>1, <3>2
    <3>3. CASE Released(p) # round[0] - 1 /\ Released(q) # round[0]
      <4>1. pc[0] = "release" /\ q >= i
        BY <1>1, <1>2, <3>3 DEF Released
      <4>2. round[q] = Released(q) + 1 /\ Released(q) = round[0] - 1
        BY <1>4, <3>3, <4>1 DEF Taken, Released
      <4> QED
        BY <1>1, <1>3, <1>6, <2>1, <4>2
    <3> QED
      BY <3>1, <3>2, <3>3
  <2>3. round[p] <= round[0]
    BY <1>3, <1>6, <2>1
  <2> QED
    BY <1>1, <2>2, <2>3
<1> QED
  BY <1>5, <1>6

(* Nobody has entered. *)
LEMMA InitRefines == Init => Rounds!Init
  BY DEF Init, Rounds!Init, Left

(* A step that enters enters, one that ends a call leaves, and the others *)
(* are invisible. *)
LEMMA StepRefines ==
  BarrierInv /\ [Next \/ Finished]_vars => [Rounds!Next]_(Rounds!vars)
<1> SUFFICES ASSUME BarrierInv, [Next \/ Finished]_vars
             PROVE  [Rounds!Next]_(Rounds!vars)
  OBVIOUS
<1> USE PENumbers
<1>1. /\ pc \in [PEs -> {"out", "arrive", "wait", "clear", "gather", "reset",
                         "release"}]
      /\ round \in [PEs -> 0 .. MaxRounds]
  BY DEF BarrierInv, TypeOK
<1>2. \A p \in PEs : round[p] \in Int
  BY <1>1
<1>3. ASSUME NEW p \in PEs, Enter(p) PROVE Rounds!Enter(p)
  <2>1. pc[p] = "out" /\ pc'[p] # "out" /\ round'[p] = round[p] + 1
        /\ \A q \in PEs : q # p => pc'[q] = pc[q] /\ round'[q] = round[q]
    BY <1>1, <1>3 DEF Enter, Goto
  <2>2. round' = [round EXCEPT ![p] = round[p] + 1]
    BY <1>3 DEF Enter
  <2>3. \A q \in PEs : (IF pc'[q] = "out" THEN round'[q] ELSE round'[q] - 1)
                         = (IF pc[q] = "out" THEN round[q] ELSE round[q] - 1)
    BY <1>2, <2>1
  <2> QED
    BY <2>1, <2>2, <2>3 DEF Rounds!Enter, Left
<1>4. ASSUME NEW p \in PEs, pc[p] # "out", pc' = [pc EXCEPT ![p] = "out"],
             round' = round, \A q \in PEs : round[p] <= round[q]
      PROVE  Rounds!Leave(p)
  <2>1. Left[p] < round[p]
    BY <1>2, <1>4 DEF Left
  <2>2. Left' = [Left EXCEPT ![p] = round[p]]
    BY <1>1, <1>4 DEF Left
  <2> QED
    BY <1>4, <2>1, <2>2 DEF Rounds!Leave
<1>5. ASSUME round' = round,
             \A q \in PEs : pc'[q] = "out" <=> pc[q] = "out"
      PROVE  UNCHANGED Rounds!vars
  BY <1>5 DEF Rounds!vars, Left
<1>6. ASSUME NEW p \in PEs, Step(p) PROVE [Rounds!Next]_(Rounds!vars)
  <2>1. CASE Arrive(p) \/ SeeRelease(p)
    BY <1>1, <1>5, <2>1 DEF Arrive, SeeRelease, Goto
  <2>2. CASE SeeArrival \/ ResetArrival \/ AllReached \/ Announce
    BY <1>1, <1>5, <2>2 DEF SeeArrival, ResetArrival, AllReached, Announce, Goto
  <2>3. CASE ClearRelease(p)
    <3>1. p \in Members /\ pc[p] = "clear" /\ round' = round
          /\ pc' = [pc EXCEPT ![p] = "out"]
      BY <2>3 DEF ClearRelease, Goto
    <3>2. Rounds!Leave(p)
      BY <1>4, <3>1, EveryoneIn
    <3> QED
      BY <3>2 DEF Rounds!Next
  <2>4. CASE Leave
    <3>1. pc[0] = "release" /\ i = N /\ round' = round
          /\ pc' = [pc EXCEPT ![0] = "out"]
      BY <2>4 DEF Leave, Goto
    <3>2. Rounds!Leave(0)
      BY <1>4, <3>1, EveryoneIn
    <3> QED
      BY <3>2 DEF Rounds!Next
  <2> QED
    BY <1>6, <2>1, <2>2, <2>3, <2>4 DEF Step
<1>7. CASE UNCHANGED vars
  BY <1>5, <1>7 DEF vars
<1> QED
  BY <1>3, <1>6, <1>7 DEF Next, Rounds!Next, Spin, Finished

(* Nobody leaves its n-th barrier before everybody has entered the n-th. *)
THEOREM IsBarrier == Spec => ImplementsBarrier
<1> QED
  BY InitRefines, StepRefines, BarrierInvariant, PTL
  DEF Spec, ImplementsBarrier, Rounds!Spec

----------------------------------------------------------------------------
(* The GDA forms.  The same argument, with three differences.  A release   *)
(* may be on its way: then the member is in its wait with its flag down,   *)
(* and nothing else is on its way to it.  An arrival may be lost, and a    *)
(* release may carry a wrong value or go to nobody: then the member waits  *)
(* on, and PE 0 never counts it again, so nobody leaves too early.  And in *)
(* the work-group form the wavefronts share the members: the shares are    *)
(* disjoint, cover them all, and no two releases of a round go to the same *)
(* PE whatever the stride of the team.                                     *)

(* Division with remainder. *)
LEMMA Division ==
  ASSUME NEW a \in Nat, NEW b \in Nat \ {0}
  PROVE  \E m \in Nat, r \in 0 .. b - 1 : a = m * b + r /\ m = a \div b /\ r = a % b
<1>1. a \div b \in Nat /\ a % b \in 0 .. b - 1
  OBVIOUS
<1> PICK m \in Nat, r \in 0 .. b - 1 : m = a \div b /\ r = a % b
  BY <1>1
<1>2. r = a - b * m
  OBVIOUS
<1>3. b * m = m * b /\ m * b \in Nat
  OBVIOUS
<1>4. a = m * b + r
  BY <1>2, <1>3
<1> QED
  BY <1>4

(* Different multiples are one unit apart or more. *)
LEMMA Multiples ==
  ASSUME NEW m \in Nat, NEW n \in Nat, NEW b \in Nat \ {0}, m > n
  PROVE  m * b >= n * b + b
<1>1. PICK d \in Nat : m = n + 1 + d
  <2>1. m - n - 1 \in Nat /\ m = n + 1 + (m - n - 1)
    OBVIOUS
  <2> QED
    BY <2>1
<1>2. m * b = n * b + b + d * b
  BY <1>1
<1>3. d * b \in Nat /\ n * b \in Nat
  OBVIOUS
<1> QED
  BY <1>2, <1>3

(* The members a wavefront of PE 0 takes and releases. *)
Share(w) == {p \in Nat : \E k \in Nat : p = FirstOf(w) + k * NumWaves}

(* Where the wavefronts start. *)
LEMMA WaveTypes ==
  /\ NumWaves \in Nat \ {0} /\ Stride \in Nat \ {0} /\ N \in Nat \ {0}
  /\ \A w \in Waves : w \in Nat /\ w < NumWaves /\ FirstOf(w) = w + 1 /\ FirstOf(w) \in Share(w)
<1>1. NumWaves \in Nat \ {0} /\ Stride \in Nat \ {0} /\ N \in Nat \ {0}
  BY FormsAssumption, TeamAssumption
<1>2. \A w \in Waves : w \in Nat /\ w < NumWaves /\ FirstOf(w) = w + 1
  BY <1>1 DEF Waves, FirstOf
<1>3. 0 \in Nat /\ 0 * NumWaves = 0
  BY <1>1
<1>4. ASSUME NEW w \in Waves PROVE FirstOf(w) \in Share(w)
  <2>1. FirstOf(w) = FirstOf(w) + 0 * NumWaves
    BY <1>2, <1>3
  <2> QED
    BY <1>2, <1>3, <2>1 DEF Share
<1> QED
  BY <1>1, <1>2, <1>4

(* A wavefront goes through its share in steps of NumWaves and skips none. *)
LEMMA ShareSteps ==
  ASSUME NEW w \in Waves, NEW k \in Share(w)
  PROVE  /\ k \in Nat /\ k >= FirstOf(w) /\ k + NumWaves \in Share(w)
         /\ \A l \in Share(w) : l < k + NumWaves <=> l < k \/ l = k
<1> USE WaveTypes
<1>1. PICK m \in Nat : k = FirstOf(w) + m * NumWaves
  BY DEF Share
<1>2. m * NumWaves \in Nat /\ (m + 1) * NumWaves = m * NumWaves + NumWaves
  OBVIOUS
<1>3. k \in Nat /\ k >= FirstOf(w)
  BY <1>1, <1>2
<1>4. k + NumWaves \in Share(w)
  <2>1. k + NumWaves = FirstOf(w) + (m + 1) * NumWaves
    BY <1>1, <1>2
  <2> QED
    <3>1. m + 1 \in Nat /\ k + NumWaves \in Nat
      BY <1>3
    <3>2. \E n \in Nat : k + NumWaves = FirstOf(w) + n * NumWaves
      BY <2>1, <3>1
    <3> HIDE <2>1
    <3> QED
      BY <3>1, <3>2 DEF Share
<1>5. ASSUME NEW l \in Share(w), l < k + NumWaves, l > k PROVE FALSE
  <2>1. PICK n \in Nat : l = FirstOf(w) + n * NumWaves
    BY DEF Share
  <2>2. n * NumWaves \in Nat
    BY <2>1
  <2>3. CASE n > m
    <3>1. n * NumWaves >= m * NumWaves + NumWaves
      BY <2>3, Multiples
    <3> QED
      BY <1>1, <1>2, <1>5, <2>1, <2>2, <3>1
  <2>4. CASE n < m
    <3>1. m * NumWaves >= n * NumWaves + NumWaves
      BY <2>4, Multiples
    <3> QED
      BY <1>1, <1>2, <1>5, <2>1, <2>2, <3>1
  <2>5. CASE n = m
    BY <1>1, <1>2, <1>5, <2>1, <2>2, <2>5
  <2> QED
    BY <2>1, <2>3, <2>4, <2>5
<1>6. \A l \in Share(w) : l \in Nat
  BY DEF Share
<1> QED
  BY <1>3, <1>4, <1>5, <1>6

(* Every member is in the share of one wavefront. *)
LEMMA Shares ==
  ASSUME NEW p \in Members
  PROVE  \E w \in Waves : p \in Share(w) /\ \A v \in Waves : p \in Share(v) => v = w
<1> USE WaveTypes
<1>1. p \in Nat /\ p - 1 \in Nat
  BY DEF Members
<1>2. PICK m \in Nat, w \in 0 .. NumWaves - 1 : p - 1 = m * NumWaves + w
  BY <1>1, Division
<1>3. w \in Waves /\ m * NumWaves \in Nat
  BY DEF Waves
<1>4. p \in Share(w)
  <2>1. p = FirstOf(w) + m * NumWaves
    BY <1>1, <1>2, <1>3
  <2> QED
    BY <1>1, <2>1 DEF Share
<1>5. ASSUME NEW v \in Waves, p \in Share(v) PROVE v = w
  <2>1. PICK n \in Nat : p = FirstOf(v) + n * NumWaves
    BY <1>5 DEF Share
  <2>2. n * NumWaves \in Nat
    OBVIOUS
  <2>3. CASE n > m
    <3>1. n * NumWaves >= m * NumWaves + NumWaves
      BY <2>3, Multiples
    <3> QED
      BY <1>1, <1>2, <1>3, <2>1, <2>2, <3>1
  <2>4. CASE n < m
    <3>1. m * NumWaves >= n * NumWaves + NumWaves
      BY <2>4, Multiples
    <3> QED
      BY <1>1, <1>2, <1>3, <2>1, <2>2, <3>1
  <2>5. CASE n = m
    BY <1>1, <1>2, <1>3, <2>1, <2>2, <2>5
  <2> QED
    BY <2>3, <2>4, <2>5
<1> QED
  BY <1>3, <1>4, <1>5

(* Two releases of a round are never put to the same PE, nor to PE 0. *)
LEMMA TargetsDiffer ==
  ASSUME NEW w \in Waves, NEW k \in Share(w), Offset(Target(w, k)) \in PEs
  PROVE  /\ Offset(Target(w, k)) \in Members
         /\ \A v \in Waves : \A l \in Share(v) :
              Offset(Target(v, l)) = Offset(Target(w, k)) => v = w /\ l = k
<1> USE WaveTypes
<1> DEFINE Span == NumWaves * Stride
<1>1. Span \in Nat \ {0} /\ Span >= NumWaves
  <2>1. Span \in Nat /\ Span >= NumWaves
    <3>1. CASE Stride > 1
      BY <3>1, Multiples
    <3>2. CASE Stride = 1
      BY <3>2
    <3> QED
      BY <3>1, <3>2
  <2> QED
    BY <2>1
<1> HIDE DEF Span
<1>2. ASSUME NEW v \in Waves, NEW l \in Share(v), Offset(Target(v, l)) \in PEs
      PROVE  \E n \in Nat : \E o \in Nat \ {0} :
               /\ l = FirstOf(v) + n * NumWaves
               /\ o * Stride = Stride + v + n * Span /\ Offset(Target(v, l)) = o
  <2>1. PICK n \in Nat : l = FirstOf(v) + n * NumWaves
    BY DEF Share
  <2>2. (l - FirstOf(v)) \div NumWaves = n
    <3>1. n * NumWaves \in Nat /\ l - FirstOf(v) = n * NumWaves
      BY <2>1
    <3>2. (n * NumWaves) \div NumWaves = n
      OBVIOUS
    <3> QED
      BY <3>1, <3>2
  <2>3. Target(v, l) = Stride + v + n * Span
    <3>1. Target(v, l) = Stride + v + n * NumWaves * Stride
      BY <2>2 DEF Target
    <3>2. n * NumWaves * Stride = n * Span
      BY DEF Span
    <3> QED
      BY <3>1, <3>2
  <2>4. n * Span \in Nat
    BY <1>1
  <2>5. Target(v, l) \in Nat /\ Target(v, l) >= Stride
    BY <2>3, <2>4
  <2>6. PICK o \in Nat, r \in 0 .. Stride - 1 :
          /\ Target(v, l) = o * Stride + r
          /\ o = Target(v, l) \div Stride /\ r = Target(v, l) % Stride
    BY <2>5, Division
  <2>7. r = 0
    BY <1>2, <2>6, TeamAssumption DEF Offset, PEs
  <2>8. Offset(Target(v, l)) = o
    BY <2>6, <2>7 DEF Offset
  <2>9. o * Stride = Target(v, l)
    <3>1. Target(v, l) = o * Stride + 0
      BY <2>6, <2>7
    <3>2. o * Stride \in Nat
      OBVIOUS
    <3> QED
      BY <3>1, <3>2
  <2>10. o # 0
    BY <2>5, <2>9
  <2> QED
    BY <2>1, <2>3, <2>8, <2>9, <2>10
<1>3. PICK m \in Nat, o \in Nat \ {0} :
        /\ k = FirstOf(w) + m * NumWaves
        /\ o * Stride = Stride + w + m * Span /\ Offset(Target(w, k)) = o
  BY <1>2
<1>4. o \in Members
  BY <1>3 DEF PEs, Members
<1>5. ASSUME NEW v \in Waves, NEW l \in Share(v),
             Offset(Target(v, l)) = Offset(Target(w, k))
      PROVE  v = w /\ l = k
  <2>1. PICK n \in Nat :
          l = FirstOf(v) + n * NumWaves /\ o * Stride = Stride + v + n * Span
    <3>1. PICK n \in Nat, u \in Nat \ {0} :
            /\ l = FirstOf(v) + n * NumWaves
            /\ u * Stride = Stride + v + n * Span /\ Offset(Target(v, l)) = u
      BY <1>2, <1>5
    <3>2. u = o
      BY <1>3, <1>5, <3>1
    <3> QED
      BY <3>1, <3>2
  <2>2. n * Span \in Nat /\ m * Span \in Nat /\ v + n * Span = w + m * Span
    <3>1. n * Span \in Nat /\ m * Span \in Nat
      BY <1>1
    <3> QED
      BY <1>3, <2>1, <3>1
  <2>3. CASE n > m
    <3>1. n * Span >= m * Span + Span
      BY <1>1, <2>3, Multiples
    <3> QED
      BY <1>1, <2>2, <3>1
  <2>4. CASE n < m
    <3>1. m * Span >= n * Span + Span
      BY <1>1, <2>4, Multiples
    <3> QED
      BY <1>1, <2>2, <3>1
  <2>5. CASE n = m
    <3>1. v = w
      BY <2>2, <2>5
    <3> QED
      BY <1>3, <2>1, <2>5, <3>1
  <2> QED
    BY <2>3, <2>4, <2>5
<1> QED
  BY <1>3, <1>4, <1>5

(* The releases a work-group has put, or tried to put, this round. *)
Offered(p) ==
  \E w \in Waves : \E k \in Share(w) : k < next[w] /\ Offset(Target(w, k)) = p

(* PE 0 has done what it does to release p, or is done with the round. *)
Given(p) ==
  \/ pc[0] \in {"out", "clean"}
  \/ form # "wg" /\ pc[0] \in {"release", "put"} /\ p < i
  \/ form = "wg" /\ pc[0] = "release" /\ Offered(p)

GdaReleased(p) == IF Given(p) THEN round[0] ELSE round[0] - 1

(* A release to p has been posted and has not arrived. *)
InFlight(p) == \E put \in flying : put[1] = p

(* A release may be on its way, or may never come. *)
GdaFinishing(p) ==
  /\ round[p] = GdaReleased(p)
  /\ \/ pc[p] = "wait" /\ (InFlight(p) => pSync[p][0] = 0)
     \/ pc[p] = "clear" /\ ~InFlight(p)
     \/ pc[p] \in {"unmark", "out"} /\ ~InFlight(p) /\ pSync[p][0] = 0

GdaAhead(p) ==
  /\ round[p] = GdaReleased(p) + 1
  /\ pc[p] \in {"mark", "arrive", "wait"} /\ pSync[p][0] = 0 /\ ~InFlight(p)

GdaArrived(p) == GdaAhead(p) /\ pc[p] = "wait"

TakenByWave(p) == \E w \in Waves : p \in Share(w) /\ p < next[w]

GdaTaken(p) ==
  \/ form = "thread" /\ pc[0] \in {"gather", "reset"} /\ p < i
  \/ form = "wg" /\ pc[0] = "gather" /\ TakenByWave(p)
  \/ pc[0] \in {"release", "put"} /\ ~Given(p)

GdaAnnounced == {p \in Members : GdaArrived(p) /\ ~GdaTaken(p)}

GdaTypes ==
  /\ form \in {"thread", "wg", "atomic"} /\ direct = (form # "atomic")
  /\ pSync \in [PEs -> [PEs -> Nat]]
  /\ pc \in [PEs -> {"out", "mark", "arrive", "wait", "clear", "unmark", "gather",
                     "reset", "release", "put", "clean"}]
  /\ i \in 1 .. N
  /\ round \in [PEs -> Nat]
  /\ next \in [Waves -> Nat] /\ wpc \in [Waves -> {"wait", "reset"}]

GdaMemberInv ==
  \A p \in Members :
    (GdaFinishing(p) \/ GdaAhead(p)) /\ (GdaTaken(p) => GdaArrived(p))

FlyingInv ==
  /\ flying \subseteq Members \X Nat
  /\ \A a, b \in flying : a[1] = b[1] => a = b

GdaFlagInv ==
  direct => \A p \in Members : pSync[0][p] = IF p \in GdaAnnounced THEN 1 ELSE 0

(* Arrivals may be lost: PE 0 takes its entry down when it leaves. *)
GdaCountInv ==
  ~direct /\ pc[0] \in {"out", "gather", "reset"} =>
    pSync[0][0] <= Cardinality(GdaAnnounced)

GdaRootInv ==
  /\ pc[0] \in {"out", "gather", "reset", "release", "put", "clean"}
  /\ pc[0] = "reset" =>
       /\ form # "wg"
       /\ IF direct THEN i < N /\ pSync[0][i] = 1 ELSE GdaAnnounced = Members
  /\ pc[0] = "put" => form # "wg" /\ (form = "thread" => i < N)
  /\ pc[0] = "clean" => form = "wg"
  /\ form = "wg" /\ pc[0] = "release" => i = N

WaveInv ==
  form = "wg" =>
    \A w \in Waves :
      /\ next[w] \in Share(w)
      /\ pc[0] \notin {"gather", "release"} => next[w] = FirstOf(w)
      /\ wpc[w] = "reset" => pc[0] = "gather" /\ next[w] < N /\ pSync[0][next[w]] = 1

GdaInv ==
  /\ GdaTypes /\ GdaMemberInv /\ FlyingInv
  /\ GdaFlagInv /\ GdaCountInv /\ GdaRootInv /\ WaveInv

----------------------------------------------------------------------------
(* Wavefronts that have not started have taken and offered nothing. *)
LEMMA FreshWaves ==
  ASSUME \A w \in Waves : next[w] = FirstOf(w)
  PROVE  \A p \in Members : ~TakenByWave(p) /\ ~Offered(p)
<1>1. ASSUME NEW w \in Waves, NEW k \in Share(w), k < next[w] PROVE FALSE
  <2>1. k \in Nat /\ k >= FirstOf(w) /\ FirstOf(w) \in Nat
    BY ShareSteps, WaveTypes
  <2> QED
    BY <1>1, <2>1
<1> QED
  BY <1>1 DEF TakenByWave, Offered

(* Nobody has called yet. *)
LEMMA InitGda == AllInit /\ form # "ipc" => GdaInv
<1> SUFFICES ASSUME AllInit, form # "ipc" PROVE GdaInv
  OBVIOUS
<1> USE PENumbers
<1>1. /\ form \in {"thread", "wg", "atomic"} /\ direct = (form # "atomic")
      /\ pSync = [p \in PEs |-> [k \in PEs |-> 0]]
      /\ pc = [p \in PEs |-> "out"] /\ i = 1 /\ round = [p \in PEs |-> 0]
      /\ next = [w \in Waves |-> FirstOf(w)] /\ wpc = [w \in Waves |-> "wait"]
      /\ flying = {}
  <2>1. form \in {"thread", "wg", "atomic"}
    BY FormsAssumption DEF AllInit
  <2> QED
    BY <2>1 DEF AllInit, Init
<1>2. GdaTypes
  BY <1>1, WaveTypes DEF GdaTypes
<1>3. ASSUME NEW p \in Members
      PROVE  GdaFinishing(p) /\ ~GdaTaken(p) /\ ~GdaArrived(p)
  <2>1. pc[p] = "out" /\ pc[0] = "out" /\ pSync[p][0] = 0 /\ ~InFlight(p)
        /\ round[p] = 0 /\ round[0] = 0
    BY <1>1 DEF InFlight
  <2> QED
    BY <2>1 DEF GdaFinishing, GdaTaken, GdaArrived, GdaAhead, GdaReleased, Given
<1>4. GdaAnnounced = {}
  BY <1>3 DEF GdaAnnounced
<1>5. GdaFlagInv /\ GdaCountInv
  BY <1>1, <1>4, FS_EmptySet DEF GdaFlagInv, GdaCountInv
<1>6. FlyingInv /\ GdaRootInv
  BY <1>1 DEF FlyingInv, GdaRootInv
<1>7. WaveInv
  BY <1>1, WaveTypes DEF WaveInv
<1> QED
  BY <1>2, <1>3, <1>5, <1>6, <1>7 DEF GdaInv, GdaMemberInv

(* A member none of whose state a step changes is where it was. *)
LEMMA SameMember ==
  ASSUME NEW q \in Members, round'[q] = round[q], pc'[q] = pc[q],
         pSync'[q][0] = pSync[q][0], InFlight(q)' <=> InFlight(q),
         GdaReleased(q)' = GdaReleased(q)
  PROVE  /\ GdaFinishing(q)' <=> GdaFinishing(q)
         /\ GdaAhead(q)' <=> GdaAhead(q)
         /\ GdaArrived(q)' <=> GdaArrived(q)
  BY DEF GdaFinishing, GdaAhead, GdaArrived

(* If besides nobody arrives or is taken, the same have announced. *)
LEMMA SameMembers ==
  ASSUME GdaMemberInv,
         \A q \in Members :
           /\ (GdaFinishing(q) \/ GdaAhead(q))'
           /\ GdaArrived(q)' <=> GdaArrived(q)
           /\ GdaTaken(q)' <=> GdaTaken(q)
  PROVE  GdaMemberInv' /\ GdaAnnounced' = GdaAnnounced
  BY DEF GdaMemberInv, GdaAnnounced

(* A step that keeps the announced arrivals and the entries of PE 0's *)
(* array for the members keeps the flags. *)
LEMMA SameGdaFlags ==
  ASSUME GdaFlagInv, direct' = direct, GdaAnnounced' = GdaAnnounced,
         \A p \in Members : pSync'[0][p] = pSync[0][p]
  PROVE  GdaFlagInv'
  BY DEF GdaFlagInv

(* The same for the count, with entry 0. *)
LEMMA SameCount ==
  ASSUME GdaCountInv, direct' = direct, GdaAnnounced' = GdaAnnounced,
         pSync'[0][0] = pSync[0][0],
         pc'[0] \in {"out", "gather", "reset"} => pc[0] \in {"out", "gather", "reset"}
  PROVE  GdaCountInv'
  BY DEF GdaCountInv

(* A step that keeps the flags that are up keeps the wavefronts' places. *)
LEMMA SameWaves ==
  ASSUME GdaTypes, WaveInv, form' = form, next' = next, wpc' = wpc, pc'[0] = pc[0],
         \A p \in Members : pSync[0][p] = 1 => pSync'[0][p] = 1
  PROVE  WaveInv'
<1> USE PENumbers, WaveTypes
<1> SUFFICES ASSUME form = "wg", NEW w \in Waves
             PROVE  /\ next[w] \in Share(w)
                    /\ pc[0] \notin {"gather", "release"} => next[w] = FirstOf(w)
                    /\ wpc[w] = "reset" =>
                         pc[0] = "gather" /\ next[w] < N /\ pSync'[0][next[w]] = 1
  BY DEF WaveInv
<1>1. next[w] \in Share(w) /\ (wpc[w] = "reset" => next[w] < N /\ pSync[0][next[w]] = 1)
  BY DEF WaveInv
<1>2. next[w] >= 1 /\ next[w] \in Nat
  BY <1>1, ShareSteps
<1>3. next[w] < N => next[w] \in Members
  BY <1>2 DEF Members
<1> QED
  BY <1>1, <1>3 DEF WaveInv

(* PE 0 starts to gather; a member is one round ahead of its release. *)
LEMMA GdaEnterKeeps ==
  ASSUME GdaInv, NEW p \in PEs, GdaEnter(p)
  PROVE  GdaInv'
<1> USE PENumbers
<1>1. /\ pc[p] = "out" /\ pSync' = pSync /\ direct' = direct
      /\ form' = form /\ next' = next /\ wpc' = wpc /\ flying' = flying
      /\ round' = [round EXCEPT ![p] = round[p] + 1]
      /\ pc' = [pc EXCEPT ![p] = IF p = 0 THEN "gather"
                                ELSE IF form = "thread" THEN "mark" ELSE "arrive"]
      /\ i' = IF p = 0 THEN 1 ELSE i
  BY DEF GdaEnter, Goto, gdaVars
<1>2. GdaTypes'
  BY <1>1 DEF GdaInv, GdaTypes
<1>3. \A q \in Members : InFlight(q)' <=> InFlight(q)
  BY <1>1 DEF InFlight
<1>4. \A q \in Members : Offered(q)' <=> Offered(q)
  BY <1>1 DEF Offered
<1>5. \A q \in Members : TakenByWave(q)' <=> TakenByWave(q)
  BY <1>1 DEF TakenByWave
<1>6. CASE p = 0
  <2>1. pc'[0] = "gather" /\ round'[0] = round[0] + 1 /\ i' = 1 /\ round[0] \in Nat
        /\ \A q \in Members : round'[q] = round[q] /\ pc'[q] = pc[q]
    BY <1>1, <1>6 DEF GdaInv, GdaTypes
  <2>2. form = "wg" => \A q \in Members : ~TakenByWave(q)
    BY <1>1, <1>6, FreshWaves DEF GdaInv, WaveInv
  <2>3. ASSUME NEW q \in Members
        PROVE  GdaReleased(q)' = GdaReleased(q) /\ ~GdaTaken(q) /\ ~GdaTaken(q)'
    <3>1. Given(q) /\ ~Given(q)'
      BY <1>1, <1>6, <2>1 DEF Given
    <3>2. GdaReleased(q)' = GdaReleased(q)
      BY <2>1, <3>1 DEF GdaReleased
    <3>3. ~GdaTaken(q) /\ ~GdaTaken(q)'
      BY <1>1, <1>5, <1>6, <2>1, <2>2 DEF GdaTaken
    <3> QED
      BY <3>2, <3>3
  <2>4. GdaMemberInv' /\ GdaAnnounced' = GdaAnnounced
    BY <1>1, <1>3, <2>1, <2>3, SameMember, SameMembers DEF GdaInv, GdaMemberInv
  <2>5. GdaFlagInv' /\ GdaCountInv'
    BY <1>1, <1>6, <2>4, SameGdaFlags, SameCount DEF GdaInv
  <2>6. WaveInv'
    BY <1>1, <1>6, <2>1 DEF GdaInv, WaveInv
  <2>7. FlyingInv' /\ GdaRootInv'
    BY <1>1, <2>1 DEF GdaInv, FlyingInv, GdaRootInv
  <2> QED
    BY <1>2, <2>4, <2>5, <2>6, <2>7 DEF GdaInv
<1>7. CASE p # 0
  <2>1. p \in Members /\ pc'[0] = pc[0] /\ round'[0] = round[0] /\ i' = i
        /\ round'[p] = round[p] + 1 /\ pc'[p] \in {"mark", "arrive"}
        /\ round[p] \in Nat /\ round[0] \in Nat
        /\ \A q \in Members : q # p => round'[q] = round[q] /\ pc'[q] = pc[q]
    BY <1>1, <1>7 DEF GdaInv, GdaTypes
  <2>2. ASSUME NEW q \in Members
        PROVE  GdaReleased(q)' = GdaReleased(q) /\ (GdaTaken(q)' <=> GdaTaken(q))
    <3>1. Given(q)' <=> Given(q)
      BY <1>1, <1>4, <2>1 DEF Given
    <3>2. GdaTaken(q)' <=> GdaTaken(q)
      BY <1>1, <1>5, <2>1, <3>1 DEF GdaTaken
    <3> QED
      BY <2>1, <3>1, <3>2 DEF GdaReleased
  <2>3. GdaAhead(p)' /\ ~GdaArrived(p)' /\ ~GdaArrived(p)
    <3>1. GdaFinishing(p) /\ ~GdaArrived(p)
      BY <1>1, <2>1 DEF GdaInv, GdaMemberInv, GdaAhead, GdaArrived
    <3>2. GdaAhead(p)'
      BY <1>1, <1>3, <2>1, <2>2, <3>1 DEF GdaFinishing, GdaAhead
    <3> QED
      BY <2>1, <3>1, <3>2 DEF GdaArrived
  <2>4. GdaMemberInv' /\ GdaAnnounced' = GdaAnnounced
    <3>1. ASSUME NEW q \in Members
          PROVE  (GdaFinishing(q) \/ GdaAhead(q))' /\ (GdaArrived(q)' <=> GdaArrived(q))
      <4>1. CASE q = p
        BY <2>3, <4>1
      <4>2. CASE q # p
        BY <1>1, <1>3, <2>1, <2>2, <4>2, SameMember DEF GdaInv, GdaMemberInv
      <4> QED
        BY <4>1, <4>2
    <3> QED
      BY <2>2, <3>1, SameMembers DEF GdaInv
  <2>5. GdaFlagInv' /\ GdaCountInv'
    BY <1>1, <2>1, <2>4, SameGdaFlags, SameCount DEF GdaInv
  <2>6. WaveInv'
    BY <1>1, <2>1, SameWaves DEF GdaInv
  <2>7. FlyingInv' /\ GdaRootInv'
    BY <1>1, <2>1, <2>4 DEF GdaInv, FlyingInv, GdaRootInv
  <2> QED
    BY <1>2, <2>4, <2>5, <2>6, <2>7 DEF GdaInv
<1> QED
  BY <1>6, <1>7

(* A step of one member that PE 0 does not see. *)
LEMMA MemberMoves ==
  ASSUME GdaInv, GdaTypes', NEW p \in Members,
         form' = form, direct' = direct, next' = next, wpc' = wpc, i' = i,
         round' = round, flying' = flying,
         \A q \in PEs : q # p => pc'[q] = pc[q],
         \A q \in PEs : pSync'[0][q] = pSync[0][q],
         \A q \in Members : q # p => pSync'[q][0] = pSync[q][0],
         (InFlight(p)' <=> InFlight(p)) /\ GdaReleased(p)' = GdaReleased(p) =>
           (GdaFinishing(p) \/ GdaAhead(p))' /\ (GdaArrived(p)' <=> GdaArrived(p))
  PROVE  GdaInv'
<1> USE PENumbers
<1>1. pc'[0] = pc[0]
  OBVIOUS
<1>2. \A q \in Members : Offered(q)' <=> Offered(q)
  BY DEF Offered
<1>3. \A q \in Members : TakenByWave(q)' <=> TakenByWave(q)
  BY DEF TakenByWave
<1>4. ASSUME NEW q \in Members
      PROVE  /\ InFlight(q)' <=> InFlight(q)
             /\ GdaReleased(q)' = GdaReleased(q)
             /\ GdaTaken(q)' <=> GdaTaken(q)
  <2>1. Given(q)' <=> Given(q)
    BY <1>1, <1>2 DEF Given
  <2>2. GdaTaken(q)' <=> GdaTaken(q)
    BY <1>1, <1>3, <2>1 DEF GdaTaken
  <2> QED
    BY <2>1, <2>2 DEF GdaReleased, InFlight
<1>5. ASSUME NEW q \in Members
      PROVE  /\ (GdaFinishing(q) \/ GdaAhead(q))'
             /\ GdaArrived(q)' <=> GdaArrived(q)
  <2>1. CASE q = p
    BY <1>4, <2>1
  <2>2. CASE q # p
    BY <1>4, <2>2, SameMember DEF GdaInv, GdaMemberInv
  <2> QED
    BY <2>1, <2>2
<1>6. GdaMemberInv' /\ GdaAnnounced' = GdaAnnounced
  BY <1>4, <1>5, SameMembers DEF GdaInv
<1>7. GdaFlagInv' /\ GdaCountInv'
  BY <1>1, <1>6, SameGdaFlags, SameCount DEF GdaInv
<1>8. WaveInv'
  BY <1>1, SameWaves DEF GdaInv
<1>9. FlyingInv'
  BY DEF GdaInv, FlyingInv
<1>10. GdaRootInv'
  <2>1. direct /\ pc[0] = "reset" => i \in PEs
    BY DEF GdaInv, GdaTypes, GdaRootInv, PEs
  <2> QED
    BY <1>1, <1>6, <2>1 DEF GdaInv, GdaRootInv
<1> QED
  BY <1>6, <1>7, <1>8, <1>9, <1>10 DEF GdaInv

(* The member sets its own entry, which only its put reads. *)
LEMMA MarkKeeps ==
  ASSUME GdaInv, NEW p \in PEs, Mark(p)
  PROVE  GdaInv'
<1> USE PENumbers
<1>1. /\ p \in Members /\ pc[p] = "mark" /\ pc' = [pc EXCEPT ![p] = "arrive"]
      /\ pSync' = [pSync EXCEPT ![p] = [pSync[p] EXCEPT ![p] = 1]]
      /\ direct' = direct /\ i' = i /\ round' = round
      /\ form' = form /\ next' = next /\ wpc' = wpc /\ flying' = flying
  BY DEF Mark, Goto, Store, gdaVars
<1>2. GdaTypes'
  BY <1>1 DEF GdaInv, GdaTypes
<1>3. /\ \A q \in PEs : q # p => pc'[q] = pc[q]
      /\ \A q \in PEs : pSync'[0][q] = pSync[0][q] /\ pSync'[q][0] = pSync[q][0]
      /\ pc'[p] = "arrive"
  BY <1>1 DEF GdaInv, GdaTypes
<1>4. GdaAhead(p) /\ ~GdaArrived(p)
  BY <1>1 DEF GdaInv, GdaMemberInv, GdaFinishing, GdaArrived
<1>5. (InFlight(p)' <=> InFlight(p)) /\ GdaReleased(p)' = GdaReleased(p) =>
        (GdaFinishing(p) \/ GdaAhead(p))' /\ (GdaArrived(p)' <=> GdaArrived(p))
  BY <1>1, <1>3, <1>4 DEF GdaAhead, GdaArrived
<1> QED
  BY <1>1, <1>2, <1>3, <1>5, MemberMoves

(* Only a finishing member sees its release, and no other is coming. *)
LEMMA SeesKeeps ==
  ASSUME GdaInv, NEW p \in PEs, SeeRelease(p), UNCHANGED gdaVars
  PROVE  GdaInv'
<1> USE PENumbers
<1>1. /\ p \in Members /\ pc[p] = "wait" /\ pc' = [pc EXCEPT ![p] = "clear"]
      /\ pSync[p][0] = 1 /\ pSync' = pSync
      /\ direct' = direct /\ i' = i /\ round' = round
      /\ form' = form /\ next' = next /\ wpc' = wpc /\ flying' = flying
  BY DEF SeeRelease, Goto, gdaVars
<1>2. GdaTypes'
  BY <1>1 DEF GdaInv, GdaTypes
<1>3. pc'[p] = "clear" /\ \A q \in PEs : q # p => pc'[q] = pc[q]
  BY <1>1 DEF GdaInv, GdaTypes
<1>4. GdaFinishing(p) /\ ~GdaAhead(p) /\ ~InFlight(p)
  BY <1>1 DEF GdaInv, GdaMemberInv, GdaAhead, GdaFinishing
<1>5. (InFlight(p)' <=> InFlight(p)) /\ GdaReleased(p)' = GdaReleased(p) =>
        (GdaFinishing(p) \/ GdaAhead(p))' /\ (GdaArrived(p)' <=> GdaArrived(p))
  BY <1>1, <1>3, <1>4 DEF GdaFinishing, GdaArrived
<1> QED
  BY <1>1, <1>2, <1>3, <1>5, MemberMoves

(* The release is taken down, and the entry the arrival was put from. *)
LEMMA ClearsKeep ==
  ASSUME GdaInv, NEW p \in PEs, UNCHANGED gdaVars,
         ClearRelease(p) \/ ClearFirst(p) \/ Unmark(p)
  PROVE  GdaInv'
<1> USE PENumbers
<1>1. PICK k \in PEs, to \in {"unmark", "out"} :
        /\ p \in Members /\ pc[p] \in {"clear", "unmark"} /\ pc' = [pc EXCEPT ![p] = to]
        /\ pSync' = [pSync EXCEPT ![p] = [pSync[p] EXCEPT ![k] = 0]]
        /\ pc[p] = "clear" => k = 0
        /\ direct' = direct /\ i' = i /\ round' = round
        /\ form' = form /\ next' = next /\ wpc' = wpc /\ flying' = flying
  <2>1. CASE ClearRelease(p)
    BY <2>1 DEF ClearRelease, Goto, Store, gdaVars
  <2>2. CASE ClearFirst(p)
    BY <2>2 DEF ClearFirst, Goto, Store, gdaVars
  <2>3. CASE Unmark(p)
    BY <2>3 DEF Unmark, Goto, Store, gdaVars
  <2> QED
    BY <2>1, <2>2, <2>3
<1>2. GdaTypes'
  BY <1>1 DEF GdaInv, GdaTypes
<1>3. GdaFinishing(p) /\ ~GdaAhead(p) /\ ~InFlight(p)
      /\ (pc[p] = "unmark" => pSync[p][0] = 0)
  BY <1>1 DEF GdaInv, GdaMemberInv, GdaAhead, GdaFinishing
<1>4. /\ pc'[p] = to /\ \A q \in PEs : q # p => pc'[q] = pc[q]
      /\ \A q \in PEs : pSync'[0][q] = pSync[0][q]
      /\ \A q \in Members : q # p => pSync'[q][0] = pSync[q][0]
      /\ pSync'[p][0] = 0
  BY <1>1, <1>3 DEF GdaInv, GdaTypes
<1>5. (InFlight(p)' <=> InFlight(p)) /\ GdaReleased(p)' = GdaReleased(p) =>
        (GdaFinishing(p) \/ GdaAhead(p))' /\ (GdaArrived(p)' <=> GdaArrived(p))
  BY <1>1, <1>3, <1>4 DEF GdaFinishing, GdaArrived
<1> QED
  BY <1>1, <1>2, <1>4, <1>5, MemberMoves

(* The member's arrival joins those PE 0 has to see. *)
LEMMA ArriveKeeps ==
  ASSUME GdaInv, NEW p \in PEs, Arrive(p), UNCHANGED gdaVars
  PROVE  GdaInv'
<1> USE PENumbers
<1>1. /\ p \in Members /\ pc[p] = "arrive" /\ pc' = [pc EXCEPT ![p] = "wait"]
      /\ direct' = direct /\ i' = i /\ round' = round
      /\ form' = form /\ next' = next /\ wpc' = wpc /\ flying' = flying
  BY DEF Arrive, Goto, gdaVars
<1>2. /\ pSync' \in [PEs -> [PEs -> Nat]]
      /\ \A q \in PEs, k \in PEs : pSync'[q][k] =
           IF q = 0 /\ k = ArrivalAt(p)
           THEN IF direct THEN 1 ELSE pSync[0][0] + 1
           ELSE pSync[q][k]
  <2>1. ArrivalAt(p) \in PEs
    BY <1>1 DEF ArrivalAt
  <2>2. pSync \in [PEs -> [PEs -> Nat]]
    BY DEF GdaInv, GdaTypes
  <2>3. (IF direct THEN 1 ELSE pSync[0][0] + 1) \in Nat
    BY <2>2
  <2> QED
    BY <2>1, <2>2, <2>3 DEF Arrive, Store
<1>3. pc'[p] = "wait" /\ pc'[0] = pc[0] /\ \A q \in PEs : q # p => pc'[q] = pc[q]
  BY <1>1 DEF GdaInv, GdaTypes
<1>4. GdaTypes'
  BY <1>1, <1>2 DEF GdaInv, GdaTypes
<1>5. \A q \in Members : Offered(q)' <=> Offered(q)
  BY <1>1 DEF Offered
<1>6. \A q \in Members : TakenByWave(q)' <=> TakenByWave(q)
  BY <1>1 DEF TakenByWave
<1>7. ASSUME NEW q \in Members
      PROVE  /\ InFlight(q)' <=> InFlight(q)
             /\ GdaReleased(q)' = GdaReleased(q)
             /\ GdaTaken(q)' <=> GdaTaken(q)
             /\ pSync'[q][0] = pSync[q][0]
  <2>1. Given(q)' <=> Given(q)
    BY <1>1, <1>3, <1>5 DEF Given
  <2>2. GdaTaken(q)' <=> GdaTaken(q)
    BY <1>1, <1>3, <1>6, <2>1 DEF GdaTaken
  <2>3. pSync'[q][0] = pSync[q][0]
    BY <1>2
  <2> QED
    BY <1>1, <2>1, <2>2, <2>3 DEF GdaReleased, InFlight
<1>8. GdaAhead(p) /\ ~GdaArrived(p) /\ ~GdaTaken(p)
  <2>1. GdaAhead(p) /\ ~GdaArrived(p)
    BY <1>1 DEF GdaInv, GdaMemberInv, GdaFinishing, GdaArrived
  <2> QED
    BY <1>1, <2>1 DEF GdaInv, GdaMemberInv
<1>9. GdaArrived(p)'
  BY <1>1, <1>3, <1>7, <1>8 DEF GdaAhead, GdaArrived
<1>10. ASSUME NEW q \in Members
       PROVE  /\ (GdaFinishing(q) \/ GdaAhead(q))'
              /\ GdaArrived(q)' <=> (GdaArrived(q) \/ q = p)
  <2>1. CASE q = p
    BY <1>9, <2>1 DEF GdaArrived
  <2>2. CASE q # p
    BY <1>1, <1>3, <1>7, <2>2, SameMember DEF GdaInv, GdaMemberInv
  <2> QED
    BY <2>1, <2>2
<1>11. GdaMemberInv'
  BY <1>7, <1>10 DEF GdaInv, GdaMemberInv
<1>12. GdaAnnounced' = GdaAnnounced \cup {p} /\ p \notin GdaAnnounced
  BY <1>1, <1>7, <1>8, <1>10 DEF GdaAnnounced
<1>13. GdaFlagInv'
  BY <1>1, <1>2, <1>12 DEF GdaInv, GdaFlagInv, ArrivalAt
<1>14. GdaCountInv'
  <2>1. GdaAnnounced \in SUBSET Members /\ GdaAnnounced' \in SUBSET Members
    BY <1>1, <1>12 DEF GdaAnnounced
  <2>2. IsFiniteSet(GdaAnnounced) /\ Cardinality(GdaAnnounced) \in Nat
    BY <2>1, MemberSets
  <2>3. Cardinality(GdaAnnounced') = Cardinality(GdaAnnounced) + 1
    BY <1>12, <2>2, FS_AddElement
  <2>4. pSync[0][0] \in Nat /\ (~direct => pSync'[0][0] = pSync[0][0] + 1)
    BY <1>2 DEF GdaInv, GdaTypes, ArrivalAt
  <2> QED
    BY <1>1, <1>3, <2>2, <2>3, <2>4 DEF GdaInv, GdaCountInv
<1>15. WaveInv'
  <2>1. \A q \in Members : pSync[0][q] = 1 => pSync'[0][q] = 1
    BY <1>2 DEF ArrivalAt
  <2> QED
    BY <1>1, <1>3, <2>1, SameWaves DEF GdaInv
<1>16. FlyingInv'
  BY <1>1 DEF GdaInv, FlyingInv
<1>17. GdaRootInv'
  <2>1. CASE pc[0] # "reset"
    BY <1>1, <1>3, <2>1 DEF GdaInv, GdaRootInv
  <2>2. CASE pc[0] = "reset" /\ direct
    <3>1. i \in Members /\ pSync[0][i] = 1
      BY <2>2 DEF GdaInv, GdaTypes, GdaRootInv, Members
    <3>2. pSync'[0][i] = 1
      BY <1>2, <2>2, <3>1 DEF ArrivalAt
    <3> QED
      BY <1>1, <1>3, <2>2, <3>2 DEF GdaInv, GdaRootInv
  <2>3. CASE pc[0] = "reset" /\ ~direct
    BY <1>1, <1>12, <2>3 DEF GdaInv, GdaRootInv
  <2> QED
    BY <2>1, <2>2, <2>3
<1> QED
  BY <1>4, <1>11, <1>13, <1>14, <1>15, <1>16, <1>17 DEF GdaInv

(* A step of PE 0 that gives and takes nothing. *)
LEMMA RootMoves ==
  ASSUME GdaInv, round' = round, flying' = flying,
         \A q \in Members : pc'[q] = pc[q] /\ pSync'[q][0] = pSync[q][0],
         \A q \in Members : (Given(q)' <=> Given(q)) /\ (GdaTaken(q)' <=> GdaTaken(q))
  PROVE  GdaMemberInv' /\ GdaAnnounced' = GdaAnnounced
<1>1. \A q \in Members : GdaReleased(q)' = GdaReleased(q) /\ (InFlight(q)' <=> InFlight(q))
  BY DEF GdaReleased, InFlight
<1> QED
  BY <1>1, SameMember, SameMembers DEF GdaInv, GdaMemberInv

(* Forms other than the work-group's leave the wavefronts alone. *)
LEMMA NoWaves == ASSUME form # "wg", form' = form PROVE WaveInv'
  BY DEF WaveInv

(* PE 0 has seen a flag, or a count that nobody is missing from. *)
LEMMA SeeArrivalKeeps ==
  ASSUME GdaInv, SeeArrival, form # "wg", UNCHANGED gdaVars
  PROVE  GdaInv'
<1> USE PENumbers
<1>1. /\ pc[0] = "gather" /\ pc' = [pc EXCEPT ![0] = "reset"]
      /\ direct' = direct /\ i' = i /\ round' = round /\ pSync' = pSync
      /\ form' = form /\ next' = next /\ wpc' = wpc /\ flying' = flying
      /\ IF direct THEN i < N /\ pSync[0][i] = 1 ELSE pSync[0][0] = N - 1
  BY DEF SeeArrival, Goto, gdaVars
<1>2. pc'[0] = "reset" /\ \A q \in Members : pc'[q] = pc[q]
  BY <1>1 DEF GdaInv, GdaTypes
<1>3. GdaTypes'
  BY <1>1 DEF GdaInv, GdaTypes
<1>4. GdaMemberInv' /\ GdaAnnounced' = GdaAnnounced
  <2>1. \A q \in Members : Given(q)' <=> Given(q)
    BY <1>1, <1>2 DEF Given
  <2>2. \A q \in Members : GdaTaken(q)' <=> GdaTaken(q)
    BY <1>1, <1>2, <2>1 DEF GdaTaken
  <2> QED
    BY <1>1, <1>2, <2>1, <2>2, RootMoves
<1>5. GdaFlagInv' /\ GdaCountInv'
  BY <1>1, <1>2, <1>4, SameGdaFlags, SameCount DEF GdaInv
<1>6. ~direct => GdaAnnounced = Members
  <2>1. GdaAnnounced \in SUBSET Members
    BY DEF GdaAnnounced
  <2>2. Cardinality(GdaAnnounced) \in 0 .. N - 1
        /\ (Cardinality(GdaAnnounced) = N - 1 => GdaAnnounced = Members)
    BY <2>1, MemberSets
  <2>3. ~direct => Cardinality(GdaAnnounced) >= N - 1
    BY <1>1 DEF GdaInv, GdaCountInv
  <2> QED
    BY <2>2, <2>3
<1>7. GdaRootInv'
  <2>1. Members' = Members
    OBVIOUS
  <2> QED
    BY <1>1, <1>2, <1>4, <1>6, <2>1 DEF GdaInv, GdaRootInv
<1>8. FlyingInv' /\ WaveInv'
  BY <1>1, NoWaves DEF GdaInv, FlyingInv
<1> QED
  BY <1>3, <1>4, <1>5, <1>7, <1>8 DEF GdaInv

(* PE 0 takes the next arrival, or all of them, off its array. *)
LEMMA ResetArrivalKeeps ==
  ASSUME GdaInv, ResetArrival, form # "wg", UNCHANGED gdaVars
  PROVE  GdaInv'
<1> USE PENumbers
<1>1. /\ pc[0] = "reset" /\ direct' = direct /\ round' = round
      /\ pc' = [pc EXCEPT ![0] = IF direct THEN "gather" ELSE "release"]
      /\ pSync' = [pSync EXCEPT ![0] = [pSync[0] EXCEPT ![IF direct THEN i ELSE 0] = 0]]
      /\ i' = (IF direct THEN i + 1 ELSE 1)
      /\ form' = form /\ next' = next /\ wpc' = wpc /\ flying' = flying
  BY DEF ResetArrival, Goto, Store, gdaVars
<1>2. direct => i \in Members /\ i < N /\ i \in Nat /\ pSync[0][i] = 1
  BY <1>1 DEF GdaInv, GdaTypes, GdaRootInv, Members
<1>3. GdaTypes'
  <2>1. i' \in 1 .. N
    BY <1>1, <1>2
  <2>2. pSync' \in [PEs -> [PEs -> Nat]]
    BY <1>1 DEF GdaInv, GdaTypes
  <2> QED
    BY <1>1, <2>1, <2>2 DEF GdaInv, GdaTypes
<1>4. /\ pc'[0] = IF direct THEN "gather" ELSE "release"
      /\ \A q \in Members : pc'[q] = pc[q] /\ pSync'[q][0] = pSync[q][0]
      /\ \A k \in PEs : pSync'[0][k] = IF k = (IF direct THEN i ELSE 0) THEN 0 ELSE pSync[0][k]
  BY <1>1 DEF GdaInv, GdaTypes
<1>5. form \in {"thread", "atomic"} /\ direct = (form # "atomic")
  BY DEF GdaInv, GdaTypes
<1>6. ASSUME NEW q \in Members PROVE ~Given(q) /\ ~Given(q)'
  BY <1>1, <1>4, <1>5 DEF Given
<1>7. ASSUME NEW q \in Members
      PROVE  /\ GdaReleased(q)' = GdaReleased(q) /\ (InFlight(q)' <=> InFlight(q))
             /\ (GdaFinishing(q) \/ GdaAhead(q))'
             /\ GdaArrived(q)' <=> GdaArrived(q)
  <2>1. GdaReleased(q)' = GdaReleased(q) /\ (InFlight(q)' <=> InFlight(q))
    BY <1>1, <1>6 DEF GdaReleased, InFlight
  <2> QED
    BY <1>1, <1>4, <2>1, SameMember DEF GdaInv, GdaMemberInv
<1>8. CASE direct
  <2>1. i \in Members /\ i \in Nat /\ pSync[0][i] = 1 /\ form = "thread"
    BY <1>2, <1>5, <1>8
  <2>2. i \in GdaAnnounced
    BY <1>8, <2>1 DEF GdaInv, GdaFlagInv
  <2>3. ASSUME NEW q \in Members PROVE GdaTaken(q)' <=> GdaTaken(q) \/ q = i
    <3>1. GdaTaken(q) <=> q < i
      BY <1>1, <2>1 DEF GdaTaken
    <3>2. GdaTaken(q)' <=> q < i + 1
      BY <1>1, <1>4, <1>8, <2>1 DEF GdaTaken
    <3> QED
      BY <2>1, <3>1, <3>2
  <2>4. GdaMemberInv'
    BY <1>7, <2>2, <2>3 DEF GdaInv, GdaMemberInv, GdaAnnounced
  <2>5. GdaAnnounced' = GdaAnnounced \ {i}
    BY <1>7, <2>3 DEF GdaAnnounced
  <2>6. GdaFlagInv'
    BY <1>1, <1>4, <1>8, <2>1, <2>5 DEF GdaInv, GdaFlagInv
  <2>7. GdaCountInv' /\ GdaRootInv'
    BY <1>1, <1>4, <1>8, <2>1 DEF GdaInv, GdaCountInv, GdaRootInv
  <2>8. FlyingInv' /\ WaveInv'
    BY <1>1, NoWaves DEF GdaInv, FlyingInv
  <2> QED
    BY <1>3, <2>4, <2>6, <2>7, <2>8 DEF GdaInv
<1>9. CASE ~direct
  <2>1. GdaAnnounced = Members
    BY <1>1, <1>9 DEF GdaInv, GdaRootInv
  <2>2. ASSUME NEW q \in Members PROVE GdaArrived(q)'
    BY <1>7, <2>1 DEF GdaAnnounced
  <2>3. GdaMemberInv'
    BY <1>7, <2>2 DEF GdaMemberInv
  <2>4. GdaFlagInv' /\ GdaCountInv' /\ GdaRootInv'
    BY <1>1, <1>4, <1>9 DEF GdaInv, GdaFlagInv, GdaCountInv, GdaRootInv
  <2>5. FlyingInv' /\ WaveInv'
    BY <1>1, NoWaves DEF GdaInv, FlyingInv
  <2> QED
    BY <1>3, <2>3, <2>4, <2>5 DEF GdaInv
<1> QED
  BY <1>8, <1>9

(* The last arrival is taken: from here on i counts releases. *)
LEMMA AllReachedKeeps ==
  ASSUME GdaInv, AllReached, form # "wg", UNCHANGED gdaVars
  PROVE  GdaInv'
<1> USE PENumbers
<1>1. /\ pc[0] = "gather" /\ direct /\ i = N /\ i' = 1
      /\ pc' = [pc EXCEPT ![0] = "release"]
      /\ direct' = direct /\ round' = round /\ pSync' = pSync
      /\ form' = form /\ next' = next /\ wpc' = wpc /\ flying' = flying
  BY DEF AllReached, Goto, gdaVars
<1>2. pc'[0] = "release" /\ \A q \in Members : pc'[q] = pc[q]
  BY <1>1 DEF GdaInv, GdaTypes
<1>3. GdaTypes'
  <2>1. i' \in 1 .. N
    BY <1>1
  <2> QED
    BY <1>1, <2>1 DEF GdaInv, GdaTypes
<1>4. form = "thread"
  BY <1>1 DEF GdaInv, GdaTypes
<1>5. GdaMemberInv' /\ GdaAnnounced' = GdaAnnounced
  <2>1. \A q \in Members : ~Given(q) /\ ~Given(q)'
    BY <1>1, <1>2, <1>4 DEF Given
  <2>2. \A q \in Members : GdaTaken(q)' /\ GdaTaken(q)
    BY <1>1, <1>2, <1>4, <2>1 DEF GdaTaken
  <2> QED
    BY <1>1, <1>2, <2>1, <2>2, RootMoves
<1>6. GdaFlagInv' /\ GdaCountInv'
  BY <1>1, <1>2, <1>5, SameGdaFlags DEF GdaInv, GdaCountInv
<1>7. GdaRootInv' /\ FlyingInv' /\ WaveInv'
  BY <1>1, <1>2, <1>4, NoWaves DEF GdaInv, GdaRootInv, FlyingInv
<1> QED
  BY <1>3, <1>5, <1>6, <1>7 DEF GdaInv

(* PE 0's own entry, from which the releases are put, is set, kept until *)
(* the puts are over, and taken down. *)
LEMMA SourceKeeps ==
  ASSUME GdaInv, SetSource \/ QuietReleases \/ GdaLeave
  PROVE  GdaInv'
<1> USE PENumbers
<1>1. PICK to \in {"put", "release", "out"} :
        /\ pc[0] \in {"release", "put", "clean"} /\ pc' = [pc EXCEPT ![0] = to]
        /\ \/ pSync' = pSync
           \/ \E v \in {0, 1} : pSync' = [pSync EXCEPT ![0] = [pSync[0] EXCEPT ![0] = v]]
        /\ to = "put" => form # "wg" /\ pc[0] = "release" /\ i < N
        /\ to = "release" => form # "wg" /\ pc[0] = "put"
        /\ to = "out" =>
             /\ pSync' = [pSync EXCEPT ![0] = [pSync[0] EXCEPT ![0] = 0]]
             /\ pc[0] = "clean" \/ (form # "wg" /\ pc[0] = "release" /\ i = N)
        /\ direct' = direct /\ i' = i /\ round' = round
        /\ form' = form /\ next' = next /\ wpc' = wpc /\ flying' = flying
  <2>1. CASE SetSource
    BY <2>1 DEF SetSource, Goto, Store, gdaVars
  <2>2. CASE QuietReleases
    BY <2>2 DEF QuietReleases, Goto, gdaVars
  <2>3. CASE GdaLeave
    BY <2>3 DEF GdaLeave, Store, gdaVars
  <2> QED
    BY <2>1, <2>2, <2>3
<1>2. GdaTypes'
  <2>1. pSync' \in [PEs -> [PEs -> Nat]]
    BY <1>1 DEF GdaInv, GdaTypes
  <2> QED
    BY <1>1, <2>1 DEF GdaInv, GdaTypes
<1>3. /\ pc'[0] = to /\ \A q \in Members : pc'[q] = pc[q]
      /\ \A q \in Members : pSync'[q][0] = pSync[q][0] /\ pSync'[0][q] = pSync[0][q]
      /\ to = "out" => pSync'[0][0] = 0
  BY <1>1 DEF GdaInv, GdaTypes
<1>4. GdaMemberInv' /\ GdaAnnounced' = GdaAnnounced
  <2>1. \A q \in Members : Given(q)' <=> Given(q)
    BY <1>1, <1>3 DEF Given
  <2>2. \A q \in Members : GdaTaken(q)' <=> GdaTaken(q)
    <3>1. CASE to = "out"
      <4>1. \A q \in Members : Given(q)
        BY <1>1, <3>1 DEF Given
      <4> QED
        BY <1>1, <1>3, <2>1, <3>1, <4>1 DEF GdaTaken
    <3>2. CASE to # "out"
      BY <1>1, <1>3, <2>1, <3>2 DEF GdaTaken
    <3> QED
      BY <3>1, <3>2
  <2> QED
    BY <1>1, <1>3, <2>1, <2>2, RootMoves
<1>5. GdaFlagInv'
  BY <1>1, <1>3, <1>4, SameGdaFlags DEF GdaInv
<1>6. GdaCountInv'
  <2>1. Cardinality(GdaAnnounced') >= 0 /\ Cardinality(GdaAnnounced') \in Nat
    <3>1. GdaAnnounced \in SUBSET Members
      BY DEF GdaAnnounced
    <3> QED
      BY <1>4, <3>1, MemberSets
  <2> QED
    BY <1>3, <2>1 DEF GdaCountInv
<1>7. GdaRootInv'
  BY <1>1, <1>3 DEF GdaInv, GdaRootInv
<1>8. WaveInv'
  BY <1>1, <1>3 DEF GdaInv, WaveInv, GdaRootInv
<1>9. FlyingInv'
  BY <1>1 DEF GdaInv, FlyingInv
<1> QED
  BY <1>2, <1>4, <1>5, <1>6, <1>7, <1>8, <1>9 DEF GdaInv

(* A release that arrives at once, or is posted: the member finishes the *)
(* round. *)
LEMMA OneGiven ==
  ASSUME GdaInv, NEW m \in Members, pc[0] \in {"release", "put"},
         pc'[0] \in {"release", "put"}, round' = round,
         ~Given(m), Given(m)',
         \A q \in Members : pc'[q] = pc[q],
         \A q \in Members : q # m => (Given(q)' <=> Given(q))
                                     /\ pSync'[q][0] = pSync[q][0]
                                     /\ (InFlight(q)' <=> InFlight(q)),
         form' = form,
         InFlight(m)' => pSync'[m][0] = pSync[m][0]
  PROVE  GdaMemberInv' /\ GdaAnnounced' = GdaAnnounced /\ ~InFlight(m) /\ pSync[m][0] = 0
<1> USE PENumbers
<1>1. GdaTaken(m) /\ GdaArrived(m) /\ GdaReleased(m) = round[0] - 1
      /\ GdaReleased(m)' = round[0] /\ ~GdaTaken(m)'
  BY DEF GdaInv, GdaMemberInv, GdaTaken, GdaReleased
<1>2. round[0] \in Nat
  BY DEF GdaInv, GdaTypes
<1>3. round[m] = round[0] /\ pc[m] = "wait" /\ pSync[m][0] = 0 /\ ~InFlight(m)
  BY <1>1, <1>2 DEF GdaArrived, GdaAhead
<1>4. GdaFinishing(m)' /\ ~GdaArrived(m)'
  <2>1. GdaFinishing(m)'
    BY <1>1, <1>3 DEF GdaFinishing
  <2>2. ~GdaAhead(m)'
    BY <1>1, <1>2, <1>3 DEF GdaAhead
  <2> QED
    BY <2>1, <2>2 DEF GdaArrived
<1>5. ASSUME NEW q \in Members, q # m
      PROVE  /\ GdaTaken(q)' <=> GdaTaken(q)
             /\ (GdaFinishing(q) \/ GdaAhead(q))'
             /\ GdaArrived(q)' <=> GdaArrived(q)
  <2>1. GdaTaken(q)' <=> GdaTaken(q)
    BY <1>5 DEF GdaTaken
  <2>2. GdaReleased(q)' = GdaReleased(q)
    BY <1>5 DEF GdaReleased
  <2> QED
    BY <1>5, <2>1, <2>2, SameMember DEF GdaInv, GdaMemberInv
<1>6. GdaMemberInv'
  BY <1>1, <1>4, <1>5 DEF GdaInv, GdaMemberInv
<1>7. GdaAnnounced' = GdaAnnounced
  BY <1>1, <1>4, <1>5 DEF GdaAnnounced
<1> QED
  BY <1>3, <1>6, <1>7

(* One more put is on its way. *)
LEMMA OneFlying ==
  ASSUME FlyingInv, NEW m \in Members, NEW v \in Nat, ~InFlight(m),
         flying' = flying \cup {<<m, v>>}
  PROVE  /\ FlyingInv' /\ InFlight(m)'
         /\ \A q \in Members : q # m => (InFlight(q)' <=> InFlight(q))
<1>1. InFlight(m)'
  <2>1. <<m, v>> \in flying' /\ <<m, v>>[1] = m
    OBVIOUS
  <2> QED
    BY <2>1 DEF InFlight
<1>2. ASSUME NEW q \in Members, q # m PROVE InFlight(q)' <=> InFlight(q)
  <2>1. \A put \in flying' : put \in flying \/ put = <<m, v>>
    OBVIOUS
  <2>2. <<m, v>>[1] = m
    OBVIOUS
  <2> QED
    BY <1>2, <2>1, <2>2 DEF InFlight
<1>3. FlyingInv'
  <2>1. \A put \in flying : put[1] # m
    BY DEF InFlight
  <2>2. flying' \subseteq Members \X Nat
    BY DEF FlyingInv
  <2> QED
    BY <2>1, <2>2 DEF FlyingInv
<1> QED
  BY <1>1, <1>2, <1>3

(* A blocking put has arrived when the call returns. *)
LEMMA PutReleaseKeeps ==
  ASSUME GdaInv, PutRelease
  PROVE  GdaInv'
<1> USE PENumbers
<1>1. /\ form = "thread" /\ pc[0] = "put" /\ pc' = [pc EXCEPT ![0] = "release"]
      /\ pSync' = [pSync EXCEPT ![i] = [pSync[i] EXCEPT ![0] = pSync[0][0]]]
      /\ i' = i + 1 /\ direct' = direct /\ round' = round
      /\ form' = form /\ next' = next /\ wpc' = wpc /\ flying' = flying
  BY DEF PutRelease, Goto, Store, gdaVars
<1>2. i \in Members /\ i \in Nat /\ i < N
  BY <1>1 DEF GdaInv, GdaTypes, GdaRootInv, Members
<1> PICK m \in Members : m = i
  BY <1>2
<1>3. GdaTypes'
  <2>1. i' \in 1 .. N
    BY <1>1, <1>2
  <2>2. pSync' \in [PEs -> [PEs -> Nat]]
    BY <1>1, <1>2 DEF GdaInv, GdaTypes
  <2> QED
    BY <1>1, <2>1, <2>2 DEF GdaInv, GdaTypes
<1>4. /\ pc'[0] = "release" /\ \A q \in Members : pc'[q] = pc[q]
      /\ \A q \in PEs : pSync'[0][q] = pSync[0][q]
      /\ \A q \in Members : q # m => pSync'[q][0] = pSync[q][0]
  BY <1>1, <1>2 DEF GdaInv, GdaTypes
<1>5. ~Given(m) /\ Given(m)'
      /\ \A q \in Members : q # m => (Given(q)' <=> Given(q))
  BY <1>1, <1>2, <1>4 DEF Given
<1>6. \A q \in Members : InFlight(q)' <=> InFlight(q)
  BY <1>1 DEF InFlight
<1>7. ~InFlight(m)
  BY <1>1, <1>5 DEF GdaInv, GdaMemberInv, GdaTaken, GdaArrived, GdaAhead
<1>8. GdaMemberInv' /\ GdaAnnounced' = GdaAnnounced
  BY <1>1, <1>4, <1>5, <1>6, <1>7, OneGiven
<1>9. GdaFlagInv'
  BY <1>1, <1>4, <1>8, SameGdaFlags DEF GdaInv
<1>10. GdaCountInv' /\ GdaRootInv' /\ FlyingInv' /\ WaveInv'
  BY <1>1, <1>4, NoWaves DEF GdaInv, GdaCountInv, GdaRootInv, FlyingInv
<1> QED
  BY <1>3, <1>8, <1>9, <1>10 DEF GdaInv

(* A nonblocking put carries what PE 0's entry holds when it is posted. *)
LEMMA PostReleaseKeeps ==
  ASSUME GdaInv, PostRelease
  PROVE  GdaInv'
<1> USE PENumbers
<1>1. /\ form = "atomic" /\ pc[0] = "put" /\ i < N
      /\ flying' = flying \cup {<<i, pSync[0][0]>>}
      /\ i' = i + 1 /\ direct' = direct /\ round' = round /\ pc' = pc
      /\ form' = form /\ next' = next /\ wpc' = wpc /\ pSync' = pSync
  BY DEF PostRelease
<1>2. i \in Members /\ i \in Nat /\ pSync[0][0] \in Nat
  BY <1>1 DEF GdaInv, GdaTypes, Members
<1> PICK m \in Members, v \in Nat : m = i /\ v = pSync[0][0]
  BY <1>2
<1>3. GdaTypes'
  <2>1. i' \in 1 .. N
    BY <1>1, <1>2
  <2> QED
    BY <1>1, <2>1 DEF GdaInv, GdaTypes
<1>4. ~Given(m) /\ Given(m)'
      /\ \A q \in Members : q # m => (Given(q)' <=> Given(q))
  BY <1>1, <1>2 DEF Given
<1>5. ~InFlight(m)
  BY <1>1, <1>4 DEF GdaInv, GdaMemberInv, GdaTaken, GdaArrived, GdaAhead
<1>6. flying' = flying \cup {<<m, v>>}
  BY <1>1
<1>7. FlyingInv' /\ \A q \in Members : q # m => (InFlight(q)' <=> InFlight(q))
  BY <1>5, <1>6, OneFlying DEF GdaInv
<1>8. GdaMemberInv' /\ GdaAnnounced' = GdaAnnounced
  BY <1>1, <1>4, <1>7, OneGiven
<1>9. GdaFlagInv'
  BY <1>1, <1>8, SameGdaFlags DEF GdaInv
<1>10. GdaCountInv' /\ GdaRootInv' /\ WaveInv'
  BY <1>1, NoWaves DEF GdaInv, GdaCountInv, GdaRootInv
<1> QED
  BY <1>3, <1>7, <1>8, <1>9, <1>10 DEF GdaInv

(* The release lands: only a member that waits for it has one coming. *)
LEMMA DeliverKeeps ==
  ASSUME GdaInv, Deliver
  PROVE  GdaInv'
<1> USE PENumbers
<1>1. PICK m \in Members, v \in Nat :
        /\ <<m, v>> \in flying /\ flying' = flying \ {<<m, v>>}
        /\ pSync' = [pSync EXCEPT ![m] = [pSync[m] EXCEPT ![0] = v]]
        /\ direct' = direct /\ pc' = pc /\ i' = i /\ round' = round
        /\ form' = form /\ next' = next /\ wpc' = wpc
  <2>1. PICK put \in flying :
          /\ Store(put[1], 0, put[2]) /\ flying' = flying \ {put}
          /\ UNCHANGED <<direct, pc, i, round, form, next, wpc>>
    BY DEF Deliver
  <2>2. put[1] \in Members /\ put[2] \in Nat /\ put = <<put[1], put[2]>>
    BY DEF GdaInv, FlyingInv
  <2> QED
    BY <2>1, <2>2 DEF Store
<1>2. GdaTypes'
  BY <1>1 DEF GdaInv, GdaTypes
<1>3. /\ \A q \in PEs : pSync'[0][q] = pSync[0][q]
      /\ \A q \in Members : q # m => pSync'[q][0] = pSync[q][0]
  BY <1>1 DEF GdaInv, GdaTypes
<1>4. InFlight(m) /\ ~InFlight(m)'
  BY <1>1 DEF InFlight, GdaInv, FlyingInv
<1>5. \A q \in Members : q # m => (InFlight(q)' <=> InFlight(q))
  BY <1>1 DEF InFlight
<1>6. \A q \in Members : Given(q)' <=> Given(q)
  BY <1>1 DEF Given, Offered
<1>7. \A q \in Members : TakenByWave(q)' <=> TakenByWave(q)
  BY <1>1 DEF TakenByWave
<1>8. \A q \in Members : /\ GdaReleased(q)' = GdaReleased(q)
                         /\ GdaTaken(q)' <=> GdaTaken(q)
  BY <1>1, <1>6, <1>7 DEF GdaReleased, GdaTaken
<1>9. GdaFinishing(m)' /\ ~GdaArrived(m) /\ ~GdaArrived(m)'
  <2>1. GdaFinishing(m) /\ ~GdaArrived(m) /\ pc[m] = "wait"
    BY <1>4 DEF GdaInv, GdaMemberInv, GdaFinishing, GdaArrived, GdaAhead
  <2>2. GdaFinishing(m)'
    BY <1>1, <1>4, <1>8, <2>1 DEF GdaFinishing
  <2>3. round[m] = GdaReleased(m) /\ GdaReleased(m) \in Int
    BY <2>1 DEF GdaFinishing, GdaReleased, GdaInv, GdaTypes
  <2>4. ~GdaArrived(m)'
    BY <1>1, <1>8, <2>3 DEF GdaArrived, GdaAhead
  <2> QED
    BY <2>1, <2>2, <2>4
<1>10. ASSUME NEW q \in Members
       PROVE  /\ (GdaFinishing(q) \/ GdaAhead(q))'
              /\ GdaArrived(q)' <=> GdaArrived(q)
  <2>1. CASE q = m
    BY <1>9, <2>1
  <2>2. CASE q # m
    BY <1>1, <1>3, <1>5, <1>8, <2>2, SameMember DEF GdaInv, GdaMemberInv
  <2> QED
    BY <2>1, <2>2
<1>11. GdaMemberInv' /\ GdaAnnounced' = GdaAnnounced
  BY <1>8, <1>10, SameMembers DEF GdaInv
<1>12. GdaFlagInv' /\ GdaCountInv' /\ WaveInv'
  BY <1>1, <1>3, <1>11, SameGdaFlags, SameCount, SameWaves DEF GdaInv
<1>13. FlyingInv'
  BY <1>1 DEF GdaInv, FlyingInv
<1>14. GdaRootInv'
  <2>1. direct /\ pc[0] = "reset" => i \in PEs
    BY DEF GdaInv, GdaTypes, GdaRootInv, PEs
  <2> QED
    BY <1>1, <1>3, <1>11, <2>1 DEF GdaInv, GdaRootInv
<1> QED
  BY <1>2, <1>11, <1>12, <1>13, <1>14 DEF GdaInv

(* A wavefront sees the next of its arrivals. *)
LEMMA WaveSeesKeeps ==
  ASSUME GdaInv, NEW w \in Waves, WaveSees(w)
  PROVE  GdaInv'
<1> USE PENumbers
<1>1. /\ pc[0] = "gather" /\ form = "wg" /\ wpc' = [wpc EXCEPT ![w] = "reset"]
      /\ next[w] < N /\ pSync[0][next[w]] = 1
      /\ direct' = direct /\ pSync' = pSync /\ pc' = pc /\ i' = i /\ round' = round
      /\ form' = form /\ next' = next /\ flying' = flying
  BY DEF WaveSees, WaveGoto, vars
<1>2. GdaTypes'
  BY <1>1 DEF GdaInv, GdaTypes
<1>3. \A q \in Members : Given(q)' <=> Given(q)
  BY <1>1 DEF Given
<1>4. \A q \in Members : GdaTaken(q)' <=> GdaTaken(q)
  BY <1>1, <1>3 DEF GdaTaken, TakenByWave
<1>5. GdaMemberInv' /\ GdaAnnounced' = GdaAnnounced
  BY <1>1, <1>3, <1>4, RootMoves
<1>6. GdaFlagInv' /\ GdaCountInv'
  BY <1>1, <1>5, SameGdaFlags, SameCount DEF GdaInv
<1>7. WaveInv'
  BY <1>1 DEF GdaInv, GdaTypes, WaveInv
<1>8. FlyingInv' /\ GdaRootInv'
  BY <1>1 DEF GdaInv, FlyingInv, GdaRootInv
<1> QED
  BY <1>2, <1>5, <1>6, <1>7, <1>8 DEF GdaInv

(* It takes the arrival down and goes on to the next of its share. *)
LEMMA WaveResetsKeeps ==
  ASSUME GdaInv, NEW w \in Waves, WaveResets(w)
  PROVE  GdaInv'
<1> USE PENumbers, WaveTypes
<1>1. /\ form = "wg" /\ wpc[w] = "reset" /\ wpc' = [wpc EXCEPT ![w] = "wait"]
      /\ pSync' = [pSync EXCEPT ![0] = [pSync[0] EXCEPT ![next[w]] = 0]]
      /\ next' = [next EXCEPT ![w] = next[w] + NumWaves]
      /\ direct' = direct /\ pc' = pc /\ i' = i /\ round' = round
      /\ form' = form /\ flying' = flying
  BY DEF WaveResets, WaveGoto, Store
<1>2. next[w] \in Share(w) /\ pc[0] = "gather" /\ next[w] < N /\ pSync[0][next[w]] = 1
  BY <1>1 DEF GdaInv, WaveInv
<1>3. next[w] \in Nat /\ next[w] >= 1
  BY <1>2, ShareSteps
<1> PICK m \in Members : m = next[w]
  BY <1>2, <1>3 DEF Members
<1>4. GdaTypes'
  <2>1. pSync' \in [PEs -> [PEs -> Nat]]
    BY <1>1 DEF GdaInv, GdaTypes
  <2>2. next' \in [Waves -> Nat]
    BY <1>1 DEF GdaInv, GdaTypes
  <2> QED
    BY <1>1, <2>1, <2>2 DEF GdaInv, GdaTypes
<1>5. /\ \A q \in Members : pSync'[q][0] = pSync[q][0]
      /\ \A q \in PEs : pSync'[0][q] = IF q = m THEN 0 ELSE pSync[0][q]
      /\ next'[w] = next[w] + NumWaves /\ wpc'[w] = "wait"
      /\ \A v \in Waves : v # w => next'[v] = next[v] /\ wpc'[v] = wpc[v]
  BY <1>1 DEF GdaInv, GdaTypes
<1>6. direct /\ m \in GdaAnnounced
  <2>1. direct
    BY <1>1 DEF GdaInv, GdaTypes
  <2>2. pSync[0][m] = 1 /\ pSync[0][m] = IF m \in GdaAnnounced THEN 1 ELSE 0
    BY <1>2, <2>1 DEF GdaInv, GdaFlagInv
  <2> QED
    BY <2>1, <2>2
<1>7. ASSUME NEW q \in Members PROVE TakenByWave(q)' <=> TakenByWave(q) \/ q = m
  <2>1. ASSUME NEW v \in Waves, q \in Share(v)
        PROVE  q < next'[v] <=> q < next[v] \/ (v = w /\ q = m)
    <3>1. CASE v = w
      <4>1. m \in Share(w) /\ q \in Share(w) /\ next'[v] = m + NumWaves /\ next[v] = m
        BY <1>2, <1>5, <2>1, <3>1
      <4>2. q < m + NumWaves <=> q < m \/ q = m
        BY <4>1, ShareSteps
      <4> QED
        BY <3>1, <4>1, <4>2
    <3>2. CASE v # w
      BY <1>5, <3>2
    <3> QED
      BY <3>1, <3>2
  <2> QED
    BY <1>2, <2>1 DEF TakenByWave
<1>8. ASSUME NEW q \in Members
      PROVE  /\ GdaReleased(q)' = GdaReleased(q)
             /\ GdaTaken(q)' <=> GdaTaken(q) \/ q = m
             /\ (GdaFinishing(q) \/ GdaAhead(q))'
             /\ GdaArrived(q)' <=> GdaArrived(q)
  <2>1. ~Given(q) /\ ~Given(q)'
    BY <1>1, <1>2 DEF Given
  <2>2. GdaReleased(q)' = GdaReleased(q) /\ (InFlight(q)' <=> InFlight(q))
    BY <1>1, <2>1 DEF GdaReleased, InFlight
  <2>3. GdaTaken(q)' <=> GdaTaken(q) \/ q = m
    BY <1>1, <1>2, <1>7 DEF GdaTaken
  <2> QED
    BY <1>1, <1>5, <2>2, <2>3, SameMember DEF GdaInv, GdaMemberInv
<1>9. GdaMemberInv'
  BY <1>6, <1>8 DEF GdaInv, GdaMemberInv, GdaAnnounced
<1>10. GdaAnnounced' = GdaAnnounced \ {m}
  BY <1>8 DEF GdaAnnounced
<1>11. GdaFlagInv'
  BY <1>1, <1>5, <1>10 DEF GdaInv, GdaFlagInv
<1>12. WaveInv'
  <2>1. next'[w] \in Share(w)
    BY <1>2, <1>5, ShareSteps
  <2>2. ASSUME NEW v \in Waves, v # w, wpc'[v] = "reset"
        PROVE  next'[v] < N /\ pSync'[0][next'[v]] = 1
    <3>1. next'[v] = next[v] /\ next[v] \in Share(v) /\ next[v] < N
          /\ pSync[0][next[v]] = 1
      BY <1>1, <1>5, <2>2 DEF GdaInv, WaveInv
    <3>2. next[v] \in Members
      <4>1. next[v] \in Nat /\ next[v] >= 1
        BY <3>1, ShareSteps
      <4> QED
        BY <3>1, <4>1 DEF Members
    <3>3. next[v] # m
      BY <1>2, <2>2, <3>1, Shares
    <3> QED
      BY <1>5, <3>1, <3>2, <3>3
  <2> QED
    BY <1>1, <1>2, <1>5, <2>1, <2>2 DEF GdaInv, WaveInv
<1>13. GdaCountInv' /\ FlyingInv' /\ GdaRootInv'
  BY <1>1, <1>2, <1>6 DEF GdaInv, GdaCountInv, FlyingInv, GdaRootInv
<1> QED
  BY <1>4, <1>9, <1>11, <1>12, <1>13 DEF GdaInv

(* All wavefronts are through their shares, so all members are taken. *)
LEMMA WavesGatheredKeep ==
  ASSUME GdaInv, WavesGathered
  PROVE  GdaInv'
<1> USE PENumbers, WaveTypes
<1>1. /\ form = "wg" /\ pc[0] = "gather" /\ pc' = [pc EXCEPT ![0] = "release"]
      /\ \A w \in Waves : next[w] >= N /\ wpc[w] = "wait"
      /\ next' = [w \in Waves |-> FirstOf(w)] /\ i' = N
      /\ direct' = direct /\ pSync' = pSync /\ round' = round
      /\ form' = form /\ wpc' = wpc /\ flying' = flying
  BY DEF WavesGathered, Goto
<1>2. pc'[0] = "release" /\ \A q \in Members : pc'[q] = pc[q]
  BY <1>1 DEF GdaInv, GdaTypes
<1>3. GdaTypes'
  <2>1. i' \in 1 .. N
    BY <1>1
  <2>2. next' \in [Waves -> Nat]
    BY <1>1
  <2> QED
    BY <1>1, <2>1, <2>2 DEF GdaInv, GdaTypes
<1>4. (\A w \in Waves : next[w] = FirstOf(w))'
  BY <1>1
<1>5. ASSUME NEW q \in Members PROVE ~Offered(q)'
  <2>1. ASSUME NEW w \in Waves, NEW k \in Share(w), k < next'[w] PROVE FALSE
    <3>1. k \in Nat /\ k >= FirstOf(w) /\ FirstOf(w) \in Nat
      BY ShareSteps
    <3> QED
      BY <1>1, <2>1, <3>1
  <2> QED
    BY <2>1 DEF Offered
<1>6. ASSUME NEW q \in Members PROVE TakenByWave(q)
  <2>1. PICK w \in Waves : q \in Share(w)
    BY Shares
  <2>2. next[w] >= N /\ next[w] \in Nat
    BY <1>1 DEF GdaInv, GdaTypes
  <2> QED
    BY <2>1, <2>2 DEF TakenByWave
<1>7. GdaMemberInv' /\ GdaAnnounced' = GdaAnnounced
  <2>1. \A q \in Members : ~Given(q) /\ ~Given(q)'
    BY <1>1, <1>2, <1>5 DEF Given
  <2>2. \A q \in Members : GdaTaken(q) /\ GdaTaken(q)'
    BY <1>1, <1>2, <1>6, <2>1 DEF GdaTaken
  <2> QED
    BY <1>1, <1>2, <2>1, <2>2, RootMoves
<1>8. GdaFlagInv' /\ GdaCountInv'
  BY <1>1, <1>2, <1>7, SameGdaFlags DEF GdaInv, GdaCountInv
<1>9. WaveInv'
  BY <1>1, <1>2 DEF WaveInv
<1>10. FlyingInv' /\ GdaRootInv'
  BY <1>1, <1>2 DEF GdaInv, FlyingInv, GdaRootInv
<1> QED
  BY <1>3, <1>7, <1>8, <1>9, <1>10 DEF GdaInv

(* A wavefront posts the next of its releases: to a member that has not *)
(* been given one, or, in a team with gaps, perhaps to nobody. *)
LEMMA WavePostsKeeps ==
  ASSUME GdaInv, NEW w \in Waves, WavePosts(w)
  PROVE  GdaInv'
<1> USE PENumbers, WaveTypes
<1> DEFINE o == Offset(Target(w, next[w]))
<1>1. /\ form = "wg" /\ pc[0] = "release" /\ wpc[w] = "wait" /\ next[w] < N
      /\ wpc' = [wpc EXCEPT ![w] = "wait"]
      /\ flying' = flying \cup ({<<o, 1>>} \cap (PEs \X {1}))
      /\ next' = [next EXCEPT ![w] = next[w] + NumWaves]
      /\ direct' = direct /\ pSync' = pSync /\ pc' = pc /\ i' = i /\ round' = round
      /\ form' = form
  BY DEF WavePosts, WaveGoto, vars
<1>2. next[w] \in Share(w)
  BY <1>1 DEF GdaInv, WaveInv
<1>3. next[w] \in Nat /\ next[w] + NumWaves \in Share(w)
      /\ \A l \in Share(w) : l < next[w] + NumWaves <=> l < next[w] \/ l = next[w]
  BY <1>2, ShareSteps
<1>4. next'[w] = next[w] + NumWaves
      /\ \A v \in Waves : v # w => next'[v] = next[v]
  BY <1>1 DEF GdaInv, GdaTypes
<1>5. wpc' = wpc
  BY <1>1 DEF GdaInv, GdaTypes
<1>6. GdaTypes'
  <2>1. next' \in [Waves -> Nat]
    BY <1>1, <1>3 DEF GdaInv, GdaTypes
  <2> QED
    BY <1>1, <1>5, <2>1 DEF GdaInv, GdaTypes
<1>7. ASSUME NEW q \in Members PROVE Offered(q)' <=> Offered(q) \/ q = o
  <2>1. ASSUME NEW v \in Waves, NEW k \in Share(v)
        PROVE  k < next'[v] <=> k < next[v] \/ (v = w /\ k = next[w])
    <3>1. CASE v = w
      BY <1>3, <1>4, <2>1, <3>1
    <3>2. CASE v # w
      BY <1>4, <3>2
    <3> QED
      BY <3>1, <3>2
  <2> QED
    BY <1>2, <2>1 DEF Offered
<1>8. o \in PEs => o \in Members /\ ~Offered(o)
  <2> SUFFICES ASSUME o \in PEs PROVE o \in Members /\ ~Offered(o)
    OBVIOUS
  <2>1. o \in Members
    BY <1>2, TargetsDiffer
  <2>2. ASSUME NEW v \in Waves, NEW k \in Share(v), k < next[v], Offset(Target(v, k)) = o
        PROVE  FALSE
    <3>1. v = w /\ k = next[w]
      BY <1>2, <2>2, TargetsDiffer
    <3> QED
      BY <1>3, <2>2, <3>1
  <2> QED
    BY <2>1, <2>2 DEF Offered
<1> HIDE DEF o
<1>9. \A q \in Members : Given(q) <=> Offered(q)
  BY <1>1 DEF Given
<1>10. \A q \in Members : Given(q)' <=> Offered(q)'
  BY <1>1 DEF Given
<1>11. WaveInv'
  BY <1>1, <1>3, <1>4, <1>5 DEF GdaInv, WaveInv
<1>12. GdaRootInv'
  BY <1>1 DEF GdaInv, GdaRootInv
<1>13. CASE o \in PEs
  <2> PICK m \in Members : m = o
    BY <1>8, <1>13
  <2>1. flying' = flying \cup {<<m, 1>>}
    BY <1>1, <1>13
  <2>2. ~Given(m) /\ Given(m)' /\ \A q \in Members : q # m => (Given(q)' <=> Given(q))
    BY <1>7, <1>8, <1>9, <1>10, <1>13
  <2>3. ~InFlight(m)
    BY <1>1, <2>2 DEF GdaInv, GdaMemberInv, GdaTaken, GdaArrived, GdaAhead
  <2>4. FlyingInv' /\ \A q \in Members : q # m => (InFlight(q)' <=> InFlight(q))
    BY <2>1, <2>3, OneFlying DEF GdaInv
  <2>5. GdaMemberInv' /\ GdaAnnounced' = GdaAnnounced
    BY <1>1, <2>2, <2>4, OneGiven
  <2>6. GdaFlagInv' /\ GdaCountInv'
    BY <1>1, <2>5, SameGdaFlags, SameCount DEF GdaInv
  <2> QED
    BY <1>6, <1>11, <1>12, <2>4, <2>5, <2>6 DEF GdaInv
<1>14. CASE o \notin PEs
  <2>1. flying' = flying
    BY <1>1, <1>14
  <2>2. \A q \in Members : Given(q)' <=> Given(q)
    BY <1>7, <1>9, <1>10, <1>14
  <2>3. \A q \in Members : GdaTaken(q)' <=> GdaTaken(q)
    BY <1>1, <2>2 DEF GdaTaken
  <2>4. GdaMemberInv' /\ GdaAnnounced' = GdaAnnounced
    BY <1>1, <2>1, <2>2, <2>3, RootMoves
  <2>5. GdaFlagInv' /\ GdaCountInv' /\ FlyingInv'
    BY <1>1, <2>1, <2>4, SameGdaFlags, SameCount DEF GdaInv, FlyingInv
  <2> QED
    BY <1>6, <1>11, <1>12, <2>4, <2>5 DEF GdaInv
<1> QED
  BY <1>13, <1>14

(* The puts are over: whoever got none waits on, finishing the round. *)
LEMMA WavesQuietKeep ==
  ASSUME GdaInv, WavesQuiet
  PROVE  GdaInv'
<1> USE PENumbers, WaveTypes
<1>1. /\ form = "wg" /\ pc[0] = "release" /\ pc' = [pc EXCEPT ![0] = "clean"]
      /\ flying = {} /\ next' = [w \in Waves |-> FirstOf(w)]
      /\ direct' = direct /\ pSync' = pSync /\ i' = i /\ round' = round
      /\ form' = form /\ wpc' = wpc /\ flying' = flying
  BY DEF WavesQuiet, Goto
<1>2. pc'[0] = "clean" /\ \A q \in Members : pc'[q] = pc[q]
  BY <1>1 DEF GdaInv, GdaTypes
<1>3. GdaTypes'
  <2>1. next' \in [Waves -> Nat]
    BY <1>1
  <2> QED
    BY <1>1, <2>1 DEF GdaInv, GdaTypes
<1>4. ASSUME NEW q \in Members
      PROVE  /\ GdaReleased(q)' = round[0] /\ ~GdaTaken(q)' /\ ~InFlight(q)'
             /\ GdaTaken(q) <=> ~Given(q)
  BY <1>1, <1>2 DEF GdaReleased, GdaTaken, Given, InFlight
<1>5. round[0] \in Nat
  BY DEF GdaInv, GdaTypes
<1>6. ASSUME NEW q \in Members
      PROVE  /\ (GdaFinishing(q) \/ GdaAhead(q))'
             /\ GdaArrived(q)' <=> GdaArrived(q) /\ ~GdaTaken(q)
  <2>1. CASE Given(q)
    <3>1. GdaReleased(q)' = GdaReleased(q) /\ (InFlight(q)' <=> InFlight(q))
      BY <1>1, <1>4, <2>1 DEF GdaReleased, InFlight
    <3> QED
      BY <1>1, <1>2, <1>4, <2>1, <3>1, SameMember DEF GdaInv, GdaMemberInv
  <2>2. CASE ~Given(q)
    <3>1. round[q] = round[0] /\ pc[q] = "wait"
      BY <1>4, <1>5, <2>2
      DEF GdaInv, GdaMemberInv, GdaArrived, GdaAhead, GdaReleased
    <3>2. GdaFinishing(q)'
      BY <1>1, <1>2, <1>4, <3>1 DEF GdaFinishing
    <3>3. ~GdaArrived(q)'
      BY <1>1, <1>4, <1>5, <3>1 DEF GdaArrived, GdaAhead
    <3> QED
      BY <1>4, <2>2, <3>2, <3>3
  <2> QED
    BY <2>1, <2>2
<1>7. GdaMemberInv'
  BY <1>4, <1>6 DEF GdaMemberInv
<1>8. GdaAnnounced' = GdaAnnounced
  BY <1>4, <1>6 DEF GdaAnnounced
<1>9. GdaFlagInv' /\ GdaCountInv'
  BY <1>1, <1>2, <1>8, SameGdaFlags DEF GdaInv, GdaCountInv
<1>10. WaveInv'
  BY <1>1, <1>2 DEF GdaInv, WaveInv
<1>11. FlyingInv' /\ GdaRootInv'
  BY <1>1, <1>2 DEF GdaInv, FlyingInv, GdaRootInv
<1> QED
  BY <1>3, <1>7, <1>9, <1>10, <1>11 DEF GdaInv

(* Nothing happens. *)
LEMMA StandKeeps ==
  ASSUME GdaInv, UNCHANGED allVars
  PROVE  GdaInv'
<1>1. /\ direct' = direct /\ pSync' = pSync /\ pc' = pc /\ i' = i /\ round' = round
      /\ form' = form /\ next' = next /\ wpc' = wpc /\ flying' = flying
  BY DEF allVars, vars, gdaVars
<1>2. \A q \in Members : (Given(q)' <=> Given(q)) /\ (GdaTaken(q)' <=> GdaTaken(q))
  BY <1>1 DEF Given, Offered, GdaTaken, TakenByWave
<1>3. GdaMemberInv' /\ GdaAnnounced' = GdaAnnounced
  BY <1>1, <1>2, RootMoves
<1>4. GdaFlagInv' /\ GdaCountInv'
  BY <1>1, <1>3, SameGdaFlags, SameCount DEF GdaInv
<1>5. GdaTypes' /\ FlyingInv' /\ WaveInv' /\ GdaRootInv'
  BY <1>1, <1>3 DEF GdaInv, GdaTypes, FlyingInv, WaveInv, GdaRootInv
<1> QED
  BY <1>3, <1>4, <1>5 DEF GdaInv

(* The steps of a GDA form, one by one. *)
LEMMA GdaCases ==
  ASSUME [AllNext \/ AllFinished]_allVars, form # "ipc"
  PROVE  /\ form' = form
         /\ \/ \E p \in PEs :
                 \/ GdaEnter(p) \/ Mark(p) \/ ClearFirst(p) \/ Unmark(p)
                 \/ Arrive(p) /\ UNCHANGED gdaVars
                 \/ SeeRelease(p) /\ UNCHANGED gdaVars
                 \/ ClearRelease(p) /\ UNCHANGED gdaVars
            \/ /\ form # "wg" /\ UNCHANGED gdaVars
               /\ SeeArrival \/ ResetArrival \/ AllReached
            \/ SetSource \/ PutRelease \/ PostRelease \/ QuietReleases
            \/ WavesGathered \/ WavesQuiet \/ GdaLeave \/ Deliver
            \/ \E w \in Waves : WaveSees(w) \/ WaveResets(w) \/ WavePosts(w)
            \/ UNCHANGED allVars
<1>1. CASE UNCHANGED allVars
  BY <1>1 DEF allVars, gdaVars
<1>2. CASE AllFinished
  BY <1>2 DEF AllFinished, allVars, gdaVars
<1>3. ASSUME NEW p \in PEs, Spin(p) /\ UNCHANGED gdaVars PROVE UNCHANGED allVars
  BY <1>3 DEF Spin, allVars
<1>4. ASSUME NEW p \in PEs, Ipc(p) PROVE FALSE
  BY <1>4 DEF Ipc
<1>5. CASE \E p \in PEs : GdaEnter(p) \/ MemberStep(p)
  BY <1>5 DEF GdaEnter, MemberStep, Member, Mark, ClearFirst, Unmark, gdaVars
<1>6. CASE LeaderStep
  BY <1>6 DEF LeaderStep, Gather, SetSource, PutRelease, PostRelease, QuietReleases,
              WavesGathered, WavesQuiet, GdaLeave, gdaVars
<1>7. CASE Deliver
  BY <1>7 DEF Deliver
<1>8. CASE \E w \in Waves : WaveStep(w)
  BY <1>8 DEF WaveStep, WaveSees, WaveResets, WavePosts
<1> QED
  BY <1>1, <1>2, <1>3, <1>4, <1>5, <1>6, <1>7, <1>8 DEF AllNext, allVars, gdaVars

(* Every step of a GDA form keeps its invariant. *)
LEMMA NextGda ==
  ASSUME GdaInv, [AllNext \/ AllFinished]_allVars
  PROVE  GdaInv' /\ form' = form
<1>1. form # "ipc"
  BY DEF GdaInv, GdaTypes
<1>2. ASSUME NEW p \in PEs, Arrive(p) /\ UNCHANGED gdaVars PROVE GdaInv'
  BY <1>2, ArriveKeeps
<1>3. ASSUME NEW p \in PEs, SeeRelease(p) /\ UNCHANGED gdaVars PROVE GdaInv'
  BY <1>3, SeesKeeps
<1>4. ASSUME NEW p \in PEs,
             (ClearRelease(p) /\ UNCHANGED gdaVars) \/ ClearFirst(p) \/ Unmark(p)
      PROVE  GdaInv'
  BY <1>4, ClearsKeep DEF ClearFirst, Unmark
<1>5. ASSUME form # "wg", UNCHANGED gdaVars, SeeArrival \/ ResetArrival \/ AllReached
      PROVE  GdaInv'
  BY <1>5, SeeArrivalKeeps, ResetArrivalKeeps, AllReachedKeeps
<1>6. ASSUME NEW w \in Waves, WaveSees(w) \/ WaveResets(w) \/ WavePosts(w)
      PROVE  GdaInv'
  BY <1>6, WaveSeesKeeps, WaveResetsKeeps, WavePostsKeeps
<1> QED
  BY <1>1, <1>2, <1>3, <1>4, <1>5, <1>6, GdaCases, GdaEnterKeeps, MarkKeeps,
     SourceKeeps, PutReleaseKeeps, PostReleaseKeeps, WavesGatheredKeep,
     WavesQuietKeep, DeliverKeeps, StandKeeps

----------------------------------------------------------------------------
(* All the forms a team may use. *)

(* The invariant of the form that runs. *)
FormInv == IF form = "ipc" THEN BarrierInv /\ flying = {} ELSE GdaInv

(* A step of the IPC form is a step of IpcBarrier. *)
LEMMA IpcSteps ==
  ASSUME BarrierInv, flying = {}, form = "ipc", [AllNext \/ AllFinished]_allVars
  PROVE  /\ [Next \/ Finished]_vars
         /\ form' = form /\ flying' = flying
<1>1. \A p \in PEs : pc[p] \notin {"mark", "unmark"}
  BY DEF BarrierInv, TypeOK
<1>2. CASE UNCHANGED allVars \/ AllFinished
  BY <1>2 DEF AllFinished, allVars, gdaVars
<1>3. ASSUME NEW p \in PEs, Ipc(p)
      PROVE  Next /\ form' = form /\ flying' = flying
  BY <1>3 DEF Ipc, Next, gdaVars
<1>4. ASSUME NEW p \in PEs, Spin(p), UNCHANGED gdaVars
      PROVE  Next /\ form' = form /\ flying' = flying
  BY <1>4 DEF Next, gdaVars
<1>5. ASSUME NEW p \in PEs, GdaEnter(p) \/ MemberStep(p) PROVE FALSE
  BY <1>1, <1>5, PENumbers
  DEF GdaEnter, MemberStep, Member, Mark, ClearFirst, Unmark, Goto
<1>6. CASE LeaderStep
  BY <1>6 DEF LeaderStep, Gather, SetSource, PutRelease, PostRelease, QuietReleases,
              WavesGathered, WavesQuiet, GdaLeave
<1>7. CASE Deliver
  BY <1>7 DEF Deliver
<1>8. ASSUME NEW w \in Waves, WaveStep(w) PROVE FALSE
  BY <1>8 DEF WaveStep, WaveSees, WaveResets, WavePosts, WaveGoto
<1> QED
  BY <1>2, <1>3, <1>4, <1>5, <1>6, <1>7, <1>8 DEF AllNext

(* Nobody has called yet, in any form. *)
LEMMA InitForm == AllInit => FormInv
<1>1. AllInit /\ form = "ipc" => BarrierInv /\ flying = {}
  BY InitBarrier DEF AllInit
<1> QED
  BY <1>1, InitGda DEF FormInv

(* Every step keeps the invariant of the form. *)
LEMMA NextForm == FormInv /\ [AllNext \/ AllFinished]_allVars => FormInv'
<1> SUFFICES ASSUME FormInv, [AllNext \/ AllFinished]_allVars PROVE FormInv'
  OBVIOUS
<1>1. CASE form = "ipc"
  <2>1. BarrierInv /\ flying = {}
    BY <1>1 DEF FormInv
  <2>2. [Next \/ Finished]_vars /\ form' = form /\ flying' = flying
    BY <1>1, <2>1, IpcSteps
  <2>3. BarrierInv'
    BY <2>1, <2>2, NextBarrier
  <2> QED
    BY <1>1, <2>1, <2>2, <2>3 DEF FormInv
<1>2. CASE form # "ipc"
  <2>1. GdaInv' /\ form' = form
    BY <1>2, NextGda DEF FormInv
  <2> QED
    BY <1>2, <2>1 DEF FormInv
<1> QED
  BY <1>1, <1>2

(* The invariant of the form that runs holds throughout. *)
THEOREM FormInvariant == BarrierSpec => []FormInv
<1> QED
  BY InitForm, NextForm, PTL DEF BarrierSpec

(* In every form a PE that puts a flag finds the flag of the round before *)
(* taken down. *)
THEOREM AllFlagsAreFresh == BarrierSpec => []FlagsFresh
<1>1. FormInv => FlagsFresh
  <2> SUFFICES ASSUME FormInv PROVE FlagsFresh
    OBVIOUS
  <2>1. CASE form = "ipc"
    BY <2>1, FreshFlags DEF FormInv
  <2>2. CASE form # "ipc"
    <3>1. GdaInv
      BY <2>2 DEF FormInv
    <3>2. ASSUME NEW p \in Members, direct, pc[p] = "arrive"
          PROVE  pSync[0][p] = 0
      BY <3>1, <3>2 DEF GdaInv, GdaFlagInv, GdaAnnounced, GdaArrived
    <3>3. ASSUME pc[0] = "release", i < N
          PROVE  pSync[i][0] = 0
      <4>1. i \in Members /\ i \in Nat /\ form # "wg"
        BY <3>1, <3>3, PENumbers DEF GdaInv, GdaTypes, GdaRootInv, Members
      <4>2. GdaArrived(i)
        BY <3>1, <3>3, <4>1 DEF GdaInv, GdaMemberInv, GdaTaken, Given
      <4> QED
        BY <4>2 DEF GdaArrived, GdaAhead
    <3> QED
      BY <3>2, <3>3 DEF FlagsFresh
  <2> QED
    BY <2>1, <2>2
<1> QED
  BY <1>1, FormInvariant, PTL

----------------------------------------------------------------------------
(* A PE that is about to leave finds every PE in its round or later. *)
LEMMA EveryoneInGda ==
  ASSUME GdaInv, NEW p \in PEs,
         \/ p \in Members /\ pc[p] \in {"clear", "unmark"}
         \/ /\ p = 0
            /\ pc[0] = "clean" \/ (form # "wg" /\ pc[0] = "release" /\ i = N)
  PROVE  \A q \in PEs : round[p] <= round[q]
<1> USE PENumbers
<1>1. \A q \in PEs : round[q] \in Nat
  BY DEF GdaInv, GdaTypes
<1>2. ASSUME NEW q \in Members
      PROVE  /\ round[q] >= round[0] - 1
             /\ Given(q) => round[q] >= round[0]
             /\ ~Given(q) /\ pc[0] \in {"release", "put"} => round[q] >= round[0]
  <2>1. CASE Given(q)
    BY <1>1, <2>1 DEF GdaInv, GdaMemberInv, GdaFinishing, GdaAhead, GdaReleased
  <2>2. CASE ~Given(q)
    <3>1. round[q] = round[0] - 1 \/ round[q] = round[0] - 1 + 1
      BY <2>2 DEF GdaInv, GdaMemberInv, GdaFinishing, GdaAhead, GdaReleased
    <3>2. pc[0] \in {"release", "put"} => round[q] = round[0] - 1 + 1
      BY <2>2 DEF GdaInv, GdaMemberInv, GdaArrived, GdaAhead, GdaReleased, GdaTaken
    <3> QED
      BY <1>1, <2>2, <3>1, <3>2
  <2> QED
    BY <2>1, <2>2
<1>3. CASE p = 0
  <2>1. pc[0] = "clean" \/ (form # "wg" /\ pc[0] = "release" /\ i = N)
    BY <1>3
  <2>2. \A q \in Members : Given(q)
    BY <2>1 DEF Given
  <2> QED
    BY <1>1, <1>2, <1>3, <2>2
<1>4. CASE p # 0
  <2>1. p \in Members /\ round[p] = GdaReleased(p)
    BY <1>4 DEF GdaInv, GdaMemberInv, GdaFinishing, GdaAhead
  <2>2. CASE ~Given(p)
    <3>1. round[p] = round[0] - 1
      BY <2>1, <2>2 DEF GdaReleased
    <3> QED
      BY <1>1, <1>2, <3>1
  <2>3. CASE Given(p)
    <3>1. round[p] = round[0]
      BY <2>1, <2>3 DEF GdaReleased
    <3>2. \A q \in Members : ~Given(q) => pc[0] \in {"release", "put"}
      BY <2>3 DEF Given
    <3> QED
      BY <1>1, <1>2, <3>1, <3>2
  <2> QED
    BY <2>2, <2>3
<1> QED
  BY <1>3, <1>4

(* As over IPC: a step enters, leaves or is invisible. *)
LEMMA GdaStepRefines ==
  ASSUME GdaInv, [AllNext \/ AllFinished]_allVars
  PROVE  [Rounds!Next]_(Rounds!vars)
<1> USE PENumbers
<1>1. /\ pc \in [PEs -> {"out", "mark", "arrive", "wait", "clear", "unmark", "gather",
                         "reset", "release", "put", "clean"}]
      /\ round \in [PEs -> Nat]
  BY DEF GdaInv, GdaTypes
<1>2. \A q \in PEs : round[q] \in Int
  BY <1>1
<1>3. ASSUME NEW p \in PEs, GdaEnter(p) PROVE Rounds!Enter(p)
  <2>1. pc[p] = "out" /\ pc'[p] # "out" /\ round' = [round EXCEPT ![p] = round[p] + 1]
        /\ \A q \in PEs : q # p => pc'[q] = pc[q]
    BY <1>1, <1>3 DEF GdaEnter, Goto
  <2>2. round'[p] = round[p] + 1 /\ \A q \in PEs : q # p => round'[q] = round[q]
    BY <1>1, <2>1
  <2>3. ASSUME NEW q \in PEs
        PROVE  (IF pc'[q] = "out" THEN round'[q] ELSE round'[q] - 1)
                 = (IF pc[q] = "out" THEN round[q] ELSE round[q] - 1)
    <3>1. CASE q = p
      BY <1>2, <2>1, <2>2, <3>1
    <3>2. CASE q # p
      BY <2>1, <2>2, <3>2
    <3> QED
      BY <3>1, <3>2
  <2> QED
    BY <2>1, <2>3 DEF Rounds!Enter, Left
<1>4. ASSUME NEW p \in PEs, pc[p] # "out", pc' = [pc EXCEPT ![p] = "out"],
             round' = round, \A q \in PEs : round[p] <= round[q]
      PROVE  [Rounds!Next]_(Rounds!vars)
  <2>1. Left[p] < round[p]
    BY <1>4, <1>2 DEF Left
  <2>2. Left' = [Left EXCEPT ![p] = round[p]]
    BY <1>1, <1>4 DEF Left
  <2>3. Rounds!Leave(p)
    BY <1>4, <2>1, <2>2 DEF Rounds!Leave
  <2> QED
    BY <2>3 DEF Rounds!Next
<1>5. ASSUME round' = round,
             \A q \in PEs : pc'[q] = "out" <=> pc[q] = "out"
      PROVE  UNCHANGED Rounds!vars
  BY <1>5 DEF Rounds!vars, Left
<1>6. ASSUME round' = round, NEW p \in PEs, pc[p] # "out",
             NEW s \in {"out", "mark", "arrive", "wait", "clear",
             "unmark", "gather", "reset", "release", "put", "clean"}, s # "out",
             pc' = [pc EXCEPT ![p] = s]
      PROVE  UNCHANGED Rounds!vars
  BY <1>1, <1>5, <1>6
<1>7. ASSUME NEW p \in PEs,
             \/ Mark(p) \/ ClearFirst(p) \/ Arrive(p) \/ SeeRelease(p)
      PROVE  UNCHANGED Rounds!vars
  BY <1>6, <1>7 DEF Mark, ClearFirst, Arrive, SeeRelease, Goto
<1>8. ASSUME NEW p \in PEs, Unmark(p) \/ ClearRelease(p)
      PROVE  [Rounds!Next]_(Rounds!vars)
  <2>1. p \in Members /\ pc[p] \in {"clear", "unmark"} /\ round' = round
        /\ pc' = [pc EXCEPT ![p] = "out"]
    BY <1>8 DEF Unmark, ClearRelease, Goto
  <2>2. \A q \in PEs : round[p] <= round[q]
    BY <2>1, EveryoneInGda
  <2> QED
    BY <1>4, <2>1, <2>2
<1>9. CASE GdaLeave
  <2>1. /\ pc[0] = "clean" \/ (form # "wg" /\ pc[0] = "release" /\ i = N)
        /\ round' = round /\ pc' = [pc EXCEPT ![0] = "out"]
    BY <1>9 DEF GdaLeave
  <2>2. \A q \in PEs : round[0] <= round[q]
    BY <2>1, EveryoneInGda
  <2> QED
    BY <1>4, <2>1, <2>2
<1>10. CASE \/ SeeArrival \/ ResetArrival \/ AllReached
           \/ SetSource \/ PutRelease \/ QuietReleases \/ WavesGathered \/ WavesQuiet
  <2>1. PICK s \in {"reset", "gather", "release", "put", "clean"} :
          round' = round /\ pc[0] # "out" /\ pc' = [pc EXCEPT ![0] = s]
    BY <1>10 DEF SeeArrival, ResetArrival, AllReached, SetSource, PutRelease,
                QuietReleases, WavesGathered, WavesQuiet, Goto
  <2> QED
    BY <1>6, <2>1
<1>11. ASSUME round' = round, pc' = pc PROVE UNCHANGED Rounds!vars
  BY <1>5, <1>11
<1>12. CASE PostRelease \/ Deliver \/ UNCHANGED allVars
  BY <1>11, <1>12 DEF PostRelease, Deliver, allVars, vars
<1>13. ASSUME NEW w \in Waves, WaveSees(w) \/ WaveResets(w) \/ WavePosts(w)
       PROVE  UNCHANGED Rounds!vars
  BY <1>11, <1>13 DEF WaveSees, WaveResets, WavePosts, vars
<1>14. form # "ipc"
  BY DEF GdaInv, GdaTypes
<1> QED
  BY <1>3, <1>7, <1>8, <1>9, <1>10, <1>12, <1>13, <1>14, GdaCases DEF Rounds!Next

(* Every form of the barrier, with any number of wavefronts and any stride *)
(* of the team, is one: nobody leaves its n-th barrier before everybody *)
(* has entered the n-th. *)
THEOREM AllFormsAreBarriers == BarrierSpec => ImplementsBarrier
<1>1. AllInit => Rounds!Init
  BY InitRefines DEF AllInit
<1>2. FormInv /\ [AllNext \/ AllFinished]_allVars => [Rounds!Next]_(Rounds!vars)
  BY IpcSteps, StepRefines, GdaStepRefines DEF FormInv
<1> QED
  BY <1>1, <1>2, FormInvariant, PTL
  DEF BarrierSpec, ImplementsBarrier, Rounds!Spec
=============================================================================
