---------------------------- MODULE RoQueueProofs ----------------------------
(***************************************************************************)
(* Proofs about RoQueue for every number of wavefronts, lanes, slots and   *)
(* calls, when one block handle points at the ring.                        *)
(***************************************************************************)
EXTENDS RoQueue, TLAPS

(* Indices less than a ring apart fall on different slots. *)
LEMMA MultipleLemma ==
  ASSUME NEW q \in Nat \ {0}, NEW a \in Int, NEW b \in Int, NEW r \in Int,
         q * a + r <= q * b + r, q * b + r < q * a + r + q
  PROVE  a = b
<1>1. CASE b >= a + 1
  <2>1. q * b >= q * (a + 1)
    BY <1>1
  <2> QED
    BY <2>1
<1>2. CASE b <= a - 1
  <2>1. q * b <= q * (a - 1)
    BY <1>2
  <2> QED
    BY <2>1
<1> QED
  BY <1>1, <1>2

LEMMA WindowLemma ==
  ASSUME NEW i \in Nat, NEW j \in Nat, i <= j, j < i + QSize,
         Slot(i) = Slot(j)
  PROVE  i = j
<1>1. QSize \in Nat \ {0}
  BY RingAssumption
<1>2. /\ i = QSize * (i \div QSize) + Slot(i)
      /\ j = QSize * (j \div QSize) + Slot(i)
      /\ i \div QSize \in Int /\ j \div QSize \in Int /\ Slot(i) \in Int
  BY <1>1 DEF Slot
<1>3. i \div QSize = j \div QSize
  BY <1>1, <1>2, MultipleLemma
<1> QED
  BY <1>2, <1>3

(* A slot number is a number of the ring. *)
LEMMA SlotRange == \A i \in Nat : Slot(i) \in 0 .. QSize - 1
  BY RingAssumption DEF Slot

----------------------------------------------------------------------------
(* Typing.                                                                 *)

LEMMA CallType ==
  ASSUME NEW c \in Calls
  PROVE  c.type \in Types /\ c.comm \in Comms
  BY RingAssumption DEF Calls, Comms

LEMMA SetValidType ==
  ASSUME NEW e \in SlotType, NEW valid \in BOOLEAN
  PROVE  /\ SetValid(e, valid) \in SlotType
         /\ SetValid(e, valid).valid = valid
         /\ SetValid(e, valid).idx = e.idx
  BY DEF SetValid, SlotType

LEMMA EmptySlotType == EmptySlot \in SlotType
  BY DEF EmptySlot, SlotType, Types, Pointers, Comms

LEMMA InitType == Init => TypeOK
<1> SUFFICES ASSUME Init PROVE TypeOK
  OBVIOUS
<1>1. slots \in [0 .. QSize - 1 -> SlotType]
  BY EmptySlotType DEF Init
<1>2. lane \in [Lanes -> [step : LaneSteps, idx : Nat]]
  BY DEF Init, OffLane, LaneSteps
<1>3. active \in [Waves -> 1 .. WfSize] /\ calls \in [Waves -> Nat]
  BY RingAssumption DEF Init
<1>4. inserted \in Seq(SlotType) /\ done \subseteq DOMAIN inserted
  BY DEF Init
<1> QED
  BY <1>1, <1>2, <1>3, <1>4 DEF Init, TypeOK

LEMMA LaneStepType ==
  ASSUME TypeOK, NEW l \in Lanes, NEW from, NEW to \in LaneSteps,
         LaneStep(l, from, to)
  PROVE  lane' \in [Lanes -> [step : LaneSteps, idx : Nat]]
  BY DEF TypeOK, LaneStep

LEMMA LaneSlot ==
  ASSUME TypeOK, NEW l \in Lanes
  PROVE  Slot(lane[l].idx) \in 0 .. QSize - 1
<1>1. lane[l].idx \in Nat
  BY DEF TypeOK
<1> QED
  BY <1>1, SlotRange

(* The type invariant is inductive by itself. *)
LEMMA NextType == TypeOK /\ [Next]_vars => TypeOK'
<1> SUFFICES ASSUME TypeOK, [Next]_vars PROVE TypeOK'
  OBVIOUS
<1>1. ASSUME NEW w \in Waves, Start(w) PROVE TypeOK'
  <2>1. CallsOf[w] \subseteq Calls
    BY DEF Calls
  <2>2. calls' \in [Waves -> Nat]
    BY <1>1, RingAssumption DEF Start, TypeOK
  <2>3. call' \in [Waves -> Calls] /\ active' \in [Waves -> 1 .. WfSize]
    BY <1>1, <2>1 DEF Start, TypeOK
  <2> QED
    BY <1>1, <2>2, <2>3 DEF Start, TypeOK, cpuVars, handleVars
<1>2. ASSUME NEW w \in Waves, AcquireLock(w) PROVE TypeOK'
  BY <1>2 DEF AcquireLock, TypeOK, cpuVars
<1>3. ASSUME NEW w \in Waves, RefreshReadIndex(w) PROVE TypeOK'
  BY <1>3 DEF RefreshReadIndex, TypeOK, cpuVars
<1>4. ASSUME NEW w \in Waves, Reserve(w) PROVE TypeOK'
  <2> DEFINE h == HandleOf[w]
  <2>1. h \in Handles /\ hWriteIndex[h] \in Nat /\ active[w] \in Nat
    BY RingAssumption DEF TypeOK
  <2>2. \A l \in Lanes : hWriteIndex[h] + l[2] \in Nat
    BY <2>1 DEF Lanes, LaneIds
  <2>3. lane' \in [Lanes -> [step : LaneSteps, idx : Nat]]
    BY <1>4, <2>2 DEF Reserve, ReserveAt, TypeOK, LaneSteps
  <2>4. hWriteIndex' \in [Handles -> Nat]
    BY <1>4, <2>1 DEF Reserve, ReserveAt, TypeOK
  <2> QED
    BY <1>4, <2>3, <2>4 DEF Reserve, ReserveAt, TypeOK, cpuVars
<1>5. ASSUME NEW w \in Waves, ReleaseLock(w) PROVE TypeOK'
  BY <1>5 DEF ReleaseLock, TypeOK, cpuVars
<1>6. ASSUME NEW w \in Waves, Return(w) PROVE TypeOK'
  BY <1>6 DEF Return, TypeOK, cpuVars, handleVars
<1>7. ASSUME NEW l \in Lanes, Fill(l) PROVE TypeOK'
  <2> DEFINE s == Slot(lane[l].idx)
             c == call[l[1]]
             old == slots[s]
             new ==
               [valid |-> old.valid, idx |-> lane[l].idx, type |-> c.type,
                team |-> c.comm,
                status |-> IF Blocking(c.type) THEN l ELSE old.status,
                comm |-> IF StoresComm(c.type) THEN c.comm ELSE old.comm]
  <2>1. s \in 0 .. QSize - 1
    BY LaneSlot
  <2>2. c \in Calls
    BY DEF TypeOK, Lanes
  <2>3. slots[s] \in SlotType /\ lane[l].idx \in Nat
    BY <2>1 DEF TypeOK
  <2>4. new \in SlotType
    BY <2>2, <2>3, CallType DEF SlotType, Pointers
  <2>5. slots' = [slots EXCEPT ![s] = new]
    BY <1>7 DEF Fill, FillWith
  <2>6. slots' \in [0 .. QSize - 1 -> SlotType]
    BY <2>1, <2>4, <2>5 DEF TypeOK
  <2>7. lane' \in [Lanes -> [step : LaneSteps, idx : Nat]]
    BY <1>7, LaneStepType DEF Fill, FillWith, LaneSteps
  <2> QED
    BY <1>7, <2>6, <2>7 DEF Fill, FillWith, TypeOK, cpuVars, handleVars
<1>8. ASSUME NEW l \in Lanes, Publish(l) PROVE TypeOK'
  <2>1. Slot(lane[l].idx) \in 0 .. QSize - 1
    BY LaneSlot
  <2>2. slots' \in [0 .. QSize - 1 -> SlotType]
    BY <1>8, <2>1, SetValidType DEF Publish, PublishIf, TypeOK
  <2>3. lane' \in [Lanes -> [step : LaneSteps, idx : Nat]]
    BY <1>8, LaneStepType DEF Publish, PublishIf, LaneSteps
  <2> QED
    BY <1>8, <2>2, <2>3 DEF Publish, PublishIf, TypeOK, cpuVars, handleVars
<1>9. ASSUME NEW l \in Lanes, SeeStatus(l) PROVE TypeOK'
  <2>1. lane' \in [Lanes -> [step : LaneSteps, idx : Nat]]
    BY <1>9, LaneStepType DEF SeeStatus, LaneSteps
  <2> QED
    BY <1>9, <2>1 DEF SeeStatus, TypeOK, cpuVars, handleVars
<1>10. ASSUME NEW l \in Lanes, ResetStatus(l) PROVE TypeOK'
  <2>1. lane' \in [Lanes -> [step : LaneSteps, idx : Nat]]
    BY <1>10, LaneStepType DEF ResetStatus, LaneSteps
  <2> QED
    BY <1>10, <2>1 DEF ResetStatus, TypeOK, cpuVars, handleVars
<1>11. CASE InsertRequest
  <2>1. ReadSlot \in SlotType
    BY SlotRange DEF ReadSlot, TypeOK
  <2>2. inserted' \in Seq(SlotType) /\ done' \subseteq DOMAIN inserted'
    BY <1>11, <2>1 DEF InsertRequest, TypeOK
  <2> QED
    BY <1>11, <2>2 DEF InsertRequest, TypeOK, handleVars
<1>12. CASE ClearValid
  <2>1. Slot(readIndex) \in 0 .. QSize - 1
    BY SlotRange DEF TypeOK
  <2>2. slots' \in [0 .. QSize - 1 -> SlotType]
    BY <1>12, <2>1, SetValidType DEF ClearValid, TypeOK
  <2> QED
    BY <1>12, <2>2 DEF ClearValid, TypeOK, handleVars
<1>13. CASE IncrementReadIndex
  BY <1>13 DEF IncrementReadIndex, TypeOK, handleVars
<1>14. ASSUME NEW k \in DOMAIN inserted, Complete(k) PROVE TypeOK'
  BY <1>14 DEF Complete, TypeOK, handleVars
<1>15. CASE UNCHANGED vars
  BY <1>15 DEF vars, TypeOK, handleVars
<1> QED
  BY <1>1, <1>2, <1>3, <1>4, <1>5, <1>6, <1>7, <1>8, <1>9, <1>10, <1>11,
     <1>12, <1>13, <1>14, <1>15
  DEF Next, WaveNext, LaneNext, CpuNext, Finished, PollStatus

(* Every reachable state of every ring is well typed (TypeOK). *)
THEOREM TypeCorrect == Spec => []TypeOK
  BY InitType, NextType, PTL DEF Spec

----------------------------------------------------------------------------
(***************************************************************************)
(* The inductive invariant of a ring with the single handle h.  The        *)
(* indices between readIndex and write_index form the window: its slots    *)
(* are pairwise distinct (WindowLemma), each lane that has not published   *)
(* yet owns one of its indices, and every valid slot holds a command of it *)
(* that no lane still owns.                                                *)
(***************************************************************************)
LockInv ==
  /\ \A w \in Waves : pc[w] \in {"space", "unlock"} => hLock[HandleOf[w]]
  /\ LockExclusion

CpuInv(h) ==
  /\ cpu # "poll" => readIndex < hWriteIndex[h]
  /\ Len(inserted) = IF cpu = "poll" THEN readIndex ELSE readIndex + 1

(* The index whose command the CPU is taking is no longer pending. *)
Pending(i) == readIndex <= i /\ (cpu # "poll" => i # readIndex)

LaneInv(h) ==
  \A l \in Lanes : Unpublished(l) =>
    /\ Pending(lane[l].idx) /\ lane[l].idx < hWriteIndex[h]
    /\ lane[l].step = "publish" => slots[Slot(lane[l].idx)].idx = lane[l].idx
    /\ \A m \in Lanes : Unpublished(m) /\ lane[m].idx = lane[l].idx => m = l

SlotInv(h) ==
  \A s \in 0 .. QSize - 1 : slots[s].valid =>
    /\ readIndex <= slots[s].idx /\ slots[s].idx < hWriteIndex[h]
    /\ cpu = "advance" => slots[s].idx # readIndex
    /\ Slot(slots[s].idx) = s
    /\ \A l \in Lanes : Unpublished(l) => lane[l].idx # slots[s].idx

RingInv(h) ==
  /\ NoOverrun /\ CpuInv(h) /\ LaneInv(h) /\ SlotInv(h) /\ InOrder

(* Two indices of the window that share a slot are equal. *)
LEMMA WindowSlots ==
  ASSUME NEW h \in Handles, TypeOK, NoOverrun,
         NEW i \in Nat, NEW j \in Nat, Slot(i) = Slot(j),
         readIndex <= i, i < hWriteIndex[h], readIndex <= j, j < hWriteIndex[h]
  PROVE  i = j
<1>1. hWriteIndex[h] <= readIndex + QSize /\ readIndex \in Nat
      /\ hWriteIndex[h] \in Nat /\ QSize \in Nat
  BY RingAssumption DEF TypeOK, NoOverrun
<1>2. CASE i <= j
  BY <1>1, <1>2, WindowLemma
<1>3. CASE j <= i
  BY <1>1, <1>3, WindowLemma
<1> QED
  BY <1>2, <1>3

(* The invariant gives each unpublished lane its slot to itself. *)
LEMMA RingInvFresh ==
  ASSUME NEW h, Handles = {h}, TypeOK, RingInv(h)
  PROVE  FreshSlot
<1> SUFFICES ASSUME NEW l \in Lanes, Unpublished(l)
             PROVE  /\ ~slots[Slot(lane[l].idx)].valid
                    /\ \A m \in Lanes :
                         /\ Unpublished(m)
                         /\ Slot(lane[m].idx) = Slot(lane[l].idx)
                         => m = l
  BY DEF FreshSlot
<1>1. /\ lane[l].idx \in Nat /\ readIndex <= lane[l].idx
      /\ lane[l].idx < hWriteIndex[h]
  BY DEF TypeOK, RingInv, LaneInv, Pending
<1>2. ~slots[Slot(lane[l].idx)].valid
  <2> DEFINE s == Slot(lane[l].idx)
  <2>1. s \in 0 .. QSize - 1 /\ slots[s].idx \in Nat
    BY LaneSlot DEF TypeOK, SlotType
  <2> SUFFICES ASSUME slots[s].valid PROVE FALSE
    OBVIOUS
  <2>2. /\ readIndex <= slots[s].idx /\ slots[s].idx < hWriteIndex[h]
        /\ Slot(slots[s].idx) = s /\ lane[l].idx # slots[s].idx
    BY <2>1 DEF RingInv, SlotInv
  <2>3. lane[l].idx = slots[s].idx
    BY <1>1, <2>1, <2>2, WindowSlots DEF RingInv
  <2> QED
    BY <2>2, <2>3
<1>3. ASSUME NEW m \in Lanes, Unpublished(m),
             Slot(lane[m].idx) = Slot(lane[l].idx)
      PROVE  m = l
  <2>1. /\ lane[m].idx \in Nat /\ readIndex <= lane[m].idx
        /\ lane[m].idx < hWriteIndex[h]
    BY <1>3 DEF TypeOK, RingInv, LaneInv, Pending
  <2>2. lane[m].idx = lane[l].idx
    BY <1>1, <1>3, <2>1, WindowSlots DEF RingInv
  <2> QED
    BY <1>3, <2>2 DEF RingInv, LaneInv
<1> QED
  BY <1>2, <1>3

LEMMA InitRing ==
  ASSUME NEW h, Handles = {h}
  PROVE  Init => LockInv /\ RingInv(h)
<1> SUFFICES ASSUME Init PROVE LockInv /\ RingInv(h)
  OBVIOUS
<1>1. LockInv
  BY DEF Init, LockInv, LockExclusion
<1>2. NoOverrun /\ CpuInv(h) /\ InOrder
  BY RingAssumption DEF Init, NoOverrun, CpuInv, InOrder
<1>3. LaneInv(h) /\ SlotInv(h)
  BY DEF Init, LaneInv, SlotInv, Unpublished, OffLane, EmptySlot
<1> QED
  BY <1>1, <1>2, <1>3 DEF RingInv

(* The spin lock alone: this holds whatever the number of handles. *)
LEMMA NextLock == TypeOK /\ LockInv /\ [Next]_vars => LockInv'
<1> SUFFICES ASSUME TypeOK, LockInv, [Next]_vars PROVE LockInv'
  OBVIOUS
<1>1. ASSUME NEW w \in Waves, Start(w) PROVE LockInv'
  BY <1>1 DEF Start, LockInv, LockExclusion, TypeOK, handleVars
<1>2. ASSUME NEW w \in Waves, AcquireLock(w) PROVE LockInv'
  BY <1>2, RingAssumption DEF AcquireLock, LockInv, LockExclusion, TypeOK
<1>3. ASSUME NEW w \in Waves, Reserve(w) PROVE LockInv'
  BY <1>3 DEF Reserve, ReserveAt, LockInv, LockExclusion, TypeOK
<1>4. ASSUME NEW w \in Waves, ReleaseLock(w) PROVE LockInv'
  BY <1>4, RingAssumption DEF ReleaseLock, LockInv, LockExclusion, TypeOK
<1>5. ASSUME NEW w \in Waves, Return(w) PROVE LockInv'
  BY <1>5 DEF Return, LockInv, LockExclusion, TypeOK, handleVars
<1>6. ASSUME UNCHANGED <<pc, hLock>> PROVE LockInv'
  BY <1>6 DEF LockInv, LockExclusion
<1>7. ASSUME NEW w \in Waves, RefreshReadIndex(w) PROVE LockInv'
  BY <1>6, <1>7 DEF RefreshReadIndex
<1>8. ASSUME NEW l \in Lanes, LaneNext(l) PROVE LockInv'
  BY <1>6, <1>8 DEF LaneNext, Fill, FillWith, Publish, PublishIf, SeeStatus,
                    ResetStatus, handleVars
<1>9. ASSUME NEW k \in DOMAIN inserted, Complete(k) PROVE LockInv'
  BY <1>6, <1>9 DEF Complete, handleVars
<1>10. ASSUME CpuNext PROVE LockInv'
  BY <1>6, <1>10 DEF CpuNext, InsertRequest, ClearValid, IncrementReadIndex,
                     handleVars
<1>11. ASSUME UNCHANGED vars PROVE LockInv'
  BY <1>6, <1>11 DEF vars, handleVars
<1> QED
  BY <1>1, <1>2, <1>3, <1>4, <1>5, <1>7, <1>8, <1>9, <1>10, <1>11
  DEF Next, WaveNext, Finished, PollStatus

(* At most one wavefront is inside a handle's critical section. *)
THEOREM LockExclusive == Spec => []LockExclusion
<1>1. Init => LockInv
  BY DEF Init, LockInv, LockExclusion
<1>2. LockInv => LockExclusion
  BY DEF LockInv
<1> QED
  BY <1>1, <1>2, InitType, NextType, NextLock, PTL DEF Spec

----------------------------------------------------------------------------
(* The steps that leave the ring, the handle and the CPU alone.            *)
LEMMA RingStutter ==
  ASSUME NEW h, Handles = {h}, TypeOK, RingInv(h),
         UNCHANGED <<readIndex, slots, cpu, inserted, hReadIndex, hWriteIndex>>,
         lane' \in [Lanes -> [step : LaneSteps, idx : Nat]],
         \A l \in Lanes : lane'[l] = lane[l] \/ ~Unpublished(l)'
  PROVE  RingInv(h)'
<1>1. NoOverrun' /\ CpuInv(h)' /\ InOrder'
  BY DEF RingInv, NoOverrun, CpuInv, InOrder
<1>2. \A l \in Lanes : Unpublished(l)' => lane'[l] = lane[l] /\ Unpublished(l)
  BY DEF Unpublished
<1>3. LaneInv(h)'
  BY <1>2 DEF RingInv, LaneInv, Pending
<1>4. SlotInv(h)'
  BY <1>2 DEF RingInv, SlotInv
<1> QED
  BY <1>1, <1>3, <1>4 DEF RingInv

LEMMA RingRefresh ==
  ASSUME NEW h, Handles = {h}, TypeOK, RingInv(h), NEW w \in Waves,
         RefreshReadIndex(w)
  PROVE  RingInv(h)'
<1>1. HandleOf[w] = h
  BY RingAssumption
<1>2. hReadIndex' = [hReadIndex EXCEPT ![h] = readIndex]
      /\ UNCHANGED <<readIndex, slots, cpu, inserted, hWriteIndex, lane>>
  BY <1>1 DEF RefreshReadIndex, cpuVars
<1>3. NoOverrun'
  BY <1>2 DEF RingInv, NoOverrun, TypeOK
<1>4. CpuInv(h)' /\ InOrder' /\ LaneInv(h)' /\ SlotInv(h)'
  BY <1>2 DEF RingInv, CpuInv, InOrder, LaneInv, SlotInv, Unpublished, Pending
<1> QED
  BY <1>3, <1>4 DEF RingInv

(* The reservation extends the window by the slots its test found free. *)
LEMMA RingReserve ==
  ASSUME NEW h, Handles = {h}, TypeOK, RingInv(h), NEW w \in Waves, Reserve(w)
  PROVE  RingInv(h)'
<1> DEFINE W == hWriteIndex[h]
           n == active[w]
<1>1. HandleOf[w] = h
  BY RingAssumption
<1>2. /\ W \in Nat /\ n \in Nat /\ n >= 1 /\ readIndex \in Nat
      /\ hReadIndex[h] \in Nat /\ QSize \in Nat
  BY RingAssumption DEF TypeOK
<1>3. /\ QSize - (W - hReadIndex[h]) >= n
      /\ hWriteIndex' = [hWriteIndex EXCEPT ![h] = W + n]
      /\ UNCHANGED <<readIndex, slots, cpu, inserted, hReadIndex>>
  BY <1>1 DEF Reserve, ReserveAt, EnoughSpace, cpuVars
<1>4. hWriteIndex'[h] = W + n
  BY <1>3 DEF TypeOK
<1>5. NoOverrun'
  BY <1>2, <1>3, <1>4 DEF RingInv, NoOverrun
<1>6. CpuInv(h)' /\ InOrder'
  BY <1>2, <1>3, <1>4 DEF RingInv, CpuInv, InOrder
<1>7. \A l \in Lanes :
        \/ lane'[l] = lane[l]
        \/ /\ l = <<w, l[2]>> /\ l[2] \in 0 .. n - 1
           /\ lane'[l].step = "fill" /\ lane'[l].idx = W + l[2]
  BY <1>1 DEF Reserve, ReserveAt, ActiveLanes
<1>8. \A l \in Lanes : Unpublished(l)' /\ lane'[l] = lane[l] =>
        /\ Unpublished(l) /\ lane[l].idx \in Nat
        /\ Pending(lane[l].idx) /\ lane[l].idx < W
  BY DEF RingInv, LaneInv, Unpublished, TypeOK
<1>9. LaneInv(h)'
  <2> SUFFICES ASSUME NEW l \in Lanes, Unpublished(l)'
               PROVE  /\ Pending(lane[l].idx)' /\ lane'[l].idx < W + n
                      /\ lane'[l].step = "publish" =>
                           slots[Slot(lane'[l].idx)].idx = lane'[l].idx
                      /\ \A m \in Lanes :
                           /\ Unpublished(m)' /\ lane'[m].idx = lane'[l].idx
                           => m = l
    BY <1>3, <1>4 DEF LaneInv
  <2>1. Pending(lane[l].idx)' /\ lane'[l].idx < W + n
    <3>1. CASE lane'[l] = lane[l]
      BY <1>2, <1>3, <1>8, <3>1 DEF Pending
    <3>2. CASE lane'[l].idx = W + l[2] /\ l[2] \in 0 .. n - 1
      <4>1. readIndex <= W /\ (cpu # "poll" => readIndex < W)
        BY DEF RingInv, NoOverrun, CpuInv
      <4> QED
        BY <1>2, <1>3, <3>2, <4>1 DEF Pending
    <3> QED
      BY <1>7, <3>1, <3>2
  <2>2. lane'[l].step = "publish" =>
          slots[Slot(lane'[l].idx)].idx = lane'[l].idx
    <3>1. CASE lane'[l] = lane[l]
      BY <1>8, <3>1 DEF RingInv, LaneInv
    <3>2. CASE lane'[l].step = "fill"
      BY <3>2
    <3> QED
      BY <1>7, <3>1, <3>2
  <2>3. ASSUME NEW m \in Lanes, Unpublished(m)', lane'[m].idx = lane'[l].idx
        PROVE  m = l
    <3>1. CASE lane'[l] = lane[l] /\ lane'[m] = lane[m]
      BY <1>8, <2>3, <3>1 DEF RingInv, LaneInv
    <3>2. CASE /\ l = <<w, l[2]>> /\ l[2] \in 0 .. n - 1
               /\ lane'[l].idx = W + l[2]
               /\ m = <<w, m[2]>> /\ m[2] \in 0 .. n - 1
               /\ lane'[m].idx = W + m[2]
      <4>1. l[2] = m[2]
        BY <1>2, <2>3, <3>2
      <4> QED
        BY <3>2, <4>1
    <3>3. CASE /\ lane'[l] = lane[l]
               /\ m[2] \in 0 .. n - 1 /\ lane'[m].idx = W + m[2]
      BY <1>2, <1>8, <2>3, <3>3
    <3>4. CASE /\ lane'[m] = lane[m]
               /\ l[2] \in 0 .. n - 1 /\ lane'[l].idx = W + l[2]
      BY <1>2, <1>8, <2>3, <3>4
    <3> QED
      BY <1>7, <3>1, <3>2, <3>3, <3>4
  <2> QED
    BY <2>1, <2>2, <2>3
<1>10. SlotInv(h)'
  <2> SUFFICES ASSUME NEW s \in 0 .. QSize - 1, slots[s].valid
               PROVE  /\ readIndex <= slots[s].idx /\ slots[s].idx < W + n
                      /\ cpu = "advance" => slots[s].idx # readIndex
                      /\ Slot(slots[s].idx) = s
                      /\ \A l \in Lanes :
                           Unpublished(l)' => lane'[l].idx # slots[s].idx
    BY <1>3, <1>4 DEF SlotInv
  <2>1. slots[s].idx \in Nat
    BY DEF TypeOK, SlotType
  <2>2. /\ readIndex <= slots[s].idx /\ slots[s].idx < W
        /\ cpu = "advance" => slots[s].idx # readIndex
        /\ Slot(slots[s].idx) = s
        /\ \A l \in Lanes : Unpublished(l) => lane[l].idx # slots[s].idx
    BY DEF RingInv, SlotInv
  <2>3. ASSUME NEW l \in Lanes, Unpublished(l)'
        PROVE  lane'[l].idx # slots[s].idx
    <3>1. CASE lane'[l] = lane[l]
      BY <1>8, <2>2, <2>3, <3>1
    <3>2. CASE lane'[l].idx = W + l[2] /\ l[2] \in 0 .. n - 1
      BY <1>2, <2>1, <2>2, <3>2
    <3> QED
      BY <1>7, <3>1, <3>2
  <2> QED
    BY <1>2, <2>1, <2>2, <2>3
<1> QED
  BY <1>5, <1>6, <1>9, <1>10 DEF RingInv

(* A lane fills a slot no other command is in. *)
LEMMA RingFill ==
  ASSUME NEW h, Handles = {h}, TypeOK, TypeOK', RingInv(h), NEW l \in Lanes,
         Fill(l)
  PROVE  RingInv(h)'
<1> DEFINE s == Slot(lane[l].idx)
<1>1. /\ lane[l].step = "fill" /\ Unpublished(l) /\ lane[l].idx \in Nat
      /\ s \in 0 .. QSize - 1
  BY LaneSlot DEF Fill, FillWith, LaneStep, Unpublished, TypeOK
<1>2. FreshSlot
  BY RingInvFresh
<1>3. /\ UNCHANGED <<readIndex, cpu, inserted, hReadIndex, hWriteIndex>>
      /\ \A t \in 0 .. QSize - 1 : t # s => slots'[t] = slots[t]
      /\ slots'[s].valid = slots[s].valid /\ slots'[s].idx = lane[l].idx
  BY <1>1 DEF Fill, FillWith, cpuVars, handleVars, TypeOK
<1>4. /\ \A m \in Lanes : m # l => lane'[m] = lane[m]
      /\ lane'[l].idx = lane[l].idx /\ lane'[l].step = "publish"
  BY <1>1 DEF Fill, FillWith, LaneStep, TypeOK
<1>5. \A m \in Lanes : (Unpublished(m)' <=> Unpublished(m))
                       /\ lane'[m].idx = lane[m].idx
  BY <1>1, <1>4 DEF Unpublished
<1>6. NoOverrun' /\ CpuInv(h)' /\ InOrder'
  BY <1>3 DEF RingInv, NoOverrun, CpuInv, InOrder
<1>7. LaneInv(h)'
  <2> SUFFICES ASSUME NEW m \in Lanes, Unpublished(m)'
               PROVE  /\ Pending(lane[m].idx)'
                      /\ (lane[m].idx < hWriteIndex[h])'
                      /\ (lane[m].step = "publish" =>
                            slots[Slot(lane[m].idx)].idx = lane[m].idx)'
                      /\ (\A k \in Lanes :
                            Unpublished(k) /\ lane[k].idx = lane[m].idx
                            => k = m)'
    BY DEF LaneInv
  <2>1. /\ Pending(lane[m].idx)' /\ (lane[m].idx < hWriteIndex[h])'
        /\ (\A k \in Lanes :
              Unpublished(k) /\ lane[k].idx = lane[m].idx => k = m)'
    BY <1>3, <1>5 DEF RingInv, LaneInv, Pending
  <2>2. CASE m = l
    BY <1>3, <1>4, <2>1, <2>2
  <2>3. CASE m # l
    <3>1. Slot(lane[m].idx) # s /\ Slot(lane[m].idx) \in 0 .. QSize - 1
      BY <1>1, <1>2, <1>5, <2>3, LaneSlot DEF FreshSlot
    <3>2. lane[m].step = "publish" => slots[Slot(lane[m].idx)].idx = lane[m].idx
      BY <1>5 DEF RingInv, LaneInv
    <3> QED
      BY <1>3, <1>4, <2>1, <2>3, <3>1, <3>2
  <2> QED
    BY <2>2, <2>3
<1>8. SlotInv(h)'
  <2>1. \A t \in 0 .. QSize - 1 : slots'[t].valid =>
          t # s /\ slots'[t] = slots[t]
    BY <1>1, <1>2, <1>3 DEF FreshSlot
  <2> QED
    BY <1>3, <1>5, <2>1 DEF RingInv, SlotInv
<1> QED
  BY <1>6, <1>7, <1>8 DEF RingInv

LEMMA RingPublish ==
  ASSUME NEW h, Handles = {h}, TypeOK, TypeOK', RingInv(h), NEW l \in Lanes,
         Publish(l)
  PROVE  RingInv(h)'
<1> DEFINE s == Slot(lane[l].idx)
<1>1. /\ lane[l].step = "publish" /\ Unpublished(l) /\ lane[l].idx \in Nat
      /\ s \in 0 .. QSize - 1
  BY LaneSlot DEF Publish, PublishIf, LaneStep, Unpublished, TypeOK
<1>2. slots[s] \in SlotType /\ slots[s].idx = lane[l].idx
  BY <1>1 DEF TypeOK, RingInv, LaneInv
<1>3. /\ UNCHANGED <<readIndex, cpu, inserted, hReadIndex, hWriteIndex>>
      /\ slots' = [slots EXCEPT ![s] = SetValid(@, TRUE)]
  BY DEF Publish, PublishIf, cpuVars, handleVars
<1>4. /\ \A t \in 0 .. QSize - 1 : t # s => slots'[t] = slots[t]
      /\ slots'[s].idx = slots[s].idx
  BY <1>1, <1>2, <1>3, SetValidType DEF TypeOK
<1>5. /\ \A m \in Lanes : m # l => lane'[m] = lane[m]
      /\ ~Unpublished(l)'
  BY <1>1 DEF Publish, PublishIf, LaneStep, TypeOK, Unpublished
<1>6. \A t \in 0 .. QSize - 1 : slots'[t].idx = slots[t].idx
  BY <1>4
<1>7. \A m \in Lanes : Unpublished(m)' =>
        m # l /\ lane'[m] = lane[m] /\ Unpublished(m)
  BY <1>5 DEF Unpublished
<1>8. NoOverrun' /\ CpuInv(h)' /\ InOrder'
  BY <1>3 DEF RingInv, NoOverrun, CpuInv, InOrder
<1>9. LaneInv(h)'
  <2> SUFFICES ASSUME NEW m \in Lanes, Unpublished(m)'
               PROVE  /\ Pending(lane[m].idx)'
                      /\ (lane[m].idx < hWriteIndex[h])'
                      /\ (lane[m].step = "publish" =>
                            slots[Slot(lane[m].idx)].idx = lane[m].idx)'
                      /\ (\A k \in Lanes :
                            Unpublished(k) /\ lane[k].idx = lane[m].idx
                            => k = m)'
    BY DEF LaneInv
  <2>1. Slot(lane[m].idx) \in 0 .. QSize - 1
    BY LaneSlot
  <2>2. Unpublished(m) /\ lane'[m] = lane[m]
    BY <1>7
  <2>3. /\ Pending(lane[m].idx)' /\ (lane[m].idx < hWriteIndex[h])'
        /\ lane[m].step = "publish" => slots[Slot(lane[m].idx)].idx = lane[m].idx
    BY <1>3, <2>2 DEF RingInv, LaneInv, Pending
  <2>4. \A k \in Lanes : Unpublished(k)' /\ lane'[k].idx = lane'[m].idx => k = m
    BY <1>7, <2>2 DEF RingInv, LaneInv
  <2> QED
    BY <1>6, <2>1, <2>2, <2>3, <2>4
<1>10. SlotInv(h)'
  <2> SUFFICES ASSUME NEW t \in 0 .. QSize - 1, slots'[t].valid
               PROVE  /\ (readIndex <= slots[t].idx)'
                      /\ (slots[t].idx < hWriteIndex[h])'
                      /\ (cpu = "advance" => slots[t].idx # readIndex)'
                      /\ (Slot(slots[t].idx) = t)'
                      /\ (\A m \in Lanes :
                            Unpublished(m) => lane[m].idx # slots[t].idx)'
    BY DEF SlotInv
  <2>1. CASE t = s
    <3>1. /\ Pending(lane[l].idx) /\ lane[l].idx < hWriteIndex[h]
          /\ \A m \in Lanes :
               Unpublished(m) /\ lane[m].idx = lane[l].idx => m = l
      BY <1>1 DEF RingInv, LaneInv
    <3> QED
      BY <1>2, <1>3, <1>6, <1>7, <2>1, <3>1 DEF Pending
  <2>2. CASE t # s
    BY <1>3, <1>4, <1>7, <2>2 DEF RingInv, SlotInv
  <2> QED
    BY <2>1, <2>2
<1> QED
  BY <1>8, <1>9, <1>10 DEF RingInv

(* The CPU takes the slot at readIndex: by SlotInv it holds that very index. *)
LEMMA RingInsert ==
  ASSUME NEW h, Handles = {h}, TypeOK, RingInv(h), InsertRequest
  PROVE  RingInv(h)'
<1>1. /\ cpu = "poll" /\ cpu' = "clear" /\ ReadSlot.valid
      /\ inserted' = Append(inserted, ReadSlot)
      /\ UNCHANGED <<readIndex, slots, hReadIndex, hWriteIndex, lane>>
  BY DEF InsertRequest, handleVars
<1>2. /\ Slot(readIndex) \in 0 .. QSize - 1 /\ readIndex \in Nat
      /\ ReadSlot.idx \in Nat /\ hWriteIndex[h] \in Nat
      /\ ReadSlot \in SlotType
  BY SlotRange DEF TypeOK, ReadSlot, SlotType
<1>3. /\ readIndex <= ReadSlot.idx /\ ReadSlot.idx < hWriteIndex[h]
      /\ Slot(ReadSlot.idx) = Slot(readIndex)
      /\ \A l \in Lanes : Unpublished(l) => lane[l].idx # ReadSlot.idx
  BY <1>1, <1>2 DEF RingInv, SlotInv, ReadSlot
<1>4. readIndex < hWriteIndex[h]
  BY <1>2, <1>3
<1>5. ReadSlot.idx = readIndex
  BY <1>2, <1>3, <1>4, WindowSlots DEF RingInv
<1>6. NoOverrun'
  BY <1>1 DEF RingInv, NoOverrun
<1>7. Len(inserted) = readIndex /\ inserted \in Seq(SlotType)
  BY <1>1 DEF RingInv, CpuInv, TypeOK
<1>8. /\ Len(inserted') = readIndex + 1
      /\ inserted'[readIndex + 1] = ReadSlot
      /\ \A k \in 1 .. readIndex : inserted'[k] = inserted[k]
      /\ DOMAIN inserted' = 1 .. readIndex + 1 /\ DOMAIN inserted = 1 .. readIndex
  BY <1>1, <1>2, <1>7
<1>9. CpuInv(h)'
  BY <1>1, <1>4, <1>8 DEF CpuInv
<1>10. InOrder'
  <2> SUFFICES ASSUME NEW k \in 1 .. readIndex + 1
               PROVE  inserted'[k].idx = k - 1
    BY <1>8 DEF InOrder
  <2>1. CASE k = readIndex + 1
    BY <1>2, <1>5, <1>8, <2>1
  <2>2. CASE k \in 1 .. readIndex
    BY <1>8, <2>2 DEF RingInv, InOrder
  <2> QED
    BY <1>2, <2>1, <2>2
<1>11. LaneInv(h)'
  BY <1>1, <1>3, <1>5 DEF RingInv, LaneInv, Pending, Unpublished
<1>12. SlotInv(h)'
  BY <1>1 DEF RingInv, SlotInv, Unpublished
<1> QED
  BY <1>6, <1>9, <1>10, <1>11, <1>12 DEF RingInv

LEMMA RingClear ==
  ASSUME NEW h, Handles = {h}, TypeOK, RingInv(h), ClearValid
  PROVE  RingInv(h)'
<1> DEFINE s == Slot(readIndex)
<1>1. /\ cpu = "clear" /\ cpu' = "advance"
      /\ slots' = [slots EXCEPT ![s] = SetValid(@, FALSE)]
      /\ UNCHANGED <<readIndex, inserted, hReadIndex, hWriteIndex, lane>>
  BY DEF ClearValid, handleVars
<1>2. s \in 0 .. QSize - 1 /\ slots[s] \in SlotType
  BY SlotRange DEF TypeOK
<1>3. /\ \A t \in 0 .. QSize - 1 : t # s => slots'[t] = slots[t]
      /\ ~slots'[s].valid /\ slots'[s].idx = slots[s].idx
  BY <1>1, <1>2, SetValidType DEF TypeOK
<1>4. NoOverrun' /\ CpuInv(h)' /\ InOrder'
  BY <1>1 DEF RingInv, NoOverrun, CpuInv, InOrder
<1>5. LaneInv(h)'
  <2>1. \A m \in Lanes : Slot(lane[m].idx) \in 0 .. QSize - 1
    BY LaneSlot
  <2>2. \A t \in 0 .. QSize - 1 : slots'[t].idx = slots[t].idx
    BY <1>3
  <2> QED
    BY <1>1, <2>1, <2>2 DEF RingInv, LaneInv, Pending, Unpublished
<1>6. SlotInv(h)'
  <2>1. \A t \in 0 .. QSize - 1 : slots'[t].valid =>
          t # s /\ slots'[t] = slots[t]
    BY <1>3
  <2>2. \A t \in 0 .. QSize - 1 : slots'[t].valid => slots'[t].idx # readIndex
    BY <2>1 DEF RingInv, SlotInv
  <2> QED
    BY <1>1, <2>1, <2>2 DEF RingInv, SlotInv, Unpublished
<1> QED
  BY <1>4, <1>5, <1>6 DEF RingInv

LEMMA RingIncrement ==
  ASSUME NEW h, Handles = {h}, TypeOK, RingInv(h), IncrementReadIndex
  PROVE  RingInv(h)'
<1>1. /\ cpu = "advance" /\ cpu' = "poll" /\ readIndex' = readIndex + 1
      /\ UNCHANGED <<slots, inserted, hReadIndex, hWriteIndex, lane>>
  BY DEF IncrementReadIndex, handleVars
<1>2. /\ readIndex \in Nat /\ hWriteIndex[h] \in Nat /\ hReadIndex[h] \in Nat
      /\ QSize \in Nat
  BY RingAssumption DEF TypeOK
<1>3. readIndex < hWriteIndex[h] /\ Len(inserted) = readIndex + 1
  BY <1>1 DEF RingInv, CpuInv
<1>4. NoOverrun' /\ CpuInv(h)' /\ InOrder'
  BY <1>1, <1>2, <1>3 DEF RingInv, NoOverrun, CpuInv, InOrder
<1>5. LaneInv(h)'
  <2>1. \A l \in Lanes : lane[l].idx \in Nat
    BY DEF TypeOK
  <2> QED
    BY <1>1, <1>2, <2>1 DEF RingInv, LaneInv, Pending, Unpublished
<1>6. SlotInv(h)'
  <2>1. \A t \in 0 .. QSize - 1 : slots[t].idx \in Nat
    BY DEF TypeOK, SlotType
  <2> QED
    BY <1>1, <1>2, <2>1 DEF RingInv, SlotInv, Unpublished
<1> QED
  BY <1>4, <1>5, <1>6 DEF RingInv

LEMMA NextRing ==
  ASSUME NEW h, Handles = {h}
  PROVE  TypeOK /\ TypeOK' /\ RingInv(h) /\ [Next]_vars => RingInv(h)'
<1> SUFFICES ASSUME TypeOK, TypeOK', RingInv(h), [Next]_vars
             PROVE  RingInv(h)'
  OBVIOUS
<1>1. ASSUME UNCHANGED <<readIndex, slots, cpu, inserted, hReadIndex,
                         hWriteIndex, lane>>
      PROVE  RingInv(h)'
  BY <1>1, RingStutter DEF TypeOK
<1>2. ASSUME NEW w \in Waves,
             Start(w) \/ AcquireLock(w) \/ ReleaseLock(w) \/ Return(w)
      PROVE  RingInv(h)'
  BY <1>1, <1>2 DEF Start, AcquireLock, ReleaseLock, Return, cpuVars, handleVars
<1>3. ASSUME NEW l \in Lanes, SeeStatus(l) \/ ResetStatus(l)
      PROVE  RingInv(h)'
  <2>1. UNCHANGED <<readIndex, slots, cpu, inserted, hReadIndex, hWriteIndex>>
    BY <1>3 DEF SeeStatus, ResetStatus, cpuVars, handleVars
  <2>2. \A m \in Lanes : lane'[m] = lane[m] \/ ~Unpublished(m)'
    BY <1>3 DEF SeeStatus, ResetStatus, LaneStep, Unpublished, TypeOK
  <2> QED
    BY <2>1, <2>2, RingStutter DEF TypeOK
<1>4. ASSUME NEW k \in DOMAIN inserted, Complete(k) PROVE RingInv(h)'
  BY <1>1, <1>4 DEF Complete, handleVars
<1>5. ASSUME UNCHANGED vars PROVE RingInv(h)'
  BY <1>1, <1>5 DEF vars, handleVars
<1> QED
  BY <1>2, <1>3, <1>4, <1>5, RingRefresh, RingReserve, RingFill, RingPublish,
     RingInsert, RingClear, RingIncrement
  DEF Next, WaveNext, LaneNext, CpuNext, Finished, PollStatus

(* Reservations never run more than a ring ahead of the CPU. *)
THEOREM NeverOverrun ==
  ASSUME NEW CONSTANT h, Handles = {h}
  PROVE  Spec => []NoOverrun
<1>1. RingInv(h) => NoOverrun
  BY DEF RingInv
<1> QED
  BY <1>1, InitType, NextType, InitRing, NextRing, PTL DEF Spec

(* A lane fills only a slot that is free and that no other lane fills. *)
THEOREM FreshSlots ==
  ASSUME NEW CONSTANT h, Handles = {h}
  PROVE  Spec => []FreshSlot
<1>1. TypeOK /\ RingInv(h) => FreshSlot
  BY RingInvFresh
<1> QED
  BY <1>1, InitType, NextType, InitRing, NextRing, PTL DEF Spec

(* The transport receives the commands once each, in reservation order. *)
THEOREM DeliveredInOrder ==
  ASSUME NEW CONSTANT h, Handles = {h}
  PROVE  Spec => []InOrder
<1>1. RingInv(h) => InOrder
  BY DEF RingInv
<1> QED
  BY <1>1, InitType, NextType, InitRing, NextRing, PTL DEF Spec

----------------------------------------------------------------------------
(***************************************************************************)
(* The status pointers.  From the fill of a slot to the CPU's taking it no *)
(* other lane writes the slot, since it is in the window; the command that *)
(* the CPU has taken is a copy, which later uses of the slot do not touch. *)
(***************************************************************************)
Blocks(l) == Blocking(call[l[1]].type)

(* The lanes of a wavefront are under way only while its call is. *)
WaveInv ==
  \A l \in Lanes : lane[l].step # "off" =>
    pc[l[1]] \in {"unlock", "lanes"} /\ l[2] < active[l[1]]

(* A filled slot holds the call of the lane that filled it. *)
FilledInv ==
  \A l \in Lanes : lane[l].step = "publish" =>
    /\ slots[Slot(lane[l].idx)].type = call[l[1]].type
    /\ Blocks(l) => slots[Slot(lane[l].idx)].status = l

(* The element e is a command that blocks lane l. *)
Holds(e, l) == e.status = l /\ Blocking(e.type)

(* The command of a lane that waits is in its slot until the CPU takes it. *)
WaitInv ==
  \A l \in Lanes : lane[l].step = "wait" /\ lane[l].idx >= Len(inserted) =>
    /\ slots[Slot(lane[l].idx)].valid
    /\ slots[Slot(lane[l].idx)].idx = lane[l].idx
    /\ Holds(slots[Slot(lane[l].idx)], l)

CallerInv == WaveInv /\ FilledInv /\ WaitInv /\ CallersFlag

LEMMA InitCaller == Init => CallerInv
  BY DEF Init, OffLane, CallerInv, WaveInv, FilledInv, WaitInv, CallersFlag

(* Steps that move no lane and leave the ring and the requests alone. *)
LEMMA CallerSame ==
  ASSUME CallerInv, UNCHANGED <<lane, slots, inserted>>,
         \A l \in Lanes : lane[l].step # "off" =>
           /\ call'[l[1]] = call[l[1]] /\ active'[l[1]] = active[l[1]]
           /\ pc'[l[1]] \in {"unlock", "lanes"}
  PROVE  CallerInv'
<1>1. WaveInv' /\ FilledInv'
  BY DEF CallerInv, WaveInv, FilledInv, Blocks
<1>2. WaitInv' /\ CallersFlag'
  BY DEF CallerInv, WaitInv, Holds, CallersFlag
<1> QED
  BY <1>1, <1>2 DEF CallerInv

LEMMA CallerWave ==
  ASSUME TypeOK, CallerInv, NEW v \in Waves,
         \/ Start(v) \/ AcquireLock(v) \/ RefreshReadIndex(v)
         \/ ReleaseLock(v) \/ Return(v)
  PROVE  CallerInv'
<1>1. \A l \in Lanes : /\ l[1] \in Waves /\ l[2] \in Nat
                       /\ l = <<l[1], l[2]>>
                       /\ lane[l].step # "off" =>
                            /\ pc[l[1]] \in {"unlock", "lanes"}
                            /\ l[2] < active[l[1]]
  BY DEF CallerInv, WaveInv, Lanes, LaneIds
<1>2. CASE Start(v)
  <2>1. /\ pc[v] = "idle" /\ pc' = [pc EXCEPT ![v] = "lock"]
        /\ UNCHANGED <<lane, slots, inserted>>
    BY <1>2 DEF Start, cpuVars
  <2>2. PICK c \in CallsOf[v], n \in 1 .. WfSize :
          /\ call' = [call EXCEPT ![v] = c]
          /\ active' = [active EXCEPT ![v] = n]
    BY <1>2 DEF Start
  <2>3. \A l \in Lanes : lane[l].step # "off" => l[1] # v
    BY <1>1, <2>1
  <2>4. \A l \in Lanes : lane[l].step # "off" =>
          /\ call'[l[1]] = call[l[1]] /\ active'[l[1]] = active[l[1]]
          /\ pc'[l[1]] \in {"unlock", "lanes"}
    BY <1>1, <2>1, <2>2, <2>3 DEF TypeOK
  <2> QED
    BY <2>1, <2>4, CallerSame
<1>3. CASE AcquireLock(v) \/ RefreshReadIndex(v) \/ ReleaseLock(v)
  <2>1. UNCHANGED <<lane, slots, inserted, call, active>>
    BY <1>3 DEF AcquireLock, RefreshReadIndex, ReleaseLock, cpuVars
  <2>2. \A u \in Waves : pc[u] \in {"unlock", "lanes"} =>
          pc'[u] \in {"unlock", "lanes"}
    BY <1>3 DEF AcquireLock, RefreshReadIndex, ReleaseLock, TypeOK
  <2> QED
    BY <1>1, <2>1, <2>2, CallerSame
<1>4. CASE Return(v)
  <2>1. /\ pc' = [pc EXCEPT ![v] = "idle"]
        /\ \A l \in ActiveLanes(v) : lane[l].step = "off"
        /\ UNCHANGED <<lane, slots, inserted, call, active>>
    BY <1>4 DEF Return, cpuVars
  <2>2. \A l \in Lanes : lane[l].step # "off" => l[1] # v
    <3> SUFFICES ASSUME NEW l \in Lanes, lane[l].step # "off", l[1] = v
                 PROVE  FALSE
      OBVIOUS
    <3>1. l[2] \in 0 .. active[v] - 1
      BY <1>1 DEF TypeOK
    <3>2. l \in ActiveLanes(v)
      BY <1>1, <3>1 DEF ActiveLanes
    <3> QED
      BY <2>1, <3>2
  <2>3. \A l \in Lanes : lane[l].step # "off" =>
          pc'[l[1]] \in {"unlock", "lanes"}
    BY <1>1, <2>1, <2>2 DEF TypeOK
  <2> QED
    BY <1>1, <2>1, <2>3, CallerSame
<1> QED
  BY <1>2, <1>3, <1>4

(* A reservation moves lanes to "fill" only. *)
LEMMA CallerReserve ==
  ASSUME TypeOK, CallerInv, NEW v \in Waves, Reserve(v)
  PROVE  CallerInv'
<1>1. /\ pc[v] = "space" /\ pc' = [pc EXCEPT ![v] = "unlock"]
      /\ UNCHANGED <<slots, inserted, call, active>>
  BY DEF Reserve, ReserveAt, cpuVars
<1>2. \A l \in Lanes :
        /\ l[1] \in Waves
        /\ l \in ActiveLanes(v) => lane'[l].step = "fill"
        /\ l \notin ActiveLanes(v) => lane'[l] = lane[l]
  BY DEF Reserve, ReserveAt, Lanes
<1>3. \A l \in Lanes : lane'[l].step \in {"publish", "wait"} =>
        lane'[l] = lane[l]
  BY <1>2
<1>4. WaveInv'
  <2> SUFFICES ASSUME NEW l \in Lanes, lane'[l].step # "off"
               PROVE  /\ pc'[l[1]] \in {"unlock", "lanes"}
                      /\ l[2] < active[l[1]]
    BY <1>1 DEF WaveInv
  <2>1. CASE l \in ActiveLanes(v)
    BY <1>1, <1>2, <2>1 DEF ActiveLanes, TypeOK
  <2>2. CASE l \notin ActiveLanes(v)
    BY <1>1, <1>2, <2>2 DEF CallerInv, WaveInv, TypeOK
  <2> QED
    BY <2>1, <2>2
<1>5. FilledInv'
  BY <1>1, <1>3 DEF CallerInv, FilledInv, Blocks
<1>6. WaitInv' /\ CallersFlag'
  BY <1>1, <1>3 DEF CallerInv, WaitInv, Holds, CallersFlag
<1> QED
  BY <1>4, <1>5, <1>6 DEF CallerInv

(* What a step of lane l from one point to the next changes. *)
LEMMA CallerLaneStep ==
  ASSUME TypeOK, NEW l \in Lanes, NEW from, NEW to, LaneStep(l, from, to)
  PROVE  /\ pc[l[1]] = "lanes" /\ lane[l].step = from
         /\ lane'[l].step = to
         /\ \A m \in Lanes : lane'[m].idx = lane[m].idx
         /\ \A m \in Lanes : m # l => lane'[m] = lane[m]
  BY DEF LaneStep, TypeOK

(* Lane l fills a slot that no command waits in and no other lane fills. *)
LEMMA CallerFill ==
  ASSUME NEW h, Handles = {h}, TypeOK, TypeOK', RingInv(h), CallerInv,
         NEW l \in Lanes, Fill(l)
  PROVE  CallerInv'
<1> DEFINE s == Slot(lane[l].idx)
<1>1. LaneStep(l, "fill", "publish")
  BY DEF Fill, FillWith
<1>2. /\ pc[l[1]] = "lanes" /\ lane[l].step = "fill"
      /\ lane'[l].step = "publish"
      /\ \A m \in Lanes : lane'[m].idx = lane[m].idx
      /\ \A m \in Lanes : m # l => lane'[m] = lane[m]
  BY <1>1, CallerLaneStep
<1>3. UNCHANGED <<inserted, pc, call, active>>
  BY DEF Fill, FillWith, cpuVars
<1>4. s \in 0 .. QSize - 1 /\ slots[s] \in SlotType
  BY LaneSlot DEF TypeOK
<1>5. /\ \A t \in 0 .. QSize - 1 : t # s => slots'[t] = slots[t]
      /\ slots'[s].type = call[l[1]].type
      /\ Blocks(l) => slots'[s].status = l
  BY <1>4 DEF Fill, FillWith, Blocks, TypeOK
<1>6. ~slots[s].valid /\ \A m \in Lanes :
        Unpublished(m) /\ Slot(lane[m].idx) = s => m = l
  <2>1. FreshSlot
    BY RingInvFresh
  <2> QED
    BY <1>2, <2>1 DEF FreshSlot, Unpublished
<1>7. \A m \in Lanes : Slot(lane[m].idx) \in 0 .. QSize - 1
  BY LaneSlot
<1> HIDE DEF s
<1>8. WaveInv'
  BY <1>2, <1>3 DEF CallerInv, WaveInv
<1>9. FilledInv'
  <2> SUFFICES ASSUME NEW m \in Lanes, lane'[m].step = "publish"
               PROVE  /\ slots'[Slot(lane[m].idx)].type = call[m[1]].type
                      /\ Blocks(m) => slots'[Slot(lane[m].idx)].status = m
    BY <1>2, <1>3 DEF FilledInv, Blocks
  <2>1. CASE m = l
    BY <1>5, <2>1 DEF s
  <2>2. CASE m # l
    <3>1. lane[m].step = "publish" /\ Slot(lane[m].idx) # s
      BY <1>2, <1>6, <2>2 DEF Unpublished
    <3> QED
      BY <1>5, <1>7, <3>1 DEF CallerInv, FilledInv
  <2> QED
    BY <2>1, <2>2
<1>10. WaitInv'
  <2> SUFFICES ASSUME NEW m \in Lanes, lane'[m].step = "wait",
                      lane[m].idx >= Len(inserted)
               PROVE  LET e == slots'[Slot(lane[m].idx)]
                      IN  e.valid /\ e.idx = lane[m].idx /\ Holds(e, m)
    BY <1>2, <1>3 DEF WaitInv, Holds
  <2>1. lane[m].step = "wait"
    BY <1>2
  <2>2. Slot(lane[m].idx) # s
    BY <1>6, <2>1 DEF CallerInv, WaitInv
  <2> QED
    BY <1>5, <1>7, <2>1, <2>2 DEF CallerInv, WaitInv
<1>11. CallersFlag'
  BY <1>2, <1>3 DEF CallerInv, CallersFlag
<1> QED
  BY <1>8, <1>9, <1>10, <1>11 DEF CallerInv

(* A published command that blocks has its lane in the poll loop. *)
LEMMA CallerPublish ==
  ASSUME NEW h, Handles = {h}, TypeOK, TypeOK', RingInv(h), CallerInv,
         NEW l \in Lanes, Publish(l)
  PROVE  CallerInv'
<1> DEFINE s == Slot(lane[l].idx)
           to == IF Blocks(l) THEN "wait" ELSE "off"
<1>1. LaneStep(l, "publish", to)
  BY DEF Publish, PublishIf, Blocks
<1>2. /\ pc[l[1]] = "lanes" /\ lane[l].step = "publish"
      /\ lane'[l].step = to
      /\ \A m \in Lanes : lane'[m].idx = lane[m].idx
      /\ \A m \in Lanes : m # l => lane'[m] = lane[m]
  BY <1>1, CallerLaneStep
<1>3. UNCHANGED <<inserted, pc, call, active>>
  BY DEF Publish, PublishIf, cpuVars
<1>4. s \in 0 .. QSize - 1 /\ slots[s] \in SlotType
  BY LaneSlot DEF TypeOK
<1>5. /\ slots' = [slots EXCEPT ![s] = SetValid(@, TRUE)]
      /\ \A t \in 0 .. QSize - 1 : t # s => slots'[t] = slots[t]
  BY <1>4 DEF Publish, PublishIf, TypeOK
<1>6. /\ slots'[s].valid
      /\ \A t \in 0 .. QSize - 1 :
           /\ slots'[t].type = slots[t].type
           /\ slots'[t].idx = slots[t].idx
           /\ slots'[t].status = slots[t].status
           /\ slots[t].valid => slots'[t].valid
  BY <1>4, <1>5 DEF SetValid, TypeOK, SlotType
<1>7. \A m \in Lanes : Slot(lane[m].idx) \in 0 .. QSize - 1
  BY LaneSlot
<1>8. /\ slots[s].idx = lane[l].idx
      /\ slots[s].type = call[l[1]].type
      /\ Blocks(l) => slots[s].status = l
  BY <1>2 DEF RingInv, LaneInv, Unpublished, CallerInv, FilledInv
<1>9. lane[l].idx >= Len(inserted)
  <2>1. lane[l].idx \in Nat /\ readIndex \in Nat
    BY DEF TypeOK
  <2> QED
    BY <1>2, <2>1 DEF RingInv, LaneInv, CpuInv, Unpublished, Pending
<1> HIDE DEF s
<1>10. WaveInv'
  BY <1>2, <1>3 DEF CallerInv, WaveInv
<1>11. FilledInv'
  <2> SUFFICES ASSUME NEW m \in Lanes, lane'[m].step = "publish"
               PROVE  /\ slots'[Slot(lane[m].idx)].type = call[m[1]].type
                      /\ Blocks(m) => slots'[Slot(lane[m].idx)].status = m
    BY <1>2, <1>3 DEF FilledInv, Blocks
  <2>1. lane[m].step = "publish"
    BY <1>2
  <2> QED
    BY <1>6, <1>7, <2>1 DEF CallerInv, FilledInv
<1>12. WaitInv'
  <2> SUFFICES ASSUME NEW m \in Lanes, lane'[m].step = "wait",
                      lane[m].idx >= Len(inserted)
               PROVE  LET e == slots'[Slot(lane[m].idx)]
                      IN  e.valid /\ e.idx = lane[m].idx /\ Holds(e, m)
    BY <1>2, <1>3 DEF WaitInv, Holds
  <2>1. CASE m = l
    <3>1. Blocks(l) /\ Slot(lane[m].idx) = s
      BY <1>2, <2>1 DEF s
    <3> QED
      BY <1>4, <1>6, <1>8, <2>1, <3>1 DEF Holds, Blocks
  <2>2. CASE m # l
    <3>1. lane[m].step = "wait"
      BY <1>2, <2>2
    <3> QED
      BY <1>6, <1>7, <3>1 DEF CallerInv, WaitInv, Holds
  <2> QED
    BY <2>1, <2>2
<1>13. CallersFlag'
  <2> SUFFICES ASSUME NEW m \in Lanes, lane'[m].step = "wait",
                      lane[m].idx < Len(inserted)
               PROVE  /\ inserted[lane[m].idx + 1].status = m
                      /\ Blocking(inserted[lane[m].idx + 1].type)
    BY <1>2, <1>3 DEF CallersFlag
  <2>1. m # l
    BY <1>9 DEF TypeOK
  <2> QED
    BY <1>2, <2>1 DEF CallerInv, CallersFlag
<1> QED
  BY <1>10, <1>11, <1>12, <1>13 DEF CallerInv

(* A lane that leaves its poll loop or resets a flag stores nothing. *)
LEMMA CallerStatus ==
  ASSUME TypeOK, CallerInv, NEW l \in Lanes, SeeStatus(l) \/ ResetStatus(l)
  PROVE  CallerInv'
<1>1. UNCHANGED <<slots, inserted, pc, call, active>>
  BY DEF SeeStatus, ResetStatus, cpuVars
<1>2. /\ pc[l[1]] = "lanes" /\ lane[l].step # "off"
      /\ lane'[l].step \in {"reset", "off"}
      /\ \A m \in Lanes : lane'[m].idx = lane[m].idx
      /\ \A m \in Lanes : m # l => lane'[m] = lane[m]
  BY CallerLaneStep DEF SeeStatus, ResetStatus
<1>3. \A m \in Lanes : lane'[m].step \in {"publish", "wait"} =>
        lane'[m] = lane[m]
  BY <1>2
<1>4. WaveInv'
  BY <1>1, <1>2 DEF CallerInv, WaveInv
<1>5. FilledInv'
  BY <1>1, <1>3 DEF CallerInv, FilledInv, Blocks
<1>6. WaitInv' /\ CallersFlag'
  BY <1>1, <1>3 DEF CallerInv, WaitInv, Holds, CallersFlag
<1> QED
  BY <1>4, <1>5, <1>6 DEF CallerInv

(* The CPU copies the command before it gives the slot back. *)
LEMMA CallerInsert ==
  ASSUME NEW h, Handles = {h}, TypeOK, RingInv(h), RingInv(h)', CallerInv,
         InsertRequest
  PROVE  CallerInv'
<1>1. /\ cpu = "poll" /\ inserted' = Append(inserted, ReadSlot)
      /\ UNCHANGED <<lane, slots, pc, call, active>>
  BY DEF InsertRequest, handleVars
<1>2. /\ inserted \in Seq(SlotType) /\ Len(inserted) = readIndex
      /\ readIndex \in Nat
  BY <1>1 DEF TypeOK, RingInv, CpuInv
<1>3. /\ Len(inserted') = readIndex + 1
      /\ inserted'[readIndex + 1] = ReadSlot
      /\ \A j \in 1 .. readIndex : inserted'[j] = inserted[j]
  BY <1>1, <1>2
<1>4. WaveInv' /\ FilledInv'
  BY <1>1 DEF CallerInv, WaveInv, FilledInv, Blocks
<1>5. \A l \in Lanes : lane[l].idx \in Nat
  BY DEF TypeOK
<1>6. WaitInv'
  BY <1>1, <1>2, <1>3, <1>5 DEF CallerInv, WaitInv, Holds
<1>7. CallersFlag'
  <2> SUFFICES ASSUME NEW l \in Lanes, lane[l].step = "wait",
                      lane[l].idx < readIndex + 1
               PROVE  /\ inserted'[lane[l].idx + 1].status = l
                      /\ Blocking(inserted'[lane[l].idx + 1].type)
    BY <1>1, <1>3 DEF CallersFlag
  <2>1. CASE lane[l].idx = readIndex
    BY <1>2, <1>3, <2>1 DEF CallerInv, WaitInv, Holds, ReadSlot
  <2>2. CASE lane[l].idx < readIndex
    <3>1. inserted'[lane[l].idx + 1] = inserted[lane[l].idx + 1]
      BY <1>2, <1>3, <1>5, <2>2
    <3> QED
      BY <1>2, <2>2, <3>1 DEF CallerInv, CallersFlag
  <2> QED
    BY <1>2, <1>5, <2>1, <2>2
<1> QED
  BY <1>4, <1>6, <1>7 DEF CallerInv

(* The slot the CPU clears is one whose command it has taken. *)
LEMMA CallerClear ==
  ASSUME NEW h, Handles = {h}, TypeOK, RingInv(h), CallerInv, ClearValid
  PROVE  CallerInv'
<1> DEFINE s == Slot(readIndex)
<1>1. /\ cpu = "clear" /\ slots' = [slots EXCEPT ![s] = SetValid(@, FALSE)]
      /\ UNCHANGED <<lane, inserted, pc, call, active>>
  BY DEF ClearValid, handleVars
<1>2. /\ readIndex \in Nat /\ s \in 0 .. QSize - 1
      /\ Len(inserted) = readIndex + 1 /\ readIndex < hWriteIndex[h]
  BY <1>1, SlotRange DEF TypeOK, RingInv, CpuInv
<1>3. \A t \in 0 .. QSize - 1 :
        /\ slots'[t].type = slots[t].type
        /\ slots'[t].status = slots[t].status
        /\ t # s => slots'[t] = slots[t]
  BY <1>1 DEF SetValid, TypeOK, SlotType
<1>4. \A m \in Lanes : /\ lane[m].idx \in Nat
                       /\ Slot(lane[m].idx) \in 0 .. QSize - 1
  BY LaneSlot DEF TypeOK
<1>5. WaveInv' /\ FilledInv'
  BY <1>1, <1>3, <1>4 DEF CallerInv, WaveInv, FilledInv, Blocks
<1>6. WaitInv'
  <2> SUFFICES ASSUME NEW m \in Lanes, lane[m].step = "wait",
                      lane[m].idx >= Len(inserted)
               PROVE  slots'[Slot(lane[m].idx)] = slots[Slot(lane[m].idx)]
    BY <1>1 DEF CallerInv, WaitInv, Holds
  <2>1. /\ slots[Slot(lane[m].idx)].valid
        /\ slots[Slot(lane[m].idx)].idx = lane[m].idx
    BY DEF CallerInv, WaitInv
  <2>2. lane[m].idx < hWriteIndex[h] /\ readIndex < lane[m].idx
    BY <1>2, <1>4, <2>1 DEF RingInv, SlotInv
  <2>3. Slot(lane[m].idx) # s
    BY <1>2, <1>4, <2>2, WindowSlots DEF RingInv
  <2> QED
    BY <1>3, <1>4, <2>3
<1>7. CallersFlag'
  BY <1>1 DEF CallerInv, CallersFlag
<1> QED
  BY <1>5, <1>6, <1>7 DEF CallerInv

LEMMA NextCaller ==
  ASSUME NEW h, Handles = {h}
  PROVE  /\ TypeOK /\ TypeOK' /\ RingInv(h) /\ RingInv(h)'
         /\ CallerInv /\ [Next]_vars
         => CallerInv'
<1> SUFFICES ASSUME TypeOK, TypeOK', RingInv(h), RingInv(h)', CallerInv,
                    [Next]_vars
             PROVE  CallerInv'
  OBVIOUS
<1>1. ASSUME UNCHANGED <<lane, slots, inserted, pc, call, active>>
      PROVE  CallerInv'
  BY <1>1, CallerSame DEF CallerInv, WaveInv
<1>2. ASSUME IncrementReadIndex PROVE CallerInv'
  BY <1>1, <1>2 DEF IncrementReadIndex
<1>3. ASSUME NEW k \in DOMAIN inserted, Complete(k) PROVE CallerInv'
  BY <1>1, <1>3 DEF Complete
<1>4. ASSUME UNCHANGED vars PROVE CallerInv'
  BY <1>1, <1>4 DEF vars
<1> QED
  BY <1>2, <1>3, <1>4, CallerWave, CallerReserve, CallerFill, CallerPublish,
     CallerStatus, CallerInsert, CallerClear
  DEF Next, WaveNext, LaneNext, CpuNext, Finished, PollStatus

(* The CPU is handed the flag of the lane that waits for the command, for   *)
(* any number of blocking wavefronts on the ring and however often the slot *)
(* is reused (build_queue_element's status).                                *)
THEOREM CallersFlagHandedOver ==
  ASSUME NEW CONSTANT h, Handles = {h}
  PROVE  Spec => []CallersFlag
<1>1. CallerInv => CallersFlag
  BY DEF CallerInv
<1>2. TypeOK /\ TypeOK' /\ RingInv(h) /\ RingInv(h)' /\ CallerInv /\ [Next]_vars
      => CallerInv'
  BY NextCaller
<1> QED
  BY <1>1, <1>2, InitType, NextType, InitRing, NextRing, InitCaller, PTL DEF Spec
=============================================================================
