------------------------------ MODULE RoQueue ------------------------------
(***************************************************************************)
(* One command ring of the Reverse Offload backend.                        *)
(*                                                                         *)
(* GPU wavefronts reserve slots through a block handle, fill and publish   *)
(* them lane by lane, and wait for a status flag when the call blocks      *)
(* (build_queue_element).  The CPU poll thread takes the published         *)
(* elements in ring order and hands them to the transport (Queue::process);*)
(* the transport itself is reduced to Complete, which sets the status flag *)
(* of a request it has been handed, at any later time and in any order.    *)
(*                                                                         *)
(* A command is identified by the index its lane reserved; the fields that *)
(* every command writes (type, PE, size, src, dst, window) are the pair    *)
(* idx, type.  The fields that only some commands write, status and        *)
(* team_comm, keep what the previous command left in the slot.             *)
(***************************************************************************)
EXTENDS Integers, Sequences, FiniteSets

CONSTANTS
  Waves,      \* wavefronts that use this ring
  WfSize,     \* lanes of a wavefront (64)
  QSize,      \* slots of the ring (queue_size_, 512)
  Handles,    \* block handles that point at this ring
  HandleOf,   \* the block handle each wavefront goes through
  CallsOf,    \* the calls each wavefront makes: [type, comm] records
  MaxCalls,   \* bound: calls each wavefront makes
  World       \* the communicator a NULL team_comm stands for

Types == {"PUT", "GET", "PUT_NBI", "GET_NBI", "AMO", "QUIET", "BARRIER",
          "SYNC", "TEAM_REDUCE", "TEAM_BROADCAST", "ALLTOALL"}
Calls == UNION {CallsOf[w] : w \in Waves}
Comms == {c.comm : c \in Calls} \union {World}
LaneIds == 0 .. WfSize - 1
Lanes == Waves \X LaneIds
NoStatus == <<>>
Pointers == Lanes \union {NoStatus}

ASSUME RingAssumption ==
  /\ QSize \in Nat \ {0} /\ WfSize \in 1 .. QSize
  /\ MaxCalls \in [Waves -> Nat] /\ HandleOf \in [Waves -> Handles]
  /\ CallsOf \in [Waves -> SUBSET [type : Types, comm : Comms]]

Blocking(type) == type \notin {"PUT_NBI", "GET_NBI"}

(* The types for which build_queue_element stores team_comm. *)
StoresComm(type) ==
  type \in {"TEAM_REDUCE", "TEAM_BROADCAST", "ALLTOALL", "SYNC"}

VARIABLES
  readIndex,    \* queue descriptor: advanced by the CPU only
  slots,        \* the ring
  cpu,          \* where the poll thread is inside Queue::process
  inserted,     \* elements handed to the transport, oldest first
  done,         \* positions of inserted that have been notified
  hReadIndex, hWriteIndex, hLock,   \* fields of each block handle
  pc, call, active, calls,          \* each wavefront's call in progress
  lane,         \* each lane: its step and the index it reserved
  flag          \* the status flag of each work-item

handleVars == <<hReadIndex, hWriteIndex, hLock>>
cpuVars == <<readIndex, cpu, inserted, done>>
vars == <<readIndex, slots, cpu, inserted, done, handleVars, pc, call, active,
          calls, lane, flag>>

Slot(i) == i % QSize
SetValid(e, valid) == [e EXCEPT !.valid = valid]
OffLane == [step |-> "off", idx |-> 0]
EmptySlot == [valid |-> FALSE, idx |-> 0, type |-> "PUT", status |-> NoStatus,
              comm |-> World, team |-> World]

(* QueueProxy zeroes the ring, so every field of every slot starts null. *)
Init ==
  /\ readIndex = 0 /\ cpu = "poll" /\ inserted = <<>> /\ done = {}
  /\ slots = [s \in 0 .. QSize - 1 |-> EmptySlot]
  /\ hReadIndex = [h \in Handles |-> 0]
  /\ hWriteIndex = [h \in Handles |-> 0]
  /\ hLock = [h \in Handles |-> FALSE]
  /\ pc = [w \in Waves |-> "idle"]
  /\ call \in {c \in [Waves -> Calls] : \A w \in Waves : c[w] \in CallsOf[w]}
  /\ active = [w \in Waves |-> 1]
  /\ calls = [w \in Waves |-> 0]
  /\ lane = [l \in Lanes |-> OffLane]
  /\ flag = [l \in Lanes |-> FALSE]

----------------------------------------------------------------------------
(* next_write_slot_o_m_m: the lowest active lane reserves for the wave.    *)

ActiveLanes(w) == {w} \X (0 .. active[w] - 1)

(* A wavefront enters a ring operation with n of its lanes active. *)
Start(w) ==
  /\ pc[w] = "idle" /\ calls[w] < MaxCalls[w]
  /\ \E c \in CallsOf[w], n \in 1 .. WfSize :
       /\ call' = [call EXCEPT ![w] = c]
       /\ active' = [active EXCEPT ![w] = n]
  /\ calls' = [calls EXCEPT ![w] = @ + 1]
  /\ pc' = [pc EXCEPT ![w] = "lock"]
  /\ UNCHANGED <<cpuVars, slots, handleVars, lane, flag>>

AcquireLock(w) ==
  LET h == HandleOf[w] IN
  /\ pc[w] = "lock" /\ ~hLock[h]
  /\ hLock' = [hLock EXCEPT ![h] = TRUE]
  /\ pc' = [pc EXCEPT ![w] = "space"]
  /\ UNCHANGED <<cpuVars, slots, hReadIndex, hWriteIndex, call, active, calls,
                 lane, flag>>

(* Faulty variant: room for one slot less than is taken. *)
EnoughSpaceOffByOne(h, required) ==
  QSize - (hWriteIndex[h] - hReadIndex[h]) >= required - 1

EnoughSpace(h, required) ==
  QSize - (hWriteIndex[h] - hReadIndex[h]) >= required

RefreshReadIndex(w) ==
  LET h == HandleOf[w] IN
  /\ pc[w] = "space" /\ ~EnoughSpace(h, active[w])
  /\ hReadIndex' = [hReadIndex EXCEPT ![h] = readIndex]
  /\ UNCHANGED <<cpuVars, slots, hWriteIndex, hLock, pc, call, active, calls,
                 lane, flag>>

(* The reservation of w: lane l gets index at[l], write_index grows by n. *)
ReserveAt(w, at, n) ==
  LET h == HandleOf[w] IN
  /\ pc[w] = "space" /\ EnoughSpace(h, active[w])
  /\ hWriteIndex' = [hWriteIndex EXCEPT ![h] = @ + n]
  /\ lane' = [l \in Lanes |->
                IF l \in ActiveLanes(w)
                THEN [step |-> "fill", idx |-> at[l]]
                ELSE lane[l]]
  /\ pc' = [pc EXCEPT ![w] = "unlock"]
  /\ UNCHANGED <<cpuVars, slots, hReadIndex, hLock, call, active, calls, flag>>

(* Faulty variant: one slot for the whole wave. *)
ReserveOne(w) ==
  ReserveAt(w, [l \in Lanes |-> hWriteIndex[HandleOf[w]] + l[2]], 1)

Reserve(w) ==
  ReserveAt(w, [l \in Lanes |-> hWriteIndex[HandleOf[w]] + l[2]], active[w])

ReleaseLock(w) ==
  /\ pc[w] = "unlock"
  /\ hLock' = [hLock EXCEPT ![HandleOf[w]] = FALSE]
  /\ pc' = [pc EXCEPT ![w] = "lanes"]
  /\ UNCHANGED <<cpuVars, slots, hReadIndex, hWriteIndex, call, active, calls,
                 lane, flag>>

----------------------------------------------------------------------------
(* build_queue_element, per lane, after the slot is known.                 *)

LaneStep(l, from, to) ==
  /\ pc[l[1]] = "lanes" /\ lane[l].step = from
  /\ lane' = [lane EXCEPT ![l].step = to]

(* Every field but valid; status only if blocking, team_comm only for some. *)
FillWith(l, status) ==
  LET c == call[l[1]]
      s == Slot(lane[l].idx)
      old == slots[s] IN
  /\ LaneStep(l, "fill", "publish")
  /\ slots' = [slots EXCEPT ![s] =
       [valid |-> old.valid, idx |-> lane[l].idx, type |-> c.type,
        team |-> c.comm,
        status |-> IF Blocking(c.type) THEN status ELSE old.status,
        comm |-> IF StoresComm(c.type) THEN c.comm ELSE old.comm]]
  /\ UNCHANGED <<cpuVars, handleVars, pc, call, active, calls, flag>>

(* Faulty variant: the whole wave stores the flag of its first lane. *)
FillFirstFlag(l) == FillWith(l, <<l[1], 0>>)

Fill(l) == FillWith(l, l)

PublishIf(l, valid) ==
  /\ LaneStep(l, "publish",
              IF Blocking(call[l[1]].type) THEN "wait" ELSE "off")
  /\ slots' = [slots EXCEPT ![Slot(lane[l].idx)] = SetValid(@, valid)]
  /\ UNCHANGED <<cpuVars, handleVars, pc, call, active, calls, flag>>

(* Faulty variant: only the first lane of the wave marks its slot valid. *)
PublishFirst(l) == PublishIf(l, l[2] = 0)

Publish(l) == PublishIf(l, TRUE)

(* Both the poll and the reset go through the slot's status field. *)
StatusOf(l) == slots[Slot(lane[l].idx)].status

SeeStatus(l) ==
  /\ LaneStep(l, "wait", "reset")
  /\ flag[StatusOf(l)]
  /\ UNCHANGED <<cpuVars, slots, handleVars, pc, call, active, calls, flag>>

(* The poll loop of a lane whose flag is down. *)
PollStatus(l) ==
  /\ pc[l[1]] = "lanes" /\ lane[l].step = "wait" /\ ~flag[StatusOf(l)]
  /\ UNCHANGED vars

ResetStatus(l) ==
  /\ LaneStep(l, "reset", "off")
  /\ flag' = [flag EXCEPT ![StatusOf(l)] = FALSE]
  /\ UNCHANGED <<cpuVars, slots, handleVars, pc, call, active, calls>>

(* The wavefront reconverges once every active lane is through. *)
Return(w) ==
  /\ pc[w] = "lanes"
  /\ \A l \in ActiveLanes(w) : lane[l].step = "off"
  /\ pc' = [pc EXCEPT ![w] = "idle"]
  /\ UNCHANGED <<cpuVars, slots, handleVars, call, active, calls, lane, flag>>

----------------------------------------------------------------------------
(* Queue::process on the poll thread, and the transport's completions.     *)

ReadSlot == slots[Slot(readIndex)]

InsertRequest ==
  /\ cpu = "poll" /\ ReadSlot.valid
  /\ inserted' = Append(inserted, ReadSlot)
  /\ cpu' = "clear"
  /\ UNCHANGED <<readIndex, done, slots, handleVars, pc, call, active, calls,
                 lane, flag>>

(* Faulty variant: the valid byte is left set. *)
LeaveValid ==
  /\ cpu = "clear" /\ cpu' = "advance"
  /\ UNCHANGED <<readIndex, slots, inserted, done, handleVars, pc, call, active,
                 calls, lane, flag>>

ClearValid ==
  /\ cpu = "clear"
  /\ slots' = [slots EXCEPT ![Slot(readIndex)] = SetValid(@, FALSE)]
  /\ cpu' = "advance"
  /\ UNCHANGED <<readIndex, inserted, done, handleVars, pc, call, active,
                 calls, lane, flag>>

IncrementReadIndex ==
  /\ cpu = "advance"
  /\ readIndex' = readIndex + 1
  /\ cpu' = "poll"
  /\ UNCHANGED <<inserted, done, slots, handleVars, pc, call, active, calls,
                 lane, flag>>

BlockingInserted == {k \in DOMAIN inserted : Blocking(inserted[k].type)}

(* The transport finishes the blocking request k and notifies its flag; the *)
(* completion of any other request is not visible to the ring. *)
Complete(k) ==
  /\ k \in BlockingInserted \ done
  /\ done' = done \union {k}
  /\ flag' = [flag EXCEPT ![inserted[k].status] = TRUE]
  /\ UNCHANGED <<readIndex, cpu, inserted, slots, handleVars, pc, call, active,
                 calls, lane>>

WaveNext(w) ==
  \/ Start(w) \/ AcquireLock(w) \/ RefreshReadIndex(w)
  \/ Reserve(w) \/ ReleaseLock(w) \/ Return(w)
LaneNext(l) == Fill(l) \/ Publish(l) \/ SeeStatus(l) \/ ResetStatus(l)
CpuNext == InsertRequest \/ ClearValid \/ IncrementReadIndex

(* The kernels are over and the CPU has nothing left to do. *)
Finished ==
  /\ \A w \in Waves : pc[w] = "idle" /\ calls[w] = MaxCalls[w]
  /\ cpu = "poll" /\ ~ReadSlot.valid /\ done = BlockingInserted
  /\ UNCHANGED vars

Next ==
  \/ \E w \in Waves : WaveNext(w)
  \/ \E l \in Lanes : LaneNext(l) \/ PollStatus(l)
  \/ CpuNext
  \/ \E k \in DOMAIN inserted : Complete(k)
  \/ Finished

Spec == Init /\ [][Next]_vars

(***************************************************************************)
(* Fairness.  The poll thread loops for as long as the backend lives, a    *)
(* resident wavefront keeps executing, and MPI completes what was posted.  *)
(* A wavefront need not start a call, and the compare-and-swap lock is not *)
(* fair: no wavefront is promised to win AcquireLock.                      *)
(***************************************************************************)
Fairness ==
  /\ WF_vars(CpuNext)
  /\ \A w \in Waves :
       /\ WF_vars(RefreshReadIndex(w)) /\ WF_vars(Reserve(w))
       /\ WF_vars(ReleaseLock(w)) /\ WF_vars(Return(w))
  /\ \A l \in Lanes : WF_vars(LaneNext(l))
  /\ WF_vars(\E k \in DOMAIN inserted : Complete(k))

FairSpec == Spec /\ Fairness

----------------------------------------------------------------------------
(* What the ring promises.                                                 *)

SlotType == [valid : BOOLEAN, idx : Nat, type : Types, status : Pointers,
             comm : Comms, team : Comms]
LaneSteps == {"off", "fill", "publish", "wait", "reset"}
Unpublished(l) == lane[l].step \in {"fill", "publish"}

(* Every variable keeps its type. *)
TypeOK ==
  /\ readIndex \in Nat
  /\ slots \in [0 .. QSize - 1 -> SlotType]
  /\ cpu \in {"poll", "clear", "advance"}
  /\ inserted \in Seq(SlotType)
  /\ done \subseteq DOMAIN inserted
  /\ hReadIndex \in [Handles -> Nat]
  /\ hWriteIndex \in [Handles -> Nat]
  /\ hLock \in [Handles -> BOOLEAN]
  /\ pc \in [Waves -> {"idle", "lock", "space", "unlock", "lanes"}]
  /\ call \in [Waves -> Calls]
  /\ active \in [Waves -> 1 .. WfSize]
  /\ calls \in [Waves -> Nat]
  /\ lane \in [Lanes -> [step : LaneSteps, idx : Nat]]
  /\ flag \in [Lanes -> BOOLEAN]

(* The spin lock of a handle admits one wavefront to wait_until_space_ *)
(* available and to the write_index update at a time. *)
LockExclusion ==
  \A v, w \in Waves :
    /\ pc[v] \in {"space", "unlock"} /\ pc[w] \in {"space", "unlock"}
    /\ HandleOf[v] = HandleOf[w]
    => v = w

(* The copy of read_index a handle works with only ever lags, and however *)
(* stale it is the reservations never run more than a ring ahead of the CPU. *)
NoOverrun ==
  \A h \in Handles :
    /\ hReadIndex[h] <= readIndex
    /\ readIndex <= hWriteIndex[h]
    /\ hWriteIndex[h] <= readIndex + QSize

(* A lane that is still filling its slot has it to itself: it is not a slot *)
(* the CPU has yet to consume, and no other lane is filling it. *)
FreshSlot ==
  \A l \in Lanes : Unpublished(l) =>
    /\ ~slots[Slot(lane[l].idx)].valid
    /\ \A m \in Lanes :
         Unpublished(m) /\ Slot(lane[m].idx) = Slot(lane[l].idx) => m = l

(* The transport receives the commands in the order in which their slots *)
(* were reserved, each of them once, whatever order they were published in. *)
InOrder == \A k \in DOMAIN inserted : inserted[k].idx = k - 1

(* Every reserved slot is published and its command handed over: no command *)
(* is lost and none blocks the ring for good. *)
EveryReservationInserted ==
  \A h \in Handles : <>[](Len(inserted) = hWriteIndex[h])

(* A lane that blocks has named its own flag to the CPU: the command the CPU *)
(* took from its slot carries it, whatever was stored in the slot before and *)
(* is stored there later (context_ro_device.cpp:680). *)
CallersFlag ==
  \A l \in Lanes :
    lane[l].step = "wait" /\ lane[l].idx < Len(inserted)
    => /\ inserted[lane[l].idx + 1].status = l
       /\ Blocking(inserted[lane[l].idx + 1].type)

(* A blocking call goes on only once the CPU has completed its own command *)
(* (context_ro_device.cpp:733 and the comment on status_ in backend_ro.hpp). *)
(* The code does not keep it: the slot may hold a later command's status. *)
OwnCompletion ==
  \A l \in Lanes : lane[l].step = "reset" => lane[l].idx + 1 \in done
=============================================================================
