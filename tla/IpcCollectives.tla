--------------------------- MODULE IpcCollectives ---------------------------
(***************************************************************************)
(* Reductions, all-to-alls, broadcast and fcollect of the IPC backend, one *)
(* after another on one team: what is stored where in the work array and   *)
(* the flags every PE shares, and in which order.  The barriers and syncs  *)
(* in them are RoundBarrier, which IpcBarrier implements.  PEs are         *)
(* numbered by their rank in the team.  A value is the set of the          *)
(* contributions it sums up: what PE p contributes to cell c of call n is  *)
(* <<p, c, n>>.  Each call has a destination of its own.                   *)
(***************************************************************************)
EXTENDS Integers, Sequences

CONSTANTS
  N,          \* PE_size
  Programs    \* what the team may call

ASSUME CollectivesAssumption == N \in Nat \ {0, 1}

(* A reduce goes through phases: 0 stands for internal_direct_allreduce, k *)
(* for internal_ring_allreduce over k segments; a reduce-scatter through   *)
(* chunks, each like a direct one.                                         *)
Phased(op, phases) == [op |-> op, phases |-> phases]
Plain(op) == [op |-> op, phases |-> <<>>]

(* The calls of the IPC backend. *)
IpcCall(c) ==
  \/ c.op = "REDUCE" /\ c.phases \in Seq(Nat) /\ c.phases # <<>>
  \/ c.op = "SCATTER" /\ c.phases \in Seq({0}) /\ c.phases # <<>>
  \/ c.op \in {"ALLTOALL", "ALLTOALL_THREADS", "FCOLLECT", "BROADCAST"} /\ c.phases = <<>>
IpcProgram(prg) ==
  /\ DOMAIN prg = 1 .. Len(prg) /\ Len(prg) \in Nat
  /\ \A n \in 1 .. Len(prg) : IpcCall(prg[n])

(* Between the phases of a reduce nothing keeps the PEs apart, and the      *)
(* reset of one takes down flags of the next: only a reduce whose elements  *)
(* fit one phase is known to return.                                        *)
OnePhaseReductions(prg) ==
  \A n \in 1 .. Len(prg) : prg[n].op = "REDUCE" => Len(prg[n].phases) = 1

(* alltoall_linear and fcollect_linear use alltoall_pSync as the flags of a *)
(* barrier, alltoall_linear_thread_puts as counters, and neither waits for  *)
(* the other's: a program has calls of one kind.  The barrier of this       *)
(* module has state of its own, so nothing here would show the clash.       *)
OneUseOfFlags(prg) ==
  \A n, m \in 1 .. Len(prg) :
    prg[n].op = "ALLTOALL_THREADS" => prg[m].op \notin {"ALLTOALL", "FCOLLECT"}

SafeProgram(prg) == IpcProgram(prg) /\ OnePhaseReductions(prg) /\ OneUseOfFlags(prg)

PEs == 0 .. N - 1

VARIABLES
  prog,              \* the calls every PE makes
  pWrk, reduce_pSync, alltoall_pSync,   \* the shared arrays of each PE
  dst,               \* of each PE and call
  alltoall_sequence_number,
  returned,          \* calls of each PE that have returned
  pc,
  phase,             \* of a reduction
  step,              \* loop variable: a peer, or the iteration of a ring
  todo,              \* peers the lanes of an alltoall have yet to serve
  entered, left      \* the barrier

shared == <<pWrk, reduce_pSync, alltoall_pSync, dst>>
barrier == <<entered, left>>
vars == <<prog, shared, alltoall_sequence_number, returned, pc, phase, step, todo,
          barrier>>

Barrier == INSTANCE RoundBarrier

Call(p) == returned[p] + 1
Calling(p) == Call(p) <= Len(prog)
Op(p) == prog[Call(p)].op
Phases(p) == prog[Call(p)].phases
Segments(p) == Phases(p)[phase[p]]

(* Adding up; what is in both sums would be counted twice. *)
Plus(a, b) == a \cup b \cup {<<"twice", x>> : x \in a \cap b}

(* Iterations of a ring, and chunks of a segment. *)
Iterations == 2 * N - 2
Seg(p) == step[p] \div Iterations
Iter(p) == step[p] % Iterations
SendChunk(p) == (p + 1 - Iter(p) + 2 * N) % N
RecvChunk(p) == (p - Iter(p) + 2 * N) % N
Send(p) == (p + 1) % N

(* Cells of the destination: of a phase, or one for each PE. *)
Chunk(p, c) == <<phase[p], Seg(p) * N + c>>
RingCells(f, segments) == {f} \X (0 .. segments * N - 1)
Cells(call) ==
  IF call.phases = <<>> THEN {0} \X PEs
  ELSE UNION {IF call.phases[f] = 0 THEN {<<f, 0>>}
                                    ELSE RingCells(f, call.phases[f]) :
              f \in DOMAIN call.phases}

(* What p sends to q in a direct phase: the whole, or the block of q. *)
Reductions == {"REDUCE", "GDA_REDUCE"}
Contribution(p, q) ==
  {<<p, <<phase[p], IF Op(p) \in Reductions THEN 0 ELSE q>>, Call(p)>>}

(* ROCSHMEM_SYNC_VALUE is 0. *)
Init ==
  /\ prog \in Programs
  /\ pWrk = [p \in PEs |-> [k \in PEs |-> {}]]
  /\ reduce_pSync = [p \in PEs |-> [k \in 0 .. 2 * N - 1 |-> 0]]
  /\ alltoall_pSync = [p \in PEs |-> [k \in 0 .. 2 * N - 1 |-> 0]]
  /\ dst = [p \in PEs |-> [n \in DOMAIN prog |-> [c \in Cells(prog[n]) |-> {}]]]
  /\ alltoall_sequence_number = [p \in PEs |-> 0]
  /\ returned = [p \in PEs |-> 0]
  /\ pc = [p \in PEs |-> "out"]
  /\ phase = [p \in PEs |-> 0]
  /\ step = [p \in PEs |-> 0]
  /\ todo = [p \in PEs |-> {}]
  /\ Barrier!Init

Goto(p, from, to) == pc[p] = from /\ pc' = [pc EXCEPT ![p] = to]
Steps(p, k) == step' = [step EXCEPT ![p] = k]
Put(array, q, k, v) == [array EXCEPT ![q] = [array[q] EXCEPT ![k] = v]]
PutDst(p, q, c, v) ==
  dst' = [dst EXCEPT ![q] = [dst[q] EXCEPT ![Call(p)] =
                               [dst[q][Call(p)] EXCEPT ![c] = v]]]
Add(p, c, v) == PutDst(p, p, c, Plus(dst[p][Call(p)][c], v))

(* The members other than p, in order. *)
FirstPeer(p) == IF p = 0 THEN 1 ELSE 0
NextPeer(p) == IF step[p] + 1 = p THEN step[p] + 2 ELSE step[p] + 1
IsLast(p) == NextPeer(p) >= N

Enter(p) ==
  /\ Calling(p)
  /\ Goto(p, "out", CASE Op(p) \in Reductions \cup {"SCATTER"} -> "seed"
                      [] Op(p) = "ALLTOALL_THREADS" -> "aput"
                      [] OTHER -> "lput")
  /\ phase' = [phase EXCEPT ![p] = 1]
  /\ Steps(p, 0)
  /\ todo' = [todo EXCEPT ![p] = PEs]
  /\ UNCHANGED <<prog, shared, alltoall_sequence_number, returned, barrier>>

----------------------------------------------------------------------------
(* Reductions *)

(* dst starts as a copy of the caller's own source. *)
Seed(p) ==
  /\ Goto(p, "seed", IF Segments(p) = 0 THEN "put" ELSE "rput")
  /\ Steps(p, IF Segments(p) = 0 THEN FirstPeer(p) ELSE 0)
  /\ IF Segments(p) = 0
     THEN PutDst(p, p, <<phase[p], 0>>, Contribution(p, p))
     ELSE dst' = [dst EXCEPT ![p] = [dst[p] EXCEPT ![Call(p)] =
            [c \in DOMAIN dst[p][Call(p)] |->
               IF c \in RingCells(phase[p], Segments(p)) THEN {<<p, c, Call(p)>>}
               ELSE dst[p][Call(p)][c]]]]
  /\ UNCHANGED <<prog, pWrk, reduce_pSync, alltoall_pSync, alltoall_sequence_number,
                 returned, phase, todo, barrier>>

local == <<prog, alltoall_sequence_number, returned, phase, todo, barrier>>

(* internal_direct_allreduce and a chunk of reduce_scatter_wg *)

PutWork(p) ==
  /\ Goto(p, "put", "flag")
  /\ pWrk' = Put(pWrk, step[p], p, Contribution(p, step[p]))
  /\ UNCHANGED <<local, reduce_pSync, alltoall_pSync, dst, step>>

(* p raises flag k of its peer. *)
RaiseFlag(p, k) ==
  /\ Goto(p, "flag", IF IsLast(p) THEN "wait" ELSE "put")
  /\ reduce_pSync' = Put(reduce_pSync, step[p], k, 1)
  /\ Steps(p, IF IsLast(p) THEN FirstPeer(p) ELSE NextPeer(p))
  /\ UNCHANGED <<local, pWrk, alltoall_pSync, dst>>

(* Faulty variant: the flag the peer keeps for itself. *)
PutFlagOfPeer(p) == RaiseFlag(p, step[p])

PutFlag(p) == RaiseFlag(p, p)

SeeFlag(p) ==
  /\ Goto(p, "wait", "add")
  /\ reduce_pSync[p][step[p]] = 1
  /\ UNCHANGED <<local, shared, step>>

AddWork(p) ==
  /\ Goto(p, "add", IF IsLast(p) THEN "reset" ELSE "wait")
  /\ Add(p, <<phase[p], 0>>, pWrk[p][step[p]])
  /\ Steps(p, NextPeer(p))
  /\ UNCHANGED <<local, pWrk, reduce_pSync, alltoall_pSync>>

(* internal_ring_allreduce: partial sums go round first, then the totals. *)

FirstLoop(p) == Iter(p) < N - 1
RingFlag(p) == Seg(p) + IF FirstLoop(p) \/ Op(p) = "GDA_REDUCE" THEN 100 ELSE 10
AfterIteration(p) ==
  IF step[p] + 1 = Segments(p) * Iterations THEN "reset" ELSE "rput"

RingPut(p) ==
  /\ Goto(p, "rput", "rflag")
  /\ LET v == dst[p][Call(p)][Chunk(p, SendChunk(p))]
     IN IF FirstLoop(p)
        THEN pWrk' = Put(pWrk, Send(p), SendChunk(p), v) /\ UNCHANGED dst
        ELSE PutDst(p, Send(p), Chunk(p, SendChunk(p)), v) /\ UNCHANGED pWrk
  /\ UNCHANGED <<local, reduce_pSync, alltoall_pSync, step>>

RingPutFlag(p) ==
  /\ Goto(p, "rflag", "rwait")
  /\ reduce_pSync' = Put(reduce_pSync, Send(p), Iter(p), RingFlag(p))
  /\ UNCHANGED <<local, pWrk, alltoall_pSync, dst, step>>

RingSeeFlag(p) ==
  /\ Goto(p, "rwait", IF FirstLoop(p) THEN "radd" ELSE AfterIteration(p))
  /\ reduce_pSync[p][Iter(p)] = RingFlag(p)
  /\ Steps(p, IF FirstLoop(p) THEN step[p] ELSE step[p] + 1)
  /\ UNCHANGED <<local, shared>>

RingAdd(p) ==
  /\ Goto(p, "radd", AfterIteration(p))
  /\ Add(p, Chunk(p, RecvChunk(p)), pWrk[p][RecvChunk(p)])
  /\ Steps(p, step[p] + 1)
  /\ UNCHANGED <<local, pWrk, reduce_pSync, alltoall_pSync>>

(* The caller takes its own flags down; the phases of a reduce follow each *)
(* other at once, the chunks of a reduce-scatter after a barrier.          *)
NextPhase(p) == Op(p) \in Reductions /\ phase[p] < Len(Phases(p))

ResetFlags(p) ==
  /\ Goto(p, "reset", IF NextPhase(p) THEN "seed" ELSE "barrier")
  /\ reduce_pSync' =
       [reduce_pSync EXCEPT ![p] =
          [k \in DOMAIN reduce_pSync[p] |->
             IF k < (IF Segments(p) = 0 THEN N ELSE Iterations) THEN 0
             ELSE reduce_pSync[p][k]]]
  /\ phase' = [phase EXCEPT ![p] = phase[p] + IF NextPhase(p) THEN 1 ELSE 0]
  /\ UNCHANGED <<prog, pWrk, alltoall_pSync, dst, alltoall_sequence_number,
                 returned, step, todo, barrier>>

----------------------------------------------------------------------------
(* alltoall_linear_thread_puts: a lane for each peer *)

Served(p, q, from, to) ==
  /\ q \in todo[p]
  /\ Goto(p, from, IF todo[p] = {q} THEN to ELSE from)
  /\ todo' = [todo EXCEPT ![p] = IF todo[p] = {q} THEN PEs ELSE todo[p] \ {q}]

(* Faulty variant: every call uses the same flags. *)
FlagOfFirstCall(p, q) == q

(* The flags of one call are told from those of the next. *)
FlagOf(p, q) == (alltoall_sequence_number[p] % 2) * N + q

ThreadPut(p, q) ==
  /\ Served(p, q, "aput", "aadd")
  /\ PutDst(p, q, <<0, p>>, {<<p, q, Call(p)>>})
  /\ UNCHANGED <<prog, pWrk, reduce_pSync, alltoall_pSync, alltoall_sequence_number,
                 returned, phase, step, barrier>>

ThreadAdd(p, q) ==
  /\ Served(p, q, "aadd", "await")
  /\ alltoall_pSync' =
       Put(alltoall_pSync, q, FlagOf(p, p), alltoall_pSync[q][FlagOf(p, p)] + 1)
  /\ UNCHANGED <<prog, pWrk, reduce_pSync, dst, alltoall_sequence_number,
                 returned, phase, step, barrier>>

ThreadSee(p, q) ==
  /\ Served(p, q, "await", "areset")
  /\ alltoall_pSync[p][FlagOf(p, q)] = 1
  /\ UNCHANGED <<prog, shared, alltoall_sequence_number, returned, phase, step, barrier>>

ThreadReset(p, q) ==
  /\ Served(p, q, "areset", "count")
  /\ alltoall_pSync' = Put(alltoall_pSync, p, FlagOf(p, q), 0)
  /\ UNCHANGED <<prog, pWrk, reduce_pSync, dst, alltoall_sequence_number,
                 returned, phase, step, barrier>>

Returns(p) == returned' = [returned EXCEPT ![p] = Call(p)]

CountCall(p) ==
  /\ Goto(p, "count", "out") /\ Returns(p)
  /\ alltoall_sequence_number' = [alltoall_sequence_number EXCEPT ![p] = @ + 1]
  /\ UNCHANGED <<prog, shared, phase, step, todo, barrier>>

----------------------------------------------------------------------------
(* alltoall_linear, fcollect_linear, and broadcast by puts of the root,    *)
(* PE 0: puts to each PE in turn, then a sync.                             *)

LinearPut(p) ==
  /\ Goto(p, "lput", IF step[p] = N - 1 THEN "barrier" ELSE "lput")
  /\ Op(p) = "BROADCAST" => p = 0
  /\ PutDst(p, step[p], <<0, p>>,
            {<<p, IF Op(p) = "ALLTOALL" THEN step[p] ELSE 0, Call(p)>>})
  /\ Steps(p, step[p] + 1)
  /\ UNCHANGED <<local, pWrk, reduce_pSync, alltoall_pSync>>

NothingToPut(p) ==
  /\ Goto(p, "lput", "barrier") /\ Op(p) = "BROADCAST" /\ p # 0
  /\ UNCHANGED <<local, shared, step>>

----------------------------------------------------------------------------
EnterBarrier(p) ==
  /\ Goto(p, "barrier", "inside")
  /\ Barrier!Enter(p)
  /\ UNCHANGED <<prog, shared, alltoall_sequence_number, returned, phase, step, todo>>

(* A reduce-scatter goes on with its next chunk. *)
LeaveBarrier(p) ==
  /\ LET more == phase[p] < Len(Phases(p))
     IN /\ Goto(p, "inside", IF more THEN "seed" ELSE "out")
        /\ phase' = [phase EXCEPT ![p] = phase[p] + IF more THEN 1 ELSE 0]
        /\ IF more THEN UNCHANGED returned ELSE Returns(p)
  /\ Barrier!Leave(p)
  /\ UNCHANGED <<prog, shared, alltoall_sequence_number, step, todo>>

Step(p) ==
  \/ Enter(p) \/ Seed(p)
  \/ PutWork(p) \/ PutFlag(p) \/ SeeFlag(p) \/ AddWork(p)
  \/ RingPut(p) \/ RingPutFlag(p) \/ RingSeeFlag(p) \/ RingAdd(p)
  \/ ResetFlags(p)
  \/ (\E q \in PEs : ThreadPut(p, q) \/ ThreadAdd(p, q) \/ ThreadSee(p, q) \/ ThreadReset(p, q))
  \/ CountCall(p)
  \/ LinearPut(p) \/ NothingToPut(p)
  \/ EnterBarrier(p) \/ LeaveBarrier(p)

(* wait_until, the barrier, and PEs that have made all their calls. *)
Spin(p) ==
  /\ pc[p] \in {"wait", "rwait", "await", "inside"} \/ (pc[p] = "out" /\ ~Calling(p))
  /\ UNCHANGED vars

Next == \E p \in PEs : Step(p) \/ Spin(p)

Spec == Init /\ [][Next]_vars

(* A work-group inside a collective keeps running, and every PE calls. *)
FairSpec == Spec /\ \A p \in PEs : WF_vars(Step(p))

----------------------------------------------------------------------------
AllToAlls ==
  {"ALLTOALL", "ALLTOALL_THREADS", "GDA_ALLTOALL", "ALLTOALLV_GET", "ALLTOALLV_COPY"}

(* What a call must leave in the destination of p: from every PE the       *)
(* contribution meant for it, once.                                        *)
Expected(p, n) ==
  [c \in Cells(prog[n]) |->
     CASE prog[n].op \in Reductions -> {<<q, c, n>> : q \in PEs}
       [] prog[n].op = "SCATTER" -> {<<q, <<c[1], p>>, n>> : q \in PEs}
       [] prog[n].op \in AllToAlls -> {<<c[2], p, n>>}
       [] prog[n].op \in {"FCOLLECT", "GDA_FCOLLECT"} -> {<<c[2], 0, n>>}
       [] prog[n].op \in {"BROADCAST", "GDA_BROADCAST"} -> IF c[2] = 0 THEN {<<0, 0, n>>} ELSE {}]

(* When a PE returns from a collective its destination is complete, and    *)
(* nothing written later, or for another call, gets into it.               *)
Exact == \A p \in PEs : \A n \in 1 .. returned[p] : dst[p][n] = Expected(p, n)

(* A PE takes down only flags it has seen: none has been raised meanwhile  *)
(* for the next phase or the next call, where the reset would lose it.     *)
SeenBeforeReset ==
  /\ \A p \in PEs : pc[p] = "reset" =>
       IF Segments(p) = 0
       THEN \A q \in PEs : reduce_pSync[p][q] = IF q = p THEN 0 ELSE 1
       ELSE \A k \in 0 .. Iterations - 1 :
              reduce_pSync[p][k] = Segments(p) - 1 +
                IF k < N - 1 \/ Op(p) = "GDA_REDUCE" THEN 100 ELSE 10
  /\ \A p \in PEs : \A k \in 0 .. 2 * N - 1 : alltoall_pSync[p][k] <= 1

(* Every PE returns from every collective. *)
CallsReturn == <>[](\A p \in PEs : ~Calling(p))
=============================================================================
