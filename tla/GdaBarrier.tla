----------------------------- MODULE GdaBarrier -----------------------------
(***************************************************************************)
(* The barriers a team has: internal_sync of the IPC backend (IpcBarrier)  *)
(* and of the GDA backend, where a release is a put on a queue pair.  The  *)
(* GDA forms: one thread and a flag per member ("thread"), a work-group    *)
(* whose wavefronts share the members ("wg"), and from 64 PEs on a counter *)
(* ("atomic").  A blocking put has arrived when the call returns and is    *)
(* one step; a nonblocking one carries the value read when it is posted    *)
(* (it is inline) and arrives at any time before the quiet.                *)
(***************************************************************************)
EXTENDS IpcBarrier

CONSTANTS
  Forms,      \* of "ipc", "thread", "wg" and "atomic"
  NumWaves,   \* wf_count
  Stride,     \* stride of the team
  MaxAtomic   \* bound: barriers each PE calls in the atomic form

ASSUME FormsAssumption ==
  /\ Forms \subseteq {"ipc", "thread", "wg", "atomic"}
  /\ NumWaves \in Nat \ {0} /\ Stride \in Nat \ {0} /\ MaxAtomic \in Nat

Waves == 0 .. NumWaves - 1

VARIABLES
  form,     \* which code runs
  next,     \* j, then i: the loop variable of each wavefront of PE 0
  wpc,      \* where each wavefront of PE 0 is between two __syncthreads
  flying    \* puts posted and not yet arrived

gdaVars == <<form, next, wpc, flying>>
allVars == <<vars, gdaVars>>

FirstOf(w) == w + 1

AllInit ==
  /\ Init
  /\ form \in Forms
  /\ form # "ipc" => direct = (form # "atomic")
  /\ next = [w \in Waves |-> FirstOf(w)] /\ wpc = [w \in Waves |-> "wait"]
  /\ flying = {}

Bound == IF form = "atomic" THEN MaxAtomic ELSE MaxRounds

(* ipc: the whole barrier of IpcBarrier. *)
Ipc(p) == form = "ipc" /\ (Enter(p) \/ Step(p)) /\ UNCHANGED gdaVars

GdaEnter(p) ==
  /\ form # "ipc"
  /\ Goto(p, "out", IF p = 0 THEN "gather"
                    ELSE IF form = "thread" THEN "mark" ELSE "arrive")
  /\ round[p] < Bound
  /\ round' = [round EXCEPT ![p] = round[p] + 1]
  /\ i' = IF p = 0 THEN 1 ELSE i
  /\ UNCHANGED <<direct, pSync, gdaVars>>

----------------------------------------------------------------------------
(* Members: as over IPC, but the thread form puts its own entry from which *)
(* the put reads, and takes it down again.                                 *)

Mark(p) ==
  /\ p \in Members /\ Goto(p, "mark", "arrive") /\ Store(p, p, 1)
  /\ UNCHANGED <<direct, i, round, gdaVars>>

Member(p) ==
  /\ form # "ipc"
  /\ \/ Arrive(p) \/ SeeRelease(p)
     \/ form # "thread" /\ ClearRelease(p)
  /\ UNCHANGED gdaVars

ClearFirst(p) ==
  /\ p \in Members /\ form = "thread" /\ Goto(p, "clear", "unmark")
  /\ Store(p, 0, 0)
  /\ UNCHANGED <<direct, i, round, gdaVars>>

Unmark(p) ==
  /\ p \in Members /\ Goto(p, "unmark", "out") /\ Store(p, p, 0)
  /\ UNCHANGED <<direct, i, round, gdaVars>>

----------------------------------------------------------------------------
(* PE 0 of the thread and of the atomic form *)

Gather ==
  /\ form \in {"thread", "atomic"}
  /\ \/ SeeArrival \/ ResetArrival \/ AllReached
  /\ UNCHANGED gdaVars

(* pSync[0] = flag_val: before every put, or once before them all. *)
SetSource ==
  /\ form \in {"thread", "atomic"} /\ i < N
  /\ Goto(0, "release", "put") /\ Store(0, 0, 1)
  /\ UNCHANGED <<direct, i, round, gdaVars>>

PutRelease ==
  /\ form = "thread" /\ Goto(0, "put", "release")
  /\ Store(i, 0, pSync[0][0])
  /\ i' = i + 1
  /\ UNCHANGED <<direct, round, gdaVars>>

PostRelease ==
  /\ form = "atomic" /\ pc[0] = "put" /\ i < N
  /\ flying' = flying \cup {<<i, pSync[0][0]>>}
  /\ i' = i + 1
  /\ UNCHANGED <<direct, pc, pSync, round, form, next, wpc>>

(* quiet *)
QuietReleases ==
  /\ form = "atomic" /\ Goto(0, "put", "release") /\ i = N /\ flying = {}
  /\ UNCHANGED <<direct, i, pSync, round, gdaVars>>

----------------------------------------------------------------------------
(* PE 0 of the wg form: wavefront w has every NumWaves-th member. *)

WaveGoto(w, from, to) ==
  /\ form = "wg" /\ wpc[w] = from /\ wpc' = [wpc EXCEPT ![w] = to]

WaveSees(w) ==
  /\ pc[0] = "gather" /\ WaveGoto(w, "wait", "reset")
  /\ next[w] < N /\ pSync[0][next[w]] = 1
  /\ UNCHANGED <<vars, form, next, flying>>

WaveResets(w) ==
  /\ WaveGoto(w, "reset", "wait")
  /\ Store(0, next[w], 0)
  /\ next' = [next EXCEPT ![w] = next[w] + NumWaves]
  /\ UNCHANGED <<direct, pc, i, round, form, flying>>

(* Faulty variant: __syncthreads is left out, one wavefront is enough. *)
SomeWaveGathered ==
  /\ form = "wg" /\ Goto(0, "gather", "release") /\ \E w \in Waves : next[w] >= N
  /\ next' = [w \in Waves |-> FirstOf(w)] /\ wpc' = [w \in Waves |-> "wait"]
  /\ i' = N
  /\ UNCHANGED <<direct, pSync, round, form, flying>>

(* __syncthreads; the one-thread loops have nothing left to do. *)
WavesGathered ==
  /\ form = "wg" /\ Goto(0, "gather", "release")
  /\ \A w \in Waves : next[w] >= N /\ wpc[w] = "wait"
  /\ next' = [w \in Waves |-> FirstOf(w)] /\ i' = N
  /\ UNCHANGED <<direct, pSync, round, form, wpc, flying>>

(* The PE wavefront w puts its k-th release to, as an offset from PE_start: *)
(* j = stride + wf_id, then j += wf_count * stride. *)
Target(w, k) == Stride + w + ((k - FirstOf(w)) \div NumWaves) * NumWaves * Stride

(* A put to a PE outside the team releases none of its members. *)
Offset(pe) == IF pe % Stride = 0 THEN pe \div Stride ELSE N

WavePosts(w) ==
  /\ pc[0] = "release" /\ WaveGoto(w, "wait", "wait") /\ next[w] < N
  /\ flying' = flying \cup ({<<Offset(Target(w, next[w])), 1>>} \cap (PEs \X {1}))
  /\ next' = [next EXCEPT ![w] = next[w] + NumWaves]
  /\ UNCHANGED <<vars, form>>

(* Each wavefront's quiets, __syncthreads. *)
WavesQuiet ==
  /\ form = "wg" /\ Goto(0, "release", "clean")
  /\ flying = {} /\ \A w \in Waves : next[w] >= N
  /\ next' = [w \in Waves |-> FirstOf(w)]
  /\ UNCHANGED <<direct, pSync, i, round, form, wpc, flying>>

----------------------------------------------------------------------------
(* The NIC carries out a put that has been posted. *)
Deliver ==
  \E put \in flying :
    /\ Store(put[1], 0, put[2])
    /\ flying' = flying \ {put}
    /\ UNCHANGED <<direct, pc, i, round, form, next, wpc>>

(* pSync[0] = ROCSHMEM_SYNC_VALUE, the last store of every form. *)
GdaLeave ==
  /\ form # "ipc"
  /\ \/ pc[0] = "clean"
     \/ form \in {"thread", "atomic"} /\ pc[0] = "release" /\ i = N
  /\ pc' = [pc EXCEPT ![0] = "out"]
  /\ Store(0, 0, 0)
  /\ UNCHANGED <<direct, i, round, gdaVars>>

----------------------------------------------------------------------------
MemberStep(p) == Mark(p) \/ Member(p) \/ ClearFirst(p) \/ Unmark(p)

LeaderStep ==
  \/ Gather \/ SetSource \/ PutRelease \/ PostRelease \/ QuietReleases
  \/ WavesGathered \/ WavesQuiet \/ GdaLeave

WaveStep(w) == WaveSees(w) \/ WaveResets(w) \/ WavePosts(w)

AllNext ==
  \/ \E p \in PEs : Ipc(p) \/ GdaEnter(p) \/ MemberStep(p)
  \/ LeaderStep \/ Deliver
  \/ \E w \in Waves : WaveStep(w)
  \/ \E p \in PEs : Spin(p) /\ UNCHANGED gdaVars

AllFinished ==
  /\ \A p \in PEs : pc[p] = "out" /\ round[p] = Bound
  /\ UNCHANGED allVars

(* Wavefronts inside the barrier run on, the NIC completes what is posted. *)
AllFairness ==
  /\ \A p \in PEs : WF_allVars(Ipc(p) /\ pc[p] # "out") /\ WF_allVars(MemberStep(p))
  /\ WF_allVars(LeaderStep) /\ WF_allVars(Deliver)
  /\ \A w \in Waves : WF_allVars(WaveStep(w))

BarrierSpec == AllInit /\ [][AllNext \/ AllFinished]_allVars /\ AllFairness
=============================================================================
