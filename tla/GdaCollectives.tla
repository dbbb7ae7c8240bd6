--------------------------- MODULE GdaCollectives ---------------------------
(***************************************************************************)
(* The collectives of the GDA backend, on the work array and flags of the  *)
(* IPC ones (IpcCollectives).  A put, a get or an atomic add is posted to  *)
(* the queue pair of its peer; the NIC carries out what is posted on one   *)
(* queue pair in order, reading the source then.  A quiet waits until its  *)
(* queue pair is empty (GdaQueuePair: OnceInOrder, QuietMeansDone).        *)
(* What the lanes of a wavefront post is one step, each on a queue of its  *)
(* own.  A blocking put of a reduction is a store, as over IPC.            *)
(***************************************************************************)
EXTENDS IpcCollectives

VARIABLE qps   \* what each PE has posted to each, and the NIC has yet to do

allVars == <<vars, qps>>

AllInit == Init /\ qps = [p \in PEs |-> [q \in PEs |-> <<>>]]

Unicast == {"GDA_ALLTOALL", "ALLTOALLV_GET", "ALLTOALLV_COPY"}
GdaOps == Unicast \cup {"GDA_FCOLLECT", "GDA_BROADCAST"}

(* Each lane posts its part of work to its peer. *)
Posts(p, work) == qps' = [qps EXCEPT ![p] = [q \in PEs |-> qps[p][q] \o work[q]]]
Quieted(p) == \A q \in PEs : qps[p][q] = <<>>

Data(p, block) == [do |-> "put", cell |-> <<0, p>>, val |-> block, call |-> Call(p)]
Get(p, root, block) == [do |-> "get", cell |-> <<0, root>>, val |-> block, call |-> Call(p)]
Staged(p, block) == [do |-> "stage", cell |-> p, val |-> block, call |-> Call(p)]
Message(p, ctrl) == [do |-> "ctrl", cell |-> p, val |-> ctrl, call |-> Call(p)]
Flag(p, k, val) == [do |-> "flag", cell |-> k, val |-> val, call |-> Call(p)]
AddOne(p) == [do |-> "add", cell |-> FlagOf(p, p), val |-> 1, call |-> Call(p)]

Block(p, q) == {<<p, q, Call(p)>>}

others == <<prog, shared, alltoall_sequence_number, returned, phase, step, todo, barrier>>
rest == <<prog, returned, phase, step, todo, barrier>>

----------------------------------------------------------------------------
(* The NIC.  A source may be reused once its owner's call has returned, and *)
(* holds nothing of the call then; a message and a flag are in the work     *)
(* request itself.                                                          *)
Read(owner, w) == IF returned[owner] < w.call THEN w.val ELSE {}

Store(p, q, w) ==
  CASE w.do = "put" ->
         dst' = [dst EXCEPT ![q][w.call][w.cell] = Read(p, w)]
           /\ UNCHANGED <<pWrk, reduce_pSync, alltoall_pSync>>
    [] w.do = "get" ->
         dst' = [dst EXCEPT ![p][w.call][w.cell] = Read(q, w)]
           /\ UNCHANGED <<pWrk, reduce_pSync, alltoall_pSync>>
    [] w.do = "chunk" ->
         dst' = [dst EXCEPT ![q][w.call][w.cell] = dst[p][w.call][w.cell]]
           /\ UNCHANGED <<pWrk, reduce_pSync, alltoall_pSync>>
    [] w.do \in {"stage", "ctrl"} ->
         pWrk' = Put(pWrk, q, w.cell, IF w.do = "ctrl" THEN w.val ELSE Read(p, w))
           /\ UNCHANGED <<dst, reduce_pSync, alltoall_pSync>>
    [] w.do = "flag" ->
         reduce_pSync' = Put(reduce_pSync, q, w.cell, w.val)
           /\ UNCHANGED <<dst, pWrk, alltoall_pSync>>
    [] w.do = "add" ->
         alltoall_pSync' = Put(alltoall_pSync, q, w.cell, alltoall_pSync[q][w.cell] + 1)
           /\ UNCHANGED <<dst, pWrk, reduce_pSync>>

Execute(p, q) ==
  /\ qps[p][q] # <<>>
  /\ Store(p, q, Head(qps[p][q]))
  /\ qps' = [qps EXCEPT ![p][q] = Tail(qps[p][q])]
  /\ UNCHANGED <<prog, alltoall_sequence_number, returned, pc, phase, step, todo, barrier>>

----------------------------------------------------------------------------
GdaEnter(p) ==
  /\ Calling(p) /\ Op(p) \in GdaOps
  /\ Goto(p, "out", CASE Op(p) = "GDA_FCOLLECT" -> "gput"
                      [] Op(p) = "GDA_BROADCAST" -> IF p = 0 THEN "gcopy" ELSE "gget"
                      [] Op(p) = "ALLTOALLV_GET" -> "vctrl"
                      [] OTHER -> "vput")
  /\ UNCHANGED <<others, qps>>

(* alltoall_linear_thread_puts and alltoallv_copy: the block, into the     *)
(* destination or the staging buffer, and behind it the add to the flag.   *)
ThreadPuts(p) ==
  /\ Goto(p, "vput", "vwait")
  /\ Posts(p, [q \in PEs |-> IF Op(p) = "GDA_ALLTOALL"
                         THEN <<Data(p, Block(p, q)), AddOne(p)>>
                         ELSE <<Staged(p, Block(p, q)), AddOne(p)>>])
  /\ UNCHANGED others

(* alltoallv_get: where the source of the call is, for each peer. *)
Ctrl(p) == {<<p, alltoall_sequence_number[p] + 1>>}

PutCtrl(p) ==
  /\ Goto(p, "vctrl", "vsee")
  /\ Posts(p, [q \in PEs |-> <<Message(p, Ctrl(p))>>])
  /\ UNCHANGED others

(* The number of this call in the message of every peer. *)
SeeCtrl(p) ==
  /\ Goto(p, "vsee", "vget")
  /\ \A q \in PEs : pWrk[p][q] = {<<q, alltoall_sequence_number[p] + 1>>}
  /\ UNCHANGED <<others, qps>>

GetBlocks(p) ==
  /\ Goto(p, "vget", "vwait")
  /\ Posts(p, [q \in PEs |-> <<Get(p, q, {<<q, p, Call(p)>>}), AddOne(p)>>])
  /\ UNCHANGED others

(* All three: wait for the flags, quiet, take the flags down. *)
SeeFlags(p) ==
  /\ Goto(p, "vwait", "vquiet")
  /\ \A q \in PEs : alltoall_pSync[p][FlagOf(p, q)] = 1
  /\ UNCHANGED <<others, qps>>

(* Faulty variant: the flag is raised when the peer has all; no quiet. *)
NoQuiet(p) ==
  /\ Goto(p, "vquiet", "vreset")
  /\ UNCHANGED <<others, qps>>

QuietAll(p) ==
  /\ Goto(p, "vquiet", "vreset")
  /\ Quieted(p)
  /\ UNCHANGED <<others, qps>>

TakeFlagsDown(p) ==
  /\ Goto(p, "vreset", IF Op(p) = "ALLTOALLV_COPY" THEN "vcopy" ELSE "count")
  /\ alltoall_pSync' = [alltoall_pSync EXCEPT ![p] =
       [k \in DOMAIN alltoall_pSync[p] |->
          IF \E q \in PEs : k = FlagOf(p, q) THEN 0 ELSE alltoall_pSync[p][k]]]
  /\ UNCHANGED <<rest, pWrk, reduce_pSync, dst, alltoall_sequence_number, qps>>

(* alltoallv_copy: out of the staging buffer. *)
CopyOut(p) ==
  /\ Goto(p, "vcopy", "count")
  /\ dst' = [dst EXCEPT ![p][Call(p)] = [c \in DOMAIN dst[p][Call(p)] |-> pWrk[p][c[2]]]]
  /\ UNCHANGED <<rest, pWrk, reduce_pSync, alltoall_pSync, alltoall_sequence_number, qps>>

----------------------------------------------------------------------------
(* fcollect_linear, and broadcast by gets from the root, PE 0 (from four   *)
(* PEs on in the world): quiets, then a sync.                              *)

PutToAll(p) ==
  /\ Goto(p, "gput", "gquiet")
  /\ Posts(p, [q \in PEs |-> <<Data(p, Block(p, 0))>>])
  /\ UNCHANGED others

GetFromRoot(p) ==
  /\ Goto(p, "gget", "gquiet")
  /\ Posts(p, [q \in PEs |-> IF q = 0 THEN <<Get(p, 0, {<<0, 0, Call(p)>>})>> ELSE <<>>])
  /\ UNCHANGED others

CopyAtRoot(p) ==
  /\ Goto(p, "gcopy", "barrier")
  /\ PutDst(p, p, <<0, 0>>, Block(p, 0))
  /\ UNCHANGED <<rest, pWrk, reduce_pSync, alltoall_pSync, alltoall_sequence_number, qps>>

QuietThenSync(p) ==
  /\ Goto(p, "gquiet", "barrier")
  /\ Quieted(p)
  /\ UNCHANGED <<others, qps>>

----------------------------------------------------------------------------
(* The second loop of internal_ring_allreduce: a chunk is posted and not   *)
(* waited for, the put of the flag behind it is.                           *)

GdaRing(p) == pc[p] = "rput" /\ Op(p) = "GDA_REDUCE" /\ ~FirstLoop(p)

RingPost(p) ==
  /\ GdaRing(p) /\ Goto(p, "rput", "rquiet")
  /\ Posts(p, [q \in PEs |->
       IF q # Send(p) THEN <<>>
       ELSE <<[do |-> "chunk", cell |-> Chunk(p, SendChunk(p)), val |-> 0, call |-> Call(p)],
              Flag(p, Iter(p), RingFlag(p))>>])
  /\ UNCHANGED others

RingQuiet(p) ==
  /\ Goto(p, "rquiet", "rwait")
  /\ Quieted(p)
  /\ UNCHANGED <<others, qps>>

----------------------------------------------------------------------------
GdaStep(p) ==
  \/ GdaEnter(p)
  \/ ThreadPuts(p) \/ PutCtrl(p) \/ SeeCtrl(p) \/ GetBlocks(p)
  \/ SeeFlags(p) \/ QuietAll(p) \/ TakeFlagsDown(p) \/ CopyOut(p)
  \/ PutToAll(p) \/ GetFromRoot(p) \/ CopyAtRoot(p) \/ QuietThenSync(p)
  \/ RingPost(p) \/ RingQuiet(p)

(* What the two backends share. *)
SharedStep(p) ==
  /\ ~GdaRing(p) /\ (pc[p] = "out" /\ Calling(p) => Op(p) \notin GdaOps)
  /\ Step(p) /\ UNCHANGED qps

GdaSpin(p) ==
  /\ pc[p] \in {"vsee", "vwait", "vquiet", "gquiet", "rquiet"}
  /\ UNCHANGED allVars

AllNext ==
  \E p \in PEs :
    \/ GdaStep(p) \/ SharedStep(p)
    \/ \E q \in PEs : Execute(p, q)
    \/ GdaSpin(p) \/ (Spin(p) /\ UNCHANGED qps)

AllSpec == AllInit /\ [][AllNext]_allVars

(* Work-groups keep running, every PE calls, and the NIC works. *)
AllFairSpec ==
  /\ AllSpec
  /\ \A p \in PEs :
       /\ WF_allVars(GdaStep(p)) /\ WF_allVars(SharedStep(p))
       /\ \A q \in PEs : WF_allVars(Execute(p, q))
=============================================================================
