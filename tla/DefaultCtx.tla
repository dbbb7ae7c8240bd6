----------------------------- MODULE DefaultCtx -----------------------------
(***************************************************************************)
(* Calls on the default context of the reverse-offload backend.  All waves *)
(* share its ring, so a blocking call borrows its status flag, and a       *)
(* fetching call the word for its result too.  The flags come from an      *)
(* AtomicWFQueue taken step by step (AtomicWfQueue), the words from one    *)
(* taken at its promise (BufferPool, which AtomicWfQueue implements).  The *)
(* ring is RoQueue's, a slot reserved, filled and published in one step;   *)
(* of a slot only the status pointer is kept, which is what a call polls.  *)
(***************************************************************************)
EXTENDS Naturals, SequencesExt

CONSTANTS
  Waves,
  Calls,       \* "PUT" blocks, "NBI" does not, "G" stands for g and the atomics
  NumBuffers,  \* MAX_WF_BUFFERS: buffers in each pool
  QSize,       \* slots of the ring (queue_size)
  None,        \* no buffer
  MaxCalls     \* bound: calls of all the waves together

ASSUME DefaultCtxAssumption ==
  /\ Calls \subseteq {"PUT", "NBI", "G"}
  /\ NumBuffers \in Nat \ {0} /\ QSize \in Nat \ {0} /\ MaxCalls \in Nat
  /\ None \notin 1 .. NumBuffers /\ None \notin Waves

Buffers == 1 .. NumBuffers

VARIABLES
  squeue, shead, stail, ssize,    \* default_ctx_status
  sdline, sdheld, seline, seheld,
  spc, sheld,
  rfree, rline, rheld, \* default_ctx_g_ret, default_ctx_atomic_ret
  status,              \* the status bytes
  pointers,            \* the status field of each slot of the ring
  written, taken,      \* write_index and read_index of the ring
  commands,            \* blocking commands not answered: [idx, status]
  stage, call, ncalls,
  index                \* the ring index of each wave's command

statusPool == <<squeue, shead, stail, ssize, sdline, sdheld, seline, seheld,
                spc, sheld>>
retPool == <<rfree, rline, rheld>>
ring == <<pointers, written, taken, commands, index>>
callVars == <<call, ncalls>>
defaultVars == <<statusPool, retPool, status, ring, stage, callVars>>

Status == INSTANCE AtomicWfQueue
  WITH Size <- NumBuffers, queue <- squeue, head <- shead, tail <- stail,
       currSize <- ssize, dline <- sdline, dheld <- sdheld,
       eline <- seline, eheld <- seheld, pc <- spc, my <- sheld
Ret == INSTANCE BufferPool WITH free <- rfree, line <- rline, held <- rheld

Goto(w, from, to) == stage[w] = from /\ stage' = [stage EXCEPT ![w] = to]

(* setup_default_ctx_buffers: both pools full, no flag raised. *)
DefaultInit ==
  /\ Status!Init /\ Ret!Holds([i \in Buffers |-> i])
  /\ status = [b \in Buffers |-> 0]
  /\ pointers = [s \in 0 .. QSize - 1 |-> None]
  /\ written = 0 /\ taken = 0 /\ commands = {}
  /\ stage = [w \in Waves |-> "idle"] /\ call = [w \in Waves |-> None]
  /\ ncalls = 0 /\ index = [w \in Waves |-> 0]

----------------------------------------------------------------------------
(* A fetching call asks for its result word first, a put for its flag; a *)
(* nonblocking call passes no status and touches neither pool. *)
Begin(w) ==
  /\ ncalls < MaxCalls /\ ncalls' = ncalls + 1
  /\ \E c \in Calls :
       /\ call' = [call EXCEPT ![w] = c]
       /\ \/ c = "G" /\ Goto(w, "idle", "retline") /\ Ret!Ask(w)
             /\ UNCHANGED statusPool
          \/ c = "PUT" /\ Goto(w, "idle", "flag") /\ Status!DequeueLine(w)
             /\ UNCHANGED retPool
          \/ c = "NBI" /\ Goto(w, "idle", "slot")
             /\ UNCHANGED <<statusPool, retPool>>
  /\ UNCHANGED <<status, ring>>

(* get_g_ret_buf, get_atomic_ret_buf *)
TakeRet(w) ==
  /\ Goto(w, "retline", "ret") /\ Ret!Take(w)
  /\ UNCHANGED <<statusPool, status, ring, callVars>>

(* get_status_flag *)
AskStatus(w) ==
  /\ Goto(w, "ret", "flag") /\ Status!DequeueLine(w)
  /\ UNCHANGED <<retPool, status, ring, callVars>>

(* Inside dequeue or enqueue of the flags. *)
StatusStep(w) ==
  /\ Status!Step(w)
  /\ UNCHANGED <<retPool, status, ring, stage, callVars>>

----------------------------------------------------------------------------
(* build_queue_element *)

Slot(i) == i % QSize
HasSpace == written - taken < QSize

(* A nonblocking command leaves the status field of its slot alone. *)
PublishNbi(w) ==
  /\ Goto(w, "slot", "idle") /\ HasSpace
  /\ written' = written + 1
  /\ call' = [call EXCEPT ![w] = None]
  /\ UNCHANGED <<statusPool, retPool, status, pointers, taken, commands, index,
                 ncalls>>

Publish(w) ==
  /\ Goto(w, "flag", "poll") /\ spc[w] = "holds" /\ HasSpace
  /\ written' = written + 1
  /\ index' = [index EXCEPT ![w] = written]
  /\ pointers' = [pointers EXCEPT ![Slot(written)] = sheld[w]]
  /\ commands' = commands \cup {[idx |-> written, status |-> sheld[w]]}
  /\ UNCHANGED <<statusPool, retPool, status, taken, callVars>>

(* The poll and the reset go through the slot, where by now the pointer of *)
(* a later command may stand. *)
Polled(w) == pointers[Slot(index[w])]

SeeStatus(w) ==
  /\ Goto(w, "poll", "reset") /\ status[Polled(w)] = 1
  /\ UNCHANGED <<statusPool, retPool, status, ring, callVars>>

ResetStatus(w) ==
  /\ Goto(w, "reset", "seen")
  /\ status' = [status EXCEPT ![Polled(w)] = 0]
  /\ UNCHANGED <<statusPool, retPool, ring, callVars>>

(* The call gives back the flag it was lent, whichever it polled. *)
GiveStatus(w) ==
  /\ Goto(w, "seen", "returned") /\ Status!EnqueueLine(w)
  /\ UNCHANGED <<retPool, status, ring, callVars>>

(* The end of a put; a fetching call goes on to give its word back. *)
EndPut(w) ==
  /\ Goto(w, "returned", "idle") /\ call[w] = "PUT" /\ spc[w] = "idle"
  /\ call' = [call EXCEPT ![w] = None]
  /\ UNCHANGED <<statusPool, retPool, status, ring, ncalls>>

GiveRet(w) ==
  /\ Goto(w, "returned", "idle") /\ call[w] = "G" /\ spc[w] = "idle"
  /\ Ret!Give(w)
  /\ call' = [call EXCEPT ![w] = None]
  /\ UNCHANGED <<statusPool, status, ring, ncalls>>

----------------------------------------------------------------------------
(* Queue::process takes the published commands in order, *)
TakeCommand ==
  /\ taken < written /\ taken' = taken + 1
  /\ UNCHANGED <<statusPool, retPool, status, pointers, written, commands,
                 index, stage, callVars>>

(* and the transport answers a command it was handed, in any order. *)
Answer(c) ==
  /\ c \in commands /\ c.idx < taken
  /\ status' = [status EXCEPT ![c.status] = 1]
  /\ commands' = commands \ {c}
  /\ UNCHANGED <<statusPool, retPool, pointers, written, taken, index, stage,
                 callVars>>

----------------------------------------------------------------------------
Run(w) ==
  \/ TakeRet(w) \/ AskStatus(w) \/ StatusStep(w)
  \/ PublishNbi(w) \/ Publish(w) \/ SeeStatus(w) \/ ResetStatus(w)
  \/ GiveStatus(w) \/ EndPut(w) \/ GiveRet(w)

Cpu == TakeCommand \/ \E c \in commands : Answer(c)

(* The loops of is_empty(), of the space test and of the poll. *)
Spin(w) ==
  /\ Status!Spin(w) \/ stage[w] \in {"retline", "poll"} \/ ~HasSpace
  /\ UNCHANGED defaultVars

DefaultNext == (\E w \in Waves : Begin(w) \/ Run(w) \/ Spin(w)) \/ Cpu

DefaultFinished ==
  /\ ncalls = MaxCalls /\ \A w \in Waves : stage[w] = "idle"
  /\ UNCHANGED defaultVars

(* Waves inside a call run on; the polling thread takes every command and *)
(* MPI completes it. *)
DefaultFairness ==
  /\ \A w \in Waves : WF_defaultVars(Run(w))
  /\ WF_defaultVars(TakeCommand)
  /\ WF_defaultVars(\E c \in commands : Answer(c))

DefaultSpec == DefaultInit /\ [][DefaultNext \/ DefaultFinished]_defaultVars
DefaultFairSpec == DefaultSpec /\ DefaultFairness

----------------------------------------------------------------------------
(* Every variable keeps its type. *)
DefaultTypeOK ==
  /\ squeue \in [0 .. NumBuffers - 1 -> Buffers]
  /\ {shead, stail} \subseteq 0 .. NumBuffers - 1 /\ ssize \in 0 .. NumBuffers
  /\ {sdline, seline, rline} \subseteq Seq(Waves) /\ rfree \in Seq(Buffers)
  /\ {sdheld, seheld} \subseteq BOOLEAN
  /\ {sheld, rheld} \subseteq [Waves -> Buffers \cup {None}]
  /\ status \in [Buffers -> 0 .. 1]
  /\ pointers \in [0 .. QSize - 1 -> Buffers \cup {None}]
  /\ written \in 0 .. MaxCalls /\ taken \in 0 .. written
  /\ commands \subseteq [idx : 0 .. MaxCalls, status : Buffers]
  /\ index \in [Waves -> 0 .. MaxCalls]
  /\ stage \in [Waves -> {"idle", "retline", "ret", "flag", "slot", "poll",
                          "reset", "seen", "returned"}]
  /\ call \in [Waves -> Calls \cup {None}] /\ ncalls \in 0 .. MaxCalls

(* No flag is lost or lent twice, though the two ends of the queue have *)
(* different locks and meet in curr_size_ alone. *)
OnePlace == Status!OnePlace

(* The queue of flags is a pool in use: oldest flag first, first come first *)
(* served, *)
ActsAsPool == Status!ActsAsPool

(* nobody kept waiting while there is one. *)
PoolServes == Status!PoolServes

(* Holding a result word while waiting for a flag, and a flag while waiting *)
(* for a slot, never stops the waves: if no call polls for ever, every call *)
(* returns.  That one may poll for ever is shown by RoQueue!OwnCompletion. *)
NobodyStopped ==
  (\A w \in Waves : []<>(stage[w] # "poll"))
    => \A w \in Waves : []<>(stage[w] = "idle")
=============================================================================
