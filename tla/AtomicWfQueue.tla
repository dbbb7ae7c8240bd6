---------------------------- MODULE AtomicWfQueue ----------------------------
(***************************************************************************)
(* AtomicWFQueue, the ring that holds the per-wave buffers of the default  *)
(* context.  The lowest active lane acts for its wave.  Dequeuers and      *)
(* enqueuers exclude their own kind with a ticket lock each (FifoLock) and *)
(* meet only in curr_size_.  DequeueLine and EnqueueLine begin a call; the *)
(* caller decides when (DefaultCtx), Step runs it to its end.              *)
(***************************************************************************)
EXTENDS Naturals, SequencesExt

CONSTANTS
  Waves,     \* the waves that use the pool
  Size,      \* size_: as many slots as buffers (MAX_WF_BUFFERS)
  None       \* no buffer

Buffers == 1 .. Size

VARIABLES
  queue,        \* queue_
  head, tail,   \* head_, tail_
  currSize,     \* curr_size_
  dline, dheld, \* dequeue_mutex_
  eline, eheld, \* enqueue_mutex_
  pc,           \* where each wave is
  my            \* ret_val, then val: the buffer of each wave

ring == <<queue, head, tail, currSize>>
vars == <<queue, head, tail, currSize, dline, dheld, eline, eheld, pc, my>>

DeqLock == INSTANCE FifoLock WITH Procs <- Waves, line <- dline, held <- dheld
EnqLock == INSTANCE FifoLock WITH Procs <- Waves, line <- eline, held <- eheld

Goto(w, from, to) == pc[w] = from /\ pc' = [pc EXCEPT ![w] = to]

(* allocate_queue, then one push per buffer: head_ and tail_ meet again. *)
Init ==
  /\ queue = [i \in 0 .. Size - 1 |-> i + 1]
  /\ head = 0 /\ tail = 0 /\ currSize = Size
  /\ DeqLock!Init /\ EnqLock!Init
  /\ pc = [w \in Waves |-> "idle"]
  /\ my = [w \in Waves |-> None]

(* Faulty variant: a full ring looks empty. *)
IsEmptyByIndices == head = tail

IsEmpty == currSize = 0

----------------------------------------------------------------------------
(* dequeue *)

DequeueLine(w) ==
  /\ Goto(w, "idle", "deqline")
  /\ DeqLock!Join(w)
  /\ UNCHANGED <<ring, eline, eheld, my>>

(* Faulty variant: the wave does not wait for its turn. *)
DequeueBarge(w) ==
  /\ Goto(w, "deqline", "deq")
  /\ dheld' = TRUE
  /\ UNCHANGED <<ring, dline, eline, eheld, my>>

DequeueLock(w) ==
  /\ Goto(w, "deqline", "deq") /\ DeqLock!Enter(w)
  /\ UNCHANGED <<ring, eline, eheld, my>>

(* The wave leaves while (is_empty()) and takes the oldest element. *)
TakeHead(w) ==
  /\ Goto(w, "deq", "took") /\ ~IsEmpty
  /\ my' = [my EXCEPT ![w] = queue[head]]
  /\ head' = (head + 1) % Size
  /\ UNCHANGED <<queue, tail, currSize, dline, dheld, eline, eheld>>

(* while (is_empty()) {} with the dequeue lock held *)
Spin(w) == pc[w] = "deq" /\ IsEmpty /\ UNCHANGED vars

SubtractSize(w) ==
  /\ Goto(w, "took", "deqdone")
  /\ currSize' = currSize - 1
  /\ UNCHANGED <<queue, head, tail, dline, dheld, eline, eheld, my>>

DequeueUnlock(w) ==
  /\ Goto(w, "deqdone", "holds") /\ DeqLock!Leave(w)
  /\ UNCHANGED <<ring, eline, eheld, my>>

----------------------------------------------------------------------------
(* enqueue *)

EnqueueLine(w) ==
  /\ Goto(w, "holds", "enqline") /\ EnqLock!Join(w)
  /\ UNCHANGED <<ring, dline, dheld, my>>

EnqueueLock(w) ==
  /\ Goto(w, "enqline", "enq") /\ EnqLock!Enter(w)
  /\ UNCHANGED <<ring, dline, dheld, my>>

(* Faulty variant: the element is counted before it is there. *)
CountThenWrite(w) ==
  \/ /\ pc[w] = "enq"
     /\ currSize' = currSize + 1
     /\ pc' = [pc EXCEPT ![w] = "enqcounted"]
     /\ UNCHANGED <<queue, head, tail, dline, dheld, eline, eheld, my>>
  \/ /\ Goto(w, "enqcounted", "enqdone")
     /\ queue' = [queue EXCEPT ![tail] = my[w]]
     /\ tail' = (tail + 1) % Size
     /\ my' = [my EXCEPT ![w] = None]
     /\ UNCHANGED <<head, currSize, dline, dheld, eline, eheld>>

WriteTail(w) ==
  /\ Goto(w, "enq", "wrote")
  /\ queue' = [queue EXCEPT ![tail] = my[w]]
  /\ tail' = (tail + 1) % Size
  /\ UNCHANGED <<head, currSize, dline, dheld, eline, eheld, my>>

(* Faulty variant: the element is written and never counted. *)
AddNothing(w) ==
  /\ Goto(w, "wrote", "enqdone")
  /\ my' = [my EXCEPT ![w] = None]
  /\ UNCHANGED <<ring, dline, dheld, eline, eheld>>

(* After this step a dequeuer may take the element. *)
AddSize(w) ==
  /\ Goto(w, "wrote", "enqdone")
  /\ currSize' = currSize + 1
  /\ my' = [my EXCEPT ![w] = None]
  /\ UNCHANGED <<queue, head, tail, dline, dheld, eline, eheld>>

EnqueueUnlock(w) ==
  /\ Goto(w, "enqdone", "idle") /\ EnqLock!Leave(w)
  /\ UNCHANGED <<ring, dline, dheld, my>>

----------------------------------------------------------------------------
(* The steps of a call that has begun. *)
Step(w) ==
  \/ DequeueLock(w) \/ TakeHead(w) \/ SubtractSize(w) \/ DequeueUnlock(w)
  \/ EnqueueLock(w) \/ WriteTail(w) \/ AddSize(w) \/ EnqueueUnlock(w)

Calling(w) == pc[w] \notin {"idle", "holds"}

----------------------------------------------------------------------------
(* Elements a dequeuer has taken but not yet subtracted. *)
Uncounted == Cardinality({w \in Waves : pc[w] = "took"})

(* The elements a dequeuer can still take, oldest first. *)
Free == [i \in 1 .. currSize - Uncounted |-> queue[(head + i - 1) % Size]]

(* A buffer is held by one wave or is in the ring once, never both: the *)
(* lock-free meeting in curr_size_ neither loses nor duplicates one. *)
OnePlace ==
  \A b \in Buffers :
    Cardinality({w \in Waves : my[w] = b})
      + Cardinality({i \in DOMAIN Free : Free[i] = b}) = 1

(* The waves that have asked and not been served. *)
Unserved ==
  IF dline # <<>> /\ pc[Head(dline)] \in {"took", "deqdone"} THEN Tail(dline) ELSE dline

(* The ring is a pool that hands out its oldest buffer, first come first *)
(* served, *)
Pool == INSTANCE BufferPool WITH free <- Free, held <- my, line <- Unserved
ActsAsPool ==
  /\ Pool!Holds([i \in 1 .. Size |-> i])
  /\ [][Pool!Next]_(Pool!vars)

(* and keeps nobody waiting while it has one. *)
PoolServes == Pool!Fairness
=============================================================================
