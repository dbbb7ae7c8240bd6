----------------------------- MODULE SdmaQueue -----------------------------
(***************************************************************************)
(* One SDMA queue of the IPC backend (anvil): wavefronts reserve room in a *)
(* ring of packets, write their packets, hand the doorbell on from one to  *)
(* the next, and the copy engine executes what the doorbell covers.  A     *)
(* quiet polls the engine's read index.  Indices count units of the ring   *)
(* and never wrap; a packet that would cross the end of the ring is        *)
(* preceded by NOPs.                                                       *)
(***************************************************************************)
EXTENDS Integers, Sequences, Functions

CONSTANTS
  Waves,      \* wavefronts (their one active lane) that share the queue
  Contexts,   \* contexts of the PE: each has its own sdmaDirty
  CtxOf,      \* the context of each wavefront
  S,          \* SDMA_QUEUE_SIZE
  Size,       \* units of one copy packet
  Programs    \* what the wavefronts may call: sets of [Waves -> Seq(Ops)]

Ops == {"PUT", "PUT_NBI", "QUIET"}
Puts == {"PUT", "PUT_NBI"}

(* A megabyte of ring, packets of a few dozen bytes. *)
ASSUME QueueAssumption ==
  /\ S \in Nat \ {0} /\ Size \in Nat \ {0} /\ 2 * Size <= S
  /\ CtxOf \in [Waves -> Contexts]
  /\ Programs \subseteq [Waves -> Seq(Ops)]

NoCall == <<>>
Calls == Waves \X (Nat \ {0})

VARIABLES
  queueBuf,           \* what each unit of the ring holds
  rptr, wptr, doorbell, cachedWptr, committedWptr,
  cachedHwReadIndex, maxWritePtr,
  sdmaDirty,          \* the contexts with a put nobody has drained
  prog,               \* the program of each wavefront
  returned,           \* calls of it that have returned
  pc, cur, hw,        \* program counter, cur_index, and the last index polled
  executed            \* the copies the engine has made, in order

vars == <<queueBuf, rptr, wptr, doorbell, cachedWptr, committedWptr,
          cachedHwReadIndex, maxWritePtr, sdmaDirty, prog, returned, pc, cur,
          hw, executed>>
ring == <<queueBuf, rptr, executed>>
pointers == <<wptr, doorbell, committedWptr, maxWritePtr>>
drain == <<sdmaDirty, prog>>

Init ==
  /\ queueBuf = [u \in 0 .. S - 1 |-> [idx |-> -1, len |-> 1, call |-> NoCall]]
  /\ rptr = 0 /\ wptr = 0 /\ doorbell = 0
  /\ cachedWptr = 0 /\ committedWptr = 0
  /\ cachedHwReadIndex = 0 /\ maxWritePtr = 0
  /\ sdmaDirty = {}
  /\ prog \in Programs
  /\ returned = [w \in Waves |-> 0]
  /\ pc = [w \in Waves |-> "out"]
  /\ cur = [w \in Waves |-> 0]
  /\ hw = [w \in Waves |-> 0]
  /\ executed = <<>>

Goto(w, from, to) == pc[w] = from /\ pc' = [pc EXCEPT ![w] = to]
Calling(w) == returned[w] < Len(prog[w])
Op(w) == prog[w][returned[w] + 1]
Call(w) == <<w, returned[w] + 1>>
Returns(w) == returned' = [returned EXCEPT ![w] = returned[w] + 1]

----------------------------------------------------------------------------
(* Reserving room *)

WrapIntoRing(i) == i % S

(* The NOPs in front of a packet that would cross the end of the ring. *)
Offset(i) ==
  IF WrapIntoRing(i) + Size > S THEN S - WrapIntoRing(i) ELSE 0

NewIndex(w) == cur[w] + Offset(cur[w]) + Size

(* Faulty variant: the ring may fill up completely. *)
MayFill(upto, readIndex) == upto - readIndex \in 0 .. S

(* Faulty variant: offsets in the ring are compared, not indices. *)
FitsWrapped(upto, readIndex) ==
  WrapIntoRing(upto) - WrapIntoRing(readIndex) \in 0 .. S - 1

(* The subtraction is unsigned: an index behind the read index does not fit. *)
Fits(upto, readIndex) == upto - readIndex \in 0 .. S - 1

LoadWptr(w) ==
  /\ Goto(w, "out", "check") /\ Calling(w) /\ Op(w) \in Puts
  /\ cur' = [cur EXCEPT ![w] = cachedWptr]
  /\ UNCHANGED <<ring, pointers, drain, cachedWptr, cachedHwReadIndex, returned, hw>>

CheckCachedIndex(w) ==
  /\ Goto(w, "check", IF Fits(NewIndex(w), cachedHwReadIndex) THEN "cas" ELSE "load")
  /\ UNCHANGED <<ring, pointers, drain, cachedWptr, cachedHwReadIndex, returned, cur, hw>>

LoadReadIndex(w) ==
  /\ Goto(w, "load", "refresh")
  /\ hw' = [hw EXCEPT ![w] = rptr]
  /\ UNCHANGED <<ring, pointers, drain, cachedWptr, cachedHwReadIndex, returned, cur>>

(* The index is shared and plain: a slower wavefront may set it back. *)
StoreReadIndex(w) ==
  /\ Goto(w, "refresh", IF Fits(NewIndex(w), hw[w]) THEN "cas" ELSE "out")
  /\ cachedHwReadIndex' = hw[w]
  /\ UNCHANGED <<ring, pointers, drain, cachedWptr, returned, cur, hw>>

(* The compare-and-swap; if it fails, all over again. *)
Reserve(w) ==
  /\ IF cachedWptr = cur[w]
     THEN Goto(w, "cas", "place") /\ cachedWptr' = NewIndex(w)
     ELSE Goto(w, "cas", "out") /\ UNCHANGED cachedWptr
  /\ UNCHANGED <<ring, pointers, drain, cachedHwReadIndex, returned, cur, hw>>

----------------------------------------------------------------------------
(* Writing the packet *)

(* Unit i of the reservation of w: a run of NOPs, then the packet; len is *)
(* how far the engine goes from there. *)
Unit(w, i) ==
  LET packet == cur[w] + Offset(cur[w])
  IN IF i < packet
     THEN [idx |-> i, len |-> packet - i, call |-> NoCall]
     ELSE [idx |-> i, len |-> NewIndex(w) - i, call |-> Call(w)]

(* Faulty variant: the NOPs are left out. *)
PlaceNoPadding(w) ==
  /\ Goto(w, "place", "turn")
  /\ queueBuf' = [u \in 0 .. S - 1 |->
       IF \E i \in cur[w] + Offset(cur[w]) .. NewIndex(w) - 1 : WrapIntoRing(i) = u
       THEN Unit(w, CHOOSE i \in cur[w] + Offset(cur[w]) .. NewIndex(w) - 1 :
                      WrapIntoRing(i) = u)
       ELSE queueBuf[u]]
  /\ UNCHANGED <<pointers, drain, rptr, executed, cachedWptr, cachedHwReadIndex,
                 returned, cur, hw>>

PlacePacket(w) ==
  /\ Goto(w, "place", "turn")
  /\ queueBuf' = [u \in 0 .. S - 1 |->
       IF \E i \in cur[w] .. NewIndex(w) - 1 : WrapIntoRing(i) = u
       THEN Unit(w, CHOOSE i \in cur[w] .. NewIndex(w) - 1 : WrapIntoRing(i) = u)
       ELSE queueBuf[u]]
  /\ UNCHANGED <<pointers, drain, rptr, executed, cachedWptr, cachedHwReadIndex,
                 returned, cur, hw>>

----------------------------------------------------------------------------
(* Submitting: the reservations take turns on committedWptr. *)

SubmitRest == <<ring, drain, cachedWptr, cachedHwReadIndex, cur, hw>>

Turn(w) ==
  /\ Goto(w, "turn", "ring") /\ committedWptr = cur[w]
  /\ wptr' = NewIndex(w)
  /\ UNCHANGED <<SubmitRest, doorbell, committedWptr, maxWritePtr, returned>>

RingDoorbell(w) ==
  /\ Goto(w, "ring", "commit")
  /\ doorbell' = NewIndex(w)
  /\ UNCHANGED <<SubmitRest, wptr, committedWptr, maxWritePtr, returned>>

(* Faulty variant: the NOPs are not counted. *)
CommitPacket(w) ==
  /\ Goto(w, "commit", "max")
  /\ committedWptr' = cur[w] + Size
  /\ UNCHANGED <<SubmitRest, wptr, doorbell, maxWritePtr, returned>>

Commit(w) ==
  /\ Goto(w, "commit", "max")
  /\ committedWptr' = NewIndex(w)
  /\ UNCHANGED <<SubmitRest, wptr, doorbell, maxWritePtr, returned>>

(* After the turn is passed on: another wavefront may store a larger index *)
(* first.  A blocking copy goes on to quietAll. *)
StoreMaxWrite(w) ==
  /\ Goto(w, "max", IF Op(w) = "PUT" THEN "quiet" ELSE "mark")
  /\ maxWritePtr' = NewIndex(w)
  /\ UNCHANGED <<SubmitRest, wptr, doorbell, committedWptr, returned>>

MarkDirty(w) ==
  /\ Goto(w, "mark", "out") /\ Returns(w)
  /\ sdmaDirty' = sdmaDirty \cup {CtxOf[w]}
  /\ UNCHANGED <<ring, pointers, prog, cachedWptr, cachedHwReadIndex, cur, hw>>

----------------------------------------------------------------------------
(* Quiet *)

(* ipcQuiet, ipcFence: a clean context returns at once. *)
ReadDirty(w) ==
  /\ Calling(w) /\ Op(w) = "QUIET"
  /\ IF CtxOf[w] \in sdmaDirty
     THEN Goto(w, "out", "take") /\ UNCHANGED returned
     ELSE pc[w] = "out" /\ Returns(w) /\ UNCHANGED pc
  /\ UNCHANGED <<ring, pointers, drain, cachedWptr, cachedHwReadIndex, cur, hw>>

TakeDirty(w) ==
  /\ IF CtxOf[w] \in sdmaDirty
     THEN Goto(w, "take", "quiet") /\ UNCHANGED returned
     ELSE Goto(w, "take", "out") /\ Returns(w)
  /\ sdmaDirty' = sdmaDirty \ {CtxOf[w]}
  /\ UNCHANGED <<ring, pointers, prog, cachedWptr, cachedHwReadIndex, cur, hw>>

(* quietAll loads its target once. *)
LoadTarget(w) ==
  /\ Goto(w, "quiet", "poll")
  /\ hw' = [hw EXCEPT ![w] = maxWritePtr]
  /\ UNCHANGED <<ring, pointers, drain, cachedWptr, cachedHwReadIndex, returned, cur>>

ReachTarget(w) ==
  /\ Goto(w, "poll", "out") /\ rptr >= hw[w] /\ Returns(w)
  /\ UNCHANGED <<ring, pointers, drain, cachedWptr, cachedHwReadIndex, cur, hw>>

----------------------------------------------------------------------------
(* The engine: it executes whatever the ring holds at its read index. *)
Consume ==
  /\ rptr < doorbell
  /\ LET u == queueBuf[WrapIntoRing(rptr)]
     IN /\ rptr' = rptr + u.len
        /\ executed' = IF u.call = NoCall THEN executed ELSE Append(executed, u.call)
  /\ UNCHANGED <<queueBuf, pointers, drain, cachedWptr, cachedHwReadIndex,
                 returned, pc, cur, hw>>

Submit(w) ==
  \/ LoadWptr(w) \/ CheckCachedIndex(w) \/ LoadReadIndex(w) \/ StoreReadIndex(w)
  \/ Reserve(w) \/ PlacePacket(w)
  \/ Turn(w) \/ RingDoorbell(w) \/ Commit(w) \/ StoreMaxWrite(w) \/ MarkDirty(w)

Quiet(w) == ReadDirty(w) \/ TakeDirty(w) \/ LoadTarget(w) \/ ReachTarget(w)

(* A wavefront that waits keeps loading; one that has returned is gone. *)
Spin(w) ==
  /\ pc[w] \in {"turn", "poll"} \/ (pc[w] = "out" /\ ~Calling(w))
  /\ UNCHANGED vars

Next == (\E w \in Waves : Submit(w) \/ Quiet(w) \/ Spin(w)) \/ Consume

Spec == Init /\ [][Next]_vars

(* Resident wavefronts keep running, and so does the engine. *)
Fairness == (\A w \in Waves : WF_vars(Submit(w) \/ Quiet(w))) /\ WF_vars(Consume)
FairSpec == Spec /\ Fairness

----------------------------------------------------------------------------
(* Every variable keeps its type. *)
TypeOK ==
  /\ queueBuf \in [0 .. S - 1 -> [idx : Nat \cup {-1}, len : Nat, call : Calls \cup {NoCall}]]
  /\ rptr \in Nat /\ wptr \in Nat /\ doorbell \in Nat
  /\ cachedWptr \in Nat /\ committedWptr \in Nat
  /\ cachedHwReadIndex \in Nat /\ maxWritePtr \in Nat
  /\ sdmaDirty \subseteq Contexts
  /\ prog \in Programs
  /\ returned \in [Waves -> Nat]
  /\ pc \in [Waves -> {"out", "check", "load", "refresh", "cas", "place", "turn",
                       "ring", "commit", "max", "mark", "take", "quiet", "poll"}]
  /\ cur \in [Waves -> Nat] /\ hw \in [Waves -> Nat]
  /\ executed \in Seq(Calls)

(* Reservations never run into units the engine has yet to read, however *)
(* stale the cached read index is and whoever overwrote it. *)
NoOverrun == rptr <= doorbell /\ doorbell <= cachedWptr /\ cachedWptr - rptr < S

(* What the doorbell has exposed to the engine is what was written for it: *)
(* no gap of an unfinished packet, no leftover of the last lap. *)
Exposed ==
  \A i \in rptr .. doorbell - 1 : queueBuf[WrapIntoRing(i)].idx = i

(* The copies of one wavefront are made once each, in the order it issued *)
(* them. *)
InOrder ==
  \A i, j \in DOMAIN executed :
     i < j /\ executed[i][1] = executed[j][1] => executed[i][2] < executed[j][2]

(* Every put and every quiet returns, and every copy is made: nobody waits *)
(* for a turn, for room or for an index that never comes. *)
Idle == \A w \in Waves : pc[w] = "out" /\ ~Calling(w)
Made == \A w \in Waves : \A k \in 1 .. Len(prog[w]) :
          prog[w][k] \in Puts => <<w, k>> \in Range(executed)
CallsReturn == <>[](Idle /\ Made)

(* When a quiet or a blocking copy of a wavefront returns, its earlier     *)
(* copies have been made.                                                  *)
QuietDrains ==
  \A w \in Waves :
    /\ pc[w] = "out" /\ returned[w] > 0
    /\ prog[w][returned[w]] \in {"PUT", "QUIET"}
    => \A k \in 1 .. returned[w] :
         prog[w][k] \in Puts => <<w, k>> \in Range(executed)
=============================================================================
