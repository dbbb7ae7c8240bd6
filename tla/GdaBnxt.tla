------------------------------ MODULE GdaBnxt ------------------------------
(***************************************************************************)
(* The bnxt send queue: posts take its lock, and each lane in turn polls   *)
(* the CQE for room, writes its WQE and rings; a quiet polls without the   *)
(* lock.  A WQE is counted as one, though it takes                         *)
(* GDA_BNXT_WQE_SLOT_COUNT slots.                                          *)
(***************************************************************************)
EXTENDS GdaNic

VARIABLES
  tail,       \* bnxt_sq.tail, not reduced to the depth of the queue
  lane,       \* the lane whose turn it is in each post
  sq_head     \* what each poller has made of the CQE

bnxtVars == <<tail, lane, sq_head>>

BnxtInit ==
  /\ tail = start
  /\ lane = [w \in Waves |-> 0]
  /\ sq_head = [w \in Waves |-> 0]

(* The first lane locks for all; each lane then polls for its own WQE. *)
BnxtAcquire(w) ==
  /\ Goto(w, "out", "head") /\ IsPost(w)
  /\ ~lock /\ lock' = TRUE
  /\ lane' = [lane EXCEPT ![w] = 0]
  /\ base' = [base EXCEPT ![w] = tail]
  /\ word' = [word EXCEPT ![w] = fetching_atomic_idx]
  /\ requested' = [requested EXCEPT ![w] = 1]
  /\ UNCHANGED <<nicVars, fetching_atomic_idx, callVars, tail, sq_head>>

(* Faulty variant: a fetch asks for one slot, as for another post. *)
BnxtQuietForOne(w) ==
  /\ \/ Goto(w, "out", "head") /\ Calling(w) /\ Op(w) = Quiet
     \/ Goto(w, "fetch", "head")
  /\ requested' = [requested EXCEPT ![w] = 1]
  /\ UNCHANGED <<nicVars, lock, fetching_atomic_idx, call, bnxtVars>>

(* A quiet, and a fetch that has posted, ask for the whole queue, unlocked. *)
BnxtQuiet(w) ==
  /\ \/ Goto(w, "out", "head") /\ Calling(w) /\ Op(w) = Quiet
     \/ Goto(w, "fetch", "head")
  /\ requested' = [requested EXCEPT ![w] = Depth]
  /\ UNCHANGED <<nicVars, lock, fetching_atomic_idx, call, bnxtVars>>

----------------------------------------------------------------------------
(* bnxt_poll_cq_until *)

BnxtLoadHead(w) ==
  /\ Goto(w, "head", "tail")
  /\ sq_head' = [sq_head EXCEPT ![w] = reported % Depth]
  /\ UNCHANGED <<nicVars, sqVars, call, tail, lane>>

(* A queue that is full and one that is empty look alike: both are empty. *)
AvailableSlots(w) == Depth - ((tail - sq_head[w]) % Depth)

BnxtLoadTail(w) ==
  /\ Goto(w, "tail",
          IF AvailableSlots(w) < requested[w] THEN "head" ELSE Polled(w))
  /\ UNCHANGED <<nicVars, sqVars, call, bnxtVars>>

----------------------------------------------------------------------------
(* bnxt_write_rma_wqe and bnxt_write_amo_wqe, in the loop of *)
(* bnxt_post_wqe_rma and bnxt_post_wqe_amo over the lanes    *)

AfterLane(w) == IF lane[w] + 1 < Op(w).lanes THEN "head" ELSE "release"

BnxtWrite(w) ==
  /\ Goto(w, "write", IF Rings(w) THEN "ring" ELSE AfterLane(w))
  /\ sq' = [sq EXCEPT ![tail % Depth] = Wqe(w, lane[w])]
  /\ tail' = tail + 1
  /\ fetching_atomic_idx' = fetching_atomic_idx + IF Op(w).op = "FETCH" THEN 1 ELSE 0
  /\ lane' = [lane EXCEPT ![w] = lane[w] + IF Rings(w) THEN 0 ELSE 1]
  /\ UNCHANGED <<start, db, executed, reported, words, lock, requested, call,
                 sq_head>>

(* The slot index with the epoch, which toggles with every lap. *)
BnxtRing(w) ==
  /\ Goto(w, "ring", AfterLane(w))
  /\ db' = DoorbellAt(tail, 2 * Depth)
  /\ lane' = [lane EXCEPT ![w] = lane[w] + 1]
  /\ UNCHANGED <<start, sq, executed, reported, words, sqVars, call, tail,
                 sq_head>>

BnxtRelease(w) ==
  /\ Goto(w, "release", IF Op(w).op = "FETCH" THEN "fetch" ELSE "out")
  /\ ReturnsIf(w, Op(w).op # "FETCH")
  /\ lock' = FALSE
  /\ UNCHANGED <<nicVars, fetching_atomic_idx, requested, provider, prog, base,
                 word, bnxtVars>>

(* A quiet is over; a fetch reads its results. *)
BnxtReturn(w) ==
  /\ Goto(w, "done", "out") /\ Returns(w)
  /\ UNCHANGED <<nicVars, sqVars, provider, prog, base, word, bnxtVars>>

BnxtStep(w) ==
  \/ BnxtAcquire(w) \/ BnxtQuiet(w) \/ BnxtLoadHead(w) \/ BnxtLoadTail(w)
  \/ BnxtWrite(w) \/ BnxtRing(w) \/ BnxtRelease(w) \/ BnxtReturn(w)

(* The lock is polled. *)
BnxtSpin(w) ==
  /\ pc[w] = "out" /\ IsPost(w) /\ lock
  /\ UNCHANGED <<nicVars, sqVars, call, pc, bnxtVars>>
=============================================================================
