------------------------------ MODULE GdaMlx5 ------------------------------
(***************************************************************************)
(* The mlx5 send queue: posts take its lock, poll the CQE for room, write  *)
(* their WQEs, advance post and ring; a quiet polls without the lock.  The *)
(* CQE and the doorbell carry the low bits of the position (W values).     *)
(***************************************************************************)
EXTENDS GdaNic

VARIABLES
  post,                  \* mlx5_sq.post
  sq_post, completed     \* the last post and CQE each poller has loaded

mlx5Vars == <<post, sq_post, completed>>

Mlx5Init ==
  /\ post = start
  /\ sq_post = [w \in Waves |-> start]
  /\ completed = [w \in Waves |-> 0]

(* A post locks the queue, then asks for a slot for each lane. *)
Mlx5Acquire(w) ==
  /\ Goto(w, "out", "poll") /\ IsPost(w)
  /\ ~lock /\ lock' = TRUE
  /\ requested' = [requested EXCEPT ![w] = Op(w).lanes]
  /\ UNCHANGED <<nicVars, call, fetching_atomic_idx, mlx5Vars>>

(* A quiet, and a fetch that has posted, ask for the whole queue, unlocked. *)
Mlx5Quiet(w) ==
  /\ \/ Goto(w, "out", "poll") /\ Calling(w) /\ Op(w) = Quiet
     \/ Goto(w, "fetch", "poll")
  /\ requested' = [requested EXCEPT ![w] = Depth]
  /\ UNCHANGED <<nicVars, call, lock, fetching_atomic_idx, mlx5Vars>>

----------------------------------------------------------------------------
(* mlx5_poll_cq_until *)

(* The CQ need not be looked at before the queue has ever been filled. *)
Mlx5LoadPost(w) ==
  /\ Goto(w, "poll", IF post + requested[w] <= Depth THEN Polled(w) ELSE "cqe")
  /\ sq_post' = [sq_post EXCEPT ![w] = post]
  /\ UNCHANGED <<nicVars, call, sqVars, post, completed>>

(* The CQE is invalid until something has completed; it holds the index of *)
(* the last completed WQE, one less than their number.                     *)
Mlx5LoadCqe(w) ==
  /\ Goto(w, "cqe", "recheck") /\ reported > 0
  /\ completed' = [completed EXCEPT ![w] = reported % W]
  /\ UNCHANGED <<nicVars, call, sqVars, post, sq_post>>

(* Faulty variant: the available slots are one too many. *)
AvailablePlusOne(w) == (Depth + 1 - (sq_post[w] - completed[w])) % W

(* 16-bit arithmetic, right also when post has wrapped and the CQE has not. *)
Available(w) == (Depth - (sq_post[w] - completed[w])) % W

(* Until there is room and nothing has been posted meanwhile. *)
Mlx5Recheck(w) ==
  /\ Goto(w, "recheck", IF post = sq_post[w] /\ Available(w) >= requested[w]
                        THEN Polled(w) ELSE "cqe")
  /\ sq_post' = [sq_post EXCEPT ![w] = post]
  /\ UNCHANGED <<nicVars, call, sqVars, post, completed>>

----------------------------------------------------------------------------
(* mlx5_post_wqe_rma, mlx5_post_wqe_amo and their single forms *)

(* The positions and, for a fetch, the result words. *)
Mlx5Place(w) ==
  /\ Goto(w, "write", "store")
  /\ base' = [base EXCEPT ![w] = post]
  /\ word' = [word EXCEPT ![w] = fetching_atomic_idx]
  /\ UNCHANGED <<nicVars, callVars, sqVars, mlx5Vars>>

Mlx5Store(w) ==
  /\ Goto(w, "store", "advance")
  /\ sq' = Written(w)
  /\ UNCHANGED <<start, db, executed, reported, words, sqVars, call, mlx5Vars>>

(* Faulty variant: the next fetch is given the same words. *)
Mlx5AdvancePost(w) ==
  /\ Goto(w, "advance", IF Rings(w) THEN "ring" ELSE "release")
  /\ post' = post + Op(w).lanes
  /\ UNCHANGED <<nicVars, call, sqVars, sq_post, completed>>

Mlx5Advance(w) ==
  /\ Goto(w, "advance", IF Rings(w) THEN "ring" ELSE "release")
  /\ post' = post + Op(w).lanes
  /\ fetching_atomic_idx' =
       fetching_atomic_idx + IF Op(w).op = "FETCH" THEN Op(w).lanes ELSE 0
  /\ UNCHANGED <<nicVars, call, lock, requested, sq_post, completed>>

Mlx5Ring(w) ==
  /\ Goto(w, "ring", "release")
  /\ db' = DoorbellAt(post, W)
  /\ UNCHANGED <<start, sq, executed, reported, words, sqVars, call, mlx5Vars>>

Mlx5Release(w) ==
  /\ Goto(w, "release", IF Op(w).op = "FETCH" THEN "fetch" ELSE "out")
  /\ ReturnsIf(w, Op(w).op # "FETCH")
  /\ lock' = FALSE
  /\ UNCHANGED <<nicVars, provider, prog, base, word, fetching_atomic_idx,
                 requested, mlx5Vars>>

(* A quiet is over; a fetch reads its results. *)
Mlx5Return(w) ==
  /\ Goto(w, "done", "out") /\ Returns(w)
  /\ UNCHANGED <<nicVars, sqVars, provider, prog, base, word, mlx5Vars>>

Mlx5Step(w) ==
  \/ Mlx5Acquire(w) \/ Mlx5Quiet(w)
  \/ Mlx5LoadPost(w) \/ Mlx5LoadCqe(w) \/ Mlx5Recheck(w)
  \/ Mlx5Place(w) \/ Mlx5Store(w) \/ Mlx5Advance(w) \/ Mlx5Ring(w)
  \/ Mlx5Release(w) \/ Mlx5Return(w)

(* The lock and an invalid CQE are polled. *)
Mlx5Spin(w) ==
  /\ (pc[w] = "out" /\ IsPost(w) /\ lock) \/ (pc[w] = "cqe" /\ reported = 0)
  /\ UNCHANGED <<nicVars, sqVars, call, pc, mlx5Vars>>
=============================================================================
