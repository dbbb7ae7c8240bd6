------------------------------ MODULE GdaIonic ------------------------------
(***************************************************************************)
(* The ionic send queue: posts reserve positions with one atomic add, wait *)
(* until the NIC has left room for them, write their WQEs, and ring if     *)
(* nobody has rung for a later position.  Completions are counted by the   *)
(* collapsed CQE (create_cq_ex with IONIC_CQ_INIT_ATTR_CCQE).              *)
(***************************************************************************)
EXTENDS GdaNic, FiniteSets

(* Signed differences tell the order of counters that are less than half   *)
(* their range apart: what the queue holds and the resident wavefronts may *)
(* have reserved beyond it is less than that.                              *)
ASSUME IonicAssumption ==
  IsFiniteSet(Waves) /\ Depth + WfSize * Cardinality(Waves) <= W \div 2

VARIABLES
  sq_prod, sq_dbprod,
  freelist,   \* fetching_atomic_freelist: first words of the buffers in it
  cons        \* the position each wavefront waits for

ionicVars == <<sq_prod, sq_dbprod, freelist, cons>>
producers == <<sq_prod, sq_dbprod>>

Buffers == [b \in 1 .. FetchCnt \div WfSize |-> (b - 1) * WfSize]

IonicInit ==
  /\ sq_prod = start /\ sq_dbprod = start
  /\ freelist = Buffers
  /\ cons = [w \in Waves |-> start]

(* The sign of a 24-bit or 32-bit difference. *)
Before(a, b) == (a - b) % W >= W \div 2

IonicReserve(w) ==
  /\ Goto(w, "out", "room") /\ IsPost(w)
  /\ base' = [base EXCEPT ![w] = sq_prod]
  /\ sq_prod' = sq_prod + Op(w).lanes
  /\ cons' = [cons EXCEPT ![w] = sq_prod + Op(w).lanes - (Depth - 1)]
  /\ UNCHANGED <<nicVars, sqVars, callVars, word, sq_dbprod, freelist>>

(* ionic_quiet waits for all that is reserved, whoever reserved it. *)
IonicQuiet(w) ==
  /\ Goto(w, "out", "wait") /\ Calling(w) /\ Op(w) = Quiet
  /\ cons' = [cons EXCEPT ![w] = sq_prod]
  /\ UNCHANGED <<nicVars, sqVars, call, producers, freelist>>

(* ionic_quiet_internal_ccqe *)
IonicWaited(w) ==
  /\ \/ Goto(w, "room", IF Op(w).op = "FETCH" THEN "pop" ELSE "write")
     \/ Goto(w, "wait", "done")
  /\ ~Before(reported, cons[w])
  /\ UNCHANGED <<nicVars, sqVars, call, ionicVars>>

(* The positions are reserved by now; an empty list is tried again. *)
IonicPopBuffer(w) ==
  /\ Goto(w, "pop", "write") /\ freelist # <<>>
  /\ word' = [word EXCEPT ![w] = Head(freelist)]
  /\ freelist' = Tail(freelist)
  /\ UNCHANGED <<nicVars, sqVars, callVars, base, producers, cons>>

(* The flags, with the color, are stored last. *)
IonicStore(w) ==
  /\ Goto(w, "write", IF Rings(w) THEN "commit" ELSE "out")
  /\ ReturnsIf(w, ~Rings(w))
  /\ sq' = Written(w)
  /\ UNCHANGED <<start, db, executed, reported, words, sqVars, provider, prog,
                 base, word, ionicVars>>

----------------------------------------------------------------------------
(* commit_sq *)

IonicLock(w) ==
  /\ Goto(w, "commit", "ring")
  /\ ~lock /\ lock' = TRUE
  /\ UNCHANGED <<nicVars, call, fetching_atomic_idx, requested, ionicVars>>

End(w) == base[w] + Op(w).lanes

(* Faulty variant: the doorbell is rung for the latest caller only. *)
IonicRingLate(w) ==
  /\ Goto(w, "ring", "unlock")
  /\ IF Before(End(w), sq_dbprod)
     THEN sq_dbprod' = End(w) /\ db' = DoorbellAt(End(w), Depth)
     ELSE UNCHANGED <<sq_dbprod, db>>
  /\ UNCHANGED <<start, sq, executed, reported, words, sqVars, call, sq_prod,
                 freelist, cons>>

(* Positions before sq_dbprod have been rung for. *)
IonicRing(w) ==
  /\ Goto(w, "ring", "unlock")
  /\ IF Before(sq_dbprod, End(w))
     THEN sq_dbprod' = End(w) /\ db' = DoorbellAt(End(w), Depth)
     ELSE UNCHANGED <<sq_dbprod, db>>
  /\ UNCHANGED <<start, sq, executed, reported, words, sqVars, call, sq_prod,
                 freelist, cons>>

(* A fetch goes on to wait for its last WQE. *)
IonicUnlock(w) ==
  /\ Goto(w, "unlock", IF Op(w).op = "FETCH" THEN "wait" ELSE "out")
  /\ ReturnsIf(w, Op(w).op # "FETCH")
  /\ lock' = FALSE
  /\ cons' = [cons EXCEPT ![w] = End(w)]
  /\ UNCHANGED <<nicVars, fetching_atomic_idx, requested, provider, prog, base,
                 word, producers, freelist>>

----------------------------------------------------------------------------
(* A fetch has read its results, and gives its buffer back. *)
IonicReturn(w) ==
  /\ Goto(w, "done", "out") /\ Returns(w)
  /\ freelist' = IF Op(w) = Quiet THEN freelist ELSE Append(freelist, word[w])
  /\ UNCHANGED <<nicVars, sqVars, provider, prog, base, word, producers, cons>>

IonicStep(w) ==
  \/ IonicReserve(w) \/ IonicQuiet(w) \/ IonicWaited(w) \/ IonicPopBuffer(w)
  \/ IonicStore(w) \/ IonicLock(w) \/ IonicRing(w) \/ IonicUnlock(w) \/ IonicReturn(w)

(* The CQE, an empty list and the lock are polled. *)
IonicSpin(w) ==
  /\ \/ pc[w] \in {"room", "wait"} /\ Before(reported, cons[w])
     \/ pc[w] = "pop" /\ freelist = <<>>
     \/ pc[w] = "commit" /\ lock
  /\ UNCHANGED <<nicVars, sqVars, call, pc, ionicVars>>
=============================================================================
