--------------------------- MODULE MCGdaQueuePair ---------------------------
(* TLC instances of GdaQueuePair. *)
EXTENDS GdaQueuePair

CONSTANTS w1, w2

Rma(n) == [op |-> "RMA", lanes |-> n, ring |-> TRUE]
Amo(n) == [op |-> "AMO", lanes |-> n, ring |-> TRUE]
Fetch(n) == [op |-> "FETCH", lanes |-> n, ring |-> TRUE]

(* The put of an all-to-all leaves the doorbell to the atomic after it. *)
RmaNoDb == [op |-> "RMA", lanes |-> 1, ring |-> FALSE]

Both(p1, p2) == [w \in Waves |-> IF w = w1 THEN p1 ELSE p2]

(* Two wavefronts fill the queue more than once, with quiets and fetches; on *)
(* bnxt they never fill it.                                                  *)
Mixes ==
  [v \in Providers |->
     IF v = "bnxt"
     THEN {Both(<<RmaNoDb, Amo(1), Quiet>>, <<Fetch(1)>>),
           Both(<<Fetch(1), Rma(1)>>, <<Fetch(1)>>)}
     ELSE {Both(<<RmaNoDb, Amo(1), Fetch(2), Quiet>>, <<Fetch(1), Rma(2)>>),
           Both(<<RmaNoDb, Amo(1), Rma(2)>>, <<Amo(2), Quiet, Fetch(1)>>),
           Both(<<Fetch(2), Fetch(2), Fetch(1)>>, <<Rma(2), Amo(1)>>)}]

(* One wavefront posts as many puts as the queue holds, and a quiet. *)
Fill == [v \in Providers |-> {[w \in Waves |-> <<Rma(2), Rma(2), Quiet>>]}]
=============================================================================
