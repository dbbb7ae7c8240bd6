----------------------------- MODULE MCRoQueue -----------------------------
(* TLC instances of RoQueue. *)
EXTENDS RoQueue

CONSTANTS w1, w2

OneHandle == [w \in Waves |-> CHOOSE h \in Handles : TRUE]

Gets == {[type |-> "GET", comm |-> World]}
Puts == {[type |-> "PUT_NBI", comm |-> World]}

(* Any call of either wavefront may block or not. *)
GetsAndPuts == [w \in Waves |-> Gets \union Puts]

(* Every call blocks. *)
OnlyGets == [w \in Waves |-> Gets]

(* Together up to six commands: two laps of the ring. *)
TwoAndOne == [w \in Waves |-> IF w = w1 THEN 2 ELSE 1]
=============================================================================
