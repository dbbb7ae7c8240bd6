----------------------------- MODULE BufferPool -----------------------------
(***************************************************************************)
(* What AtomicWFQueue promises its users: a pool that hands each buffer to *)
(* one wave at a time, oldest buffer first, and serves the waves in the    *)
(* order in which they asked.                                              *)
(***************************************************************************)
EXTENDS Sequences

CONSTANTS Waves, None

VARIABLES free, line, held

vars == <<free, line, held>>

Asked(w) == \E i \in DOMAIN line : line[i] = w

Ask(w) ==
  /\ held[w] = None /\ ~Asked(w)
  /\ line' = Append(line, w)
  /\ UNCHANGED <<free, held>>

Take(w) ==
  /\ line # <<>> /\ Head(line) = w /\ free # <<>>
  /\ held' = [held EXCEPT ![w] = Head(free)]
  /\ free' = Tail(free)
  /\ line' = Tail(line)

Give(w) ==
  /\ held[w] # None
  /\ free' = Append(free, held[w])
  /\ held' = [held EXCEPT ![w] = None]
  /\ UNCHANGED line

Next == \E w \in Waves : Ask(w) \/ Take(w) \/ Give(w)

(* The pool starts with every buffer, in an order Init does not choose. *)
Holds(buffers) ==
  /\ free = buffers /\ line = <<>>
  /\ held = [w \in Waves |-> None]

(* The first in line is served as soon as there is a buffer. *)
Fairness == \A w \in Waves : WF_vars(Take(w))
=============================================================================
