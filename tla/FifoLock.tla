------------------------------ MODULE FifoLock ------------------------------
(***************************************************************************)
(* What a ticket lock promises: processes are admitted one at a time, in   *)
(* the order in which they asked.  The head of the line is the next owner, *)
(* or the owner while the lock is held.                                    *)
(***************************************************************************)
EXTENDS Sequences

CONSTANT Procs

VARIABLES line, held

vars == <<line, held>>

Waiting(p) == \E i \in DOMAIN line : line[i] = p

Init == line = <<>> /\ held = FALSE

Join(p) == ~Waiting(p) /\ line' = Append(line, p) /\ UNCHANGED held

Enter(p) ==
  /\ ~held /\ line # <<>> /\ Head(line) = p
  /\ held' = TRUE
  /\ UNCHANGED line

Leave(p) ==
  /\ held /\ Head(line) = p
  /\ held' = FALSE
  /\ line' = Tail(line)

Next == \E p \in Procs : Join(p) \/ Enter(p) \/ Leave(p)

(* A process at the head enters and an owner leaves; none need ask. *)
Spec ==
  /\ Init /\ [][Next]_vars
  /\ \A p \in Procs : WF_vars(Enter(p)) /\ WF_vars(Leave(p))
=============================================================================
