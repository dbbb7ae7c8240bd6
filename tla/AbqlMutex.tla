------------------------------ MODULE AbqlMutex ------------------------------
(***************************************************************************)
(* ABQLBlockMutex, the array-based ticket lock that guards the free lists  *)
(* and both ends of AtomicWFQueue.  A caller draws a ticket with one       *)
(* atomic add and spins on the channel the ticket selects; the owner       *)
(* writes the next ticket to the next channel.  Each pass through a        *)
(* TicketLockGuard is GrabTicket, TakeTurn and SignalNext.                 *)
(***************************************************************************)
EXTENDS Naturals, Sequences, FiniteSets

CONSTANTS
  Procs,      \* the lanes that lock
  Channels,   \* memory_channels_ (32)
  MaxLocks    \* bound: times each process locks

ASSUME MutexAssumption == Channels \in Nat \ {0} /\ MaxLocks \in Nat

VARIABLES
  ticket,     \* ticket_
  turns,      \* turns_[c].vol_
  pc,         \* "idle", "wait" (in wait_turn_) or "cs"
  my,         \* the ticket each process drew last
  locks       \* how often each process has locked

vars == <<ticket, turns, pc, my, locks>>

Channel(t) == t % Channels

Init ==
  /\ ticket = 0
  /\ turns = [c \in 0 .. Channels - 1 |-> 0]
  /\ pc = [p \in Procs |-> "idle"]
  /\ my = [p \in Procs |-> 0]
  /\ locks = [p \in Procs |-> 0]

(* grab_ticket_: atomicAdd returns the counter it found. *)
GrabTicket(p) ==
  /\ pc[p] = "idle" /\ locks[p] < MaxLocks
  /\ my' = [my EXCEPT ![p] = ticket]
  /\ ticket' = ticket + 1
  /\ pc' = [pc EXCEPT ![p] = "wait"]
  /\ locks' = [locks EXCEPT ![p] = @ + 1]
  /\ UNCHANGED turns

(* Faulty variant: the channel is compared, not the ticket it holds. *)
IsTurnOrLater(t) == turns[Channel(t)] <= t

IsTurn(t) == turns[Channel(t)] = t

TakeTurn(p) ==
  /\ pc[p] = "wait" /\ IsTurn(my[p])
  /\ pc' = [pc EXCEPT ![p] = "cs"]
  /\ UNCHANGED <<ticket, turns, my, locks>>

(* signal_next_: the ticket goes to the channel its holder spins on. *)
Signal(t) == turns' = [turns EXCEPT ![Channel(t)] = t]

(* unlock *)
SignalNext(p) ==
  /\ pc[p] = "cs"
  /\ Signal(my[p] + 1)
  /\ pc' = [pc EXCEPT ![p] = "idle"]
  /\ UNCHANGED <<ticket, my, locks>>

Next == \E p \in Procs : GrabTicket(p) \/ TakeTurn(p) \/ SignalNext(p)

(* The program has locked as often as it will. *)
Finished ==
  /\ \A p \in Procs : pc[p] = "idle" /\ locks[p] = MaxLocks
  /\ UNCHANGED vars

(* A spinning lane keeps reading its channel, an owner leaves its section. *)
Fairness == \A p \in Procs : WF_vars(TakeTurn(p)) /\ WF_vars(SignalNext(p))

Spec == Init /\ [][Next \/ Finished]_vars
FairSpec == Spec /\ Fairness

----------------------------------------------------------------------------
Active(p) == pc[p] # "idle"

(* Every variable keeps its type. *)
TypeOK ==
  /\ ticket \in Nat
  /\ turns \in [0 .. Channels - 1 -> Nat]
  /\ pc \in [Procs -> {"idle", "wait", "cs"}]
  /\ my \in [Procs -> Nat]
  /\ locks \in [Procs -> 0 .. MaxLocks]

(* One owner at a time, however many callers share a channel. *)
MutualExclusion ==
  \A p, q \in Procs : pc[p] = "cs" /\ pc[q] = "cs" => p = q

(* No caller overtakes one that drew its ticket earlier. *)
FirstComeFirstServed ==
  \A p, q \in Procs : pc[p] = "cs" /\ pc[q] = "wait" => my[p] < my[q]

(* The callers in ticket order and the owner, if any: the lock implements *)
(* FifoLock, so that every caller is admitted in the end. *)
Callers == {p \in Procs : Active(p)}
Earlier(p) == {q \in Callers : my[q] < my[p]}
Line == [i \in 1 .. Cardinality(Callers) |->
           CHOOSE p \in Callers : Cardinality(Earlier(p)) = i - 1]
Held == \E p \in Procs : pc[p] = "cs"

Fifo == INSTANCE FifoLock WITH line <- Line, held <- Held
ImplementsFifoLock == Fifo!Spec
=============================================================================
