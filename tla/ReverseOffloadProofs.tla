------------------------ MODULE ReverseOffloadProofs ------------------------
(***************************************************************************)
(* Proofs about what the reverse offload is built from: the lists its      *)
(* contexts are taken from, and the transport that turns commands into MPI *)
(* requests.  Neither refers to the other.                                 *)
(***************************************************************************)
EXTENDS FreeList, RoTransport, FiniteSetTheorems, TLAPS

----------------------------------------------------------------------------
(***************************************************************************)
(* The ticket lock is exclusive and fair to arrival order for any number   *)
(* of callers and of channels.  The argument: no channel ever holds a      *)
(* ticket later than that of a caller still in line, so only the earliest  *)
(* caller can find its own ticket on its channel.                          *)
(*                                                                         *)
(* On top of it, the free list keeps every node and every element.  The    *)
(* lists are the least sets closed under next; that a node has one         *)
(* predecessor at most, and the heads none, makes what is left after the   *)
(* head exactly the list without it.                                       *)
(***************************************************************************)
(* The tickets in line are distinct and were handed out. *)
TicketsUnique ==
  /\ \A p \in Procs : Active(p) => my[p] < ticket
  /\ \A p, q \in Procs : Active(p) /\ Active(q) /\ my[p] = my[q] => p = q

(* No channel holds a ticket past that of a caller in line. *)
TurnsBehindLine ==
  /\ \A c \in 0 .. Channels - 1 : turns[c] <= ticket
  /\ \A p \in Procs, c \in 0 .. Channels - 1 : Active(p) => turns[c] <= my[p]

(* The owner's channel still holds its ticket. *)
OwnersTurn == \A p \in Procs : pc[p] = "cs" => IsTurn(my[p])

LockInv == TypeOK /\ TicketsUnique /\ TurnsBehindLine /\ OwnersTurn

(* A ticket selects one of the channels. *)
LEMMA ChannelInRange == \A t \in Nat : Channel(t) \in 0 .. Channels - 1
  BY MutexAssumption DEF Channel

(* Every variable keeps its type whatever the callers do. *)
THEOREM LockTypes == Spec => []TypeOK
<1>1. Init => TypeOK
  BY MutexAssumption DEF Init, TypeOK
<1>2. TypeOK /\ [Next \/ Finished]_vars => TypeOK'
  <2> SUFFICES ASSUME TypeOK, [Next \/ Finished]_vars PROVE TypeOK'
    OBVIOUS
  <2> USE DEF TypeOK
  <2>1. ASSUME NEW p \in Procs, GrabTicket(p) PROVE TypeOK'
    BY <2>1, MutexAssumption DEF GrabTicket
  <2>2. ASSUME NEW p \in Procs, TakeTurn(p) PROVE TypeOK'
    BY <2>2 DEF TakeTurn
  <2>3. ASSUME NEW p \in Procs, SignalNext(p) PROVE TypeOK'
    <3>1. my[p] + 1 \in Nat
      OBVIOUS
    <3>2. Channel(my[p] + 1) \in 0 .. Channels - 1
      BY <3>1, ChannelInRange
    <3> QED
      BY <2>3, <3>1, <3>2 DEF SignalNext, Signal
  <2>4. CASE Finished \/ UNCHANGED vars
    BY <2>4 DEF Finished, vars
  <2> QED
    BY <2>1, <2>2, <2>3, <2>4 DEF Next
<1> QED
  BY <1>1, <1>2, PTL DEF Spec

(* The owner is earlier than everyone else in line. *)
LEMMA OwnerIsFirst ==
  ASSUME LockInv, NEW p \in Procs, NEW q \in Procs,
         Active(p), Active(q), p # q, IsTurn(my[p])
  PROVE  my[p] < my[q]
<1>1. my[p] \in Nat /\ my[q] \in Nat /\ my[p] # my[q]
  BY DEF LockInv, TypeOK, TicketsUnique
<1>2. turns[Channel(my[p])] = my[p] /\ Channel(my[p]) \in 0 .. Channels - 1
  BY <1>1, ChannelInRange DEF IsTurn
<1>3. my[p] <= my[q]
  BY <1>2 DEF LockInv, TurnsBehindLine
<1> QED
  BY <1>1, <1>3

(* The strengthened invariant holds throughout. *)
THEOREM LockInvariant == Spec => []LockInv
<1>1. Init => LockInv
  BY MutexAssumption
  DEF Init, LockInv, TypeOK, TicketsUnique, TurnsBehindLine, OwnersTurn, Active
<1>2. LockInv /\ TypeOK' /\ [Next \/ Finished]_vars => LockInv'
  <2> SUFFICES ASSUME LockInv, TypeOK', [Next \/ Finished]_vars
               PROVE  (TicketsUnique /\ TurnsBehindLine /\ OwnersTurn)'
    BY DEF LockInv
  <2>a. TypeOK /\ TicketsUnique /\ TurnsBehindLine /\ OwnersTurn
    BY DEF LockInv
  <2>1. ASSUME NEW p \in Procs, GrabTicket(p)
        PROVE  (TicketsUnique /\ TurnsBehindLine /\ OwnersTurn)'
    <3>1. /\ pc' = [pc EXCEPT ![p] = "wait"] /\ my' = [my EXCEPT ![p] = ticket]
          /\ ticket' = ticket + 1 /\ turns' = turns
      BY <2>1 DEF GrabTicket
    <3>2. /\ ticket \in Nat /\ my \in [Procs -> Nat]
          /\ pc \in [Procs -> {"idle", "wait", "cs"}]
          /\ turns \in [0 .. Channels - 1 -> Nat]
      BY <2>a DEF TypeOK
    <3>3. TicketsUnique'
      BY <2>a, <3>1, <3>2 DEF TicketsUnique, Active
    <3>4. TurnsBehindLine'
      BY <2>a, <3>1, <3>2 DEF TurnsBehindLine, Active
    <3>5. OwnersTurn'
      BY <2>a, <3>1, <3>2 DEF OwnersTurn, IsTurn
    <3> QED
      BY <3>3, <3>4, <3>5
  <2>2. ASSUME NEW p \in Procs, TakeTurn(p)
        PROVE  (TicketsUnique /\ TurnsBehindLine /\ OwnersTurn)'
    <3>1. /\ pc[p] = "wait" /\ IsTurn(my[p])
          /\ pc' = [pc EXCEPT ![p] = "cs"] /\ my' = my
          /\ ticket' = ticket /\ turns' = turns
      BY <2>2 DEF TakeTurn
    <3>2. \A q \in Procs : Active(q)' <=> Active(q)
      BY <3>1, <2>a DEF Active, TypeOK
    <3>3. TicketsUnique' /\ TurnsBehindLine'
      BY <2>a, <3>1, <3>2 DEF TicketsUnique, TurnsBehindLine
    <3>4. OwnersTurn'
      BY <2>a, <3>1 DEF OwnersTurn, IsTurn, TypeOK
    <3> QED
      BY <3>3, <3>4
  <2>3. ASSUME NEW p \in Procs, SignalNext(p)
        PROVE  (TicketsUnique /\ TurnsBehindLine /\ OwnersTurn)'
    <3>1. /\ pc[p] = "cs" /\ pc' = [pc EXCEPT ![p] = "idle"]
          /\ turns' = [turns EXCEPT ![Channel(my[p] + 1)] = my[p] + 1]
          /\ my' = my /\ ticket' = ticket
      BY <2>3 DEF SignalNext, Signal
    <3>2. /\ ticket \in Nat /\ my \in [Procs -> Nat]
          /\ pc \in [Procs -> {"idle", "wait", "cs"}]
          /\ turns \in [0 .. Channels - 1 -> Nat]
      BY <2>a DEF TypeOK
    <3>2a. my[p] + 1 \in Nat
      BY <3>2
    <3>2b. Channel(my[p] + 1) \in 0 .. Channels - 1
      BY <3>2a, ChannelInRange
    <3>3. Active(p) /\ IsTurn(my[p]) /\ ~Active(p)'
      BY <2>a, <3>1, <3>2 DEF OwnersTurn, Active
    <3>4. \A q \in Procs : Active(q)' => Active(q) /\ q # p /\ my[p] < my[q]
      BY <3>1, <3>2, <3>3, OwnerIsFirst DEF Active
    <3>5. TicketsUnique'
      BY <2>a, <3>1, <3>4 DEF TicketsUnique
    <3>6. TurnsBehindLine'
      <4>1. my[p] + 1 <= ticket
        BY <2>a, <3>2, <3>3 DEF TicketsUnique
      <4>2. \A q \in Procs : Active(q)' => my[p] + 1 <= my[q]
        BY <3>2, <3>4
      <4> QED
        BY <2>a, <3>1, <3>2, <3>4, <4>1, <4>2 DEF TurnsBehindLine
    <3>7. OwnersTurn'
      <4>1. \A q \in Procs : pc'[q] = "cs" => pc[q] = "cs" /\ q # p
        BY <3>1, <3>2
      <4>2. \A q \in Procs : pc[q] = "cs" => q = p
        <5> SUFFICES ASSUME NEW q \in Procs, pc[q] = "cs", q # p PROVE FALSE
          OBVIOUS
        <5>1. Active(q) /\ IsTurn(my[q])
          BY <2>a DEF OwnersTurn, Active
        <5>2. my[p] < my[q] /\ my[q] < my[p]
          BY <3>3, <5>1, OwnerIsFirst
        <5> QED
          BY <3>2, <5>2
      <4> QED
        BY <4>1, <4>2 DEF OwnersTurn
    <3> QED
      BY <3>5, <3>6, <3>7
  <2>4. CASE Finished \/ UNCHANGED vars
    BY <2>4, <2>a
    DEF Finished, vars, TicketsUnique, TurnsBehindLine, OwnersTurn, IsTurn, Active
  <2> QED
    BY <2>1, <2>2, <2>3, <2>4 DEF Next
<1> QED
  BY <1>1, <1>2, LockTypes, PTL DEF Spec

LEMMA ExclusiveLock == LockInv => MutualExclusion
<1> SUFFICES ASSUME LockInv, NEW p \in Procs, NEW q \in Procs,
                    pc[p] = "cs", pc[q] = "cs", p # q
             PROVE  FALSE
  BY DEF MutualExclusion
<1>1. Active(p) /\ Active(q) /\ IsTurn(my[p]) /\ IsTurn(my[q])
  BY DEF LockInv, OwnersTurn, Active
<1>2. my[p] < my[q] /\ my[q] < my[p]
  BY <1>1, OwnerIsFirst
<1> QED
  BY <1>2 DEF LockInv, TypeOK

(* However many callers share a channel, one at most owns the lock. *)
THEOREM LockIsExclusive == Spec => []MutualExclusion
  BY ExclusiveLock, LockInvariant, PTL

(* The owner drew its ticket before everyone who still waits. *)
THEOREM LockIsFair == Spec => []FirstComeFirstServed
<1>1. LockInv => FirstComeFirstServed
  <2> SUFFICES ASSUME LockInv, NEW p \in Procs, NEW q \in Procs,
                      pc[p] = "cs", pc[q] = "wait"
               PROVE  my[p] < my[q]
    BY DEF FirstComeFirstServed
  <2>1. Active(p) /\ Active(q) /\ IsTurn(my[p]) /\ p # q
    BY DEF LockInv, OwnersTurn, Active
  <2> QED
    BY <2>1, OwnerIsFirst
<1> QED
  BY <1>1, LockInvariant, PTL

----------------------------------------------------------------------------
(* The lists *)

Places == {"out", "guard", "pop", "popped", "push", "insert", "done"}

ListTypes ==
  /\ next \in [Nodes -> Nodes \cup {null}] /\ data \in [Nodes -> Elements]
  /\ head \in Nodes \cup {null} /\ tail \in Nodes \cup {null}
  /\ dead \in Nodes \cup {null}
  /\ at \in [Procs -> Places]
  /\ node \in [Procs -> Nodes \cup {null}]
  /\ owns \in [Procs -> Elements \cup {null}]

(* What a caller is doing goes with its place in the lock. *)
Guarding ==
  \A p \in Procs :
    /\ at[p] = "out" <=> pc[p] = "idle"
    /\ at[p] = "guard" <=> pc[p] = "wait"
    /\ at[p] \in {"pop", "popped"} => owns[p] = null
    /\ at[p] \in {"push", "insert"} => owns[p] # null
    /\ at[p] \in {"popped", "insert"} => node[p] # null

Linked == Live \cup Unused

(* The nodes: in one of the lists or in hand, and the lists run straight. *)
Parted == Live \cap Unused = {} /\ Nodes \ Linked = InHand

Straight ==
  /\ \A m, n \in Linked : next[m] = next[n] /\ next[m] # null => m = n
  /\ \A n \in Linked : next[n] # null => next[n] # head /\ next[n] # dead

Ended ==
  /\ tail # null <=> head # null
  /\ tail # null => tail \in Live /\ next[tail] = null

(* The nodes that hold an element nobody has. *)
Full == Live \cup {node[p] : p \in {q \in Procs : at[q] = "popped"}}

Distinct == \A m, n \in Full : data[m] = data[n] => m = n

HeldApart ==
  \A p \in Procs : owns[p] # null =>
    /\ \A n \in Full : data[n] # owns[p]
    /\ \A q \in Procs : owns[q] = owns[p] => q = p

Everywhere ==
  \A e \in Elements : (\E p \in Procs : owns[p] = e) \/ (\E n \in Full : data[n] = e)

NodeInv == Parted /\ Straight /\ Ended
ElementInv == Distinct /\ HeldApart /\ Everywhere

PoolInv == ListTypes /\ Guarding /\ NodeInv /\ ElementInv

----------------------------------------------------------------------------
(* Chains: for any links and any start. *)

Links == [Nodes -> Nodes \cup {null}]

(* A node is not the end. *)
LEMMA NullNoNode == null \notin Nodes
  BY LengthAssumption DEF null, Nodes

LEMMA ChainLeast ==
  ASSUME NEW f, NEW s, NEW S \in SUBSET Nodes, Closed(f, s, S)
  PROVE  Chain(f, s) \subseteq S
  BY DEF Chain

LEMMA ChainClosed ==
  ASSUME NEW f \in Links, NEW s \in Nodes \cup {null}
  PROVE  Chain(f, s) \subseteq Nodes /\ Closed(f, s, Chain(f, s))
<1>1. s # null => s \in Chain(f, s)
  BY DEF Chain, Closed
<1>2. ASSUME NEW n \in Chain(f, s), f[n] # null PROVE f[n] \in Chain(f, s)
  <2>1. n \in Nodes /\ f[n] \in Nodes
    BY <1>2 DEF Chain, Links
  <2>2. ASSUME NEW S \in SUBSET Nodes, Closed(f, s, S) PROVE f[n] \in S
    BY <1>2, <2>2 DEF Chain, Closed
  <2> QED
    BY <2>1, <2>2 DEF Chain
<1> QED
  BY <1>1, <1>2 DEF Closed, Chain

LEMMA ChainNull == ASSUME NEW f PROVE Chain(f, null) = {}
<1>1. Closed(f, null, {})
  BY DEF Closed
<1> QED
  BY <1>1, ChainLeast

(* Links elsewhere do not matter. *)
LEMMA ChainSame ==
  ASSUME NEW f \in Links, NEW g \in Links, NEW s \in Nodes \cup {null},
         \A n \in Chain(f, s) : g[n] = f[n]
  PROVE  Chain(g, s) = Chain(f, s)
<1> DEFINE C == Chain(f, s)
           D == Chain(g, s)
<1>1. C \subseteq Nodes /\ Closed(f, s, C) /\ D \subseteq Nodes /\ Closed(g, s, D)
  BY ChainClosed
<1>2. Closed(g, s, C)
  BY <1>1 DEF Closed
<1>3. D \subseteq C
  BY <1>1, <1>2, ChainLeast
<1>4. Closed(f, s, D)
  BY <1>1, <1>3 DEF Closed
<1> QED
  BY <1>1, <1>3, <1>4, ChainLeast

(* Without the first, the rest. *)
LEMMA ChainRest ==
  ASSUME NEW f \in Links, NEW s \in Nodes,
         \A n \in Chain(f, s) : f[n] # s
  PROVE  Chain(f, f[s]) = Chain(f, s) \ {s}
<1> DEFINE C == Chain(f, s)
           D == Chain(f, f[s])
<1>0. f[s] \in Nodes \cup {null} /\ s # null
  BY NullNoNode DEF Links
<1>1. C \subseteq Nodes /\ Closed(f, s, C) /\ D \subseteq Nodes /\ Closed(f, f[s], D)
  BY <1>0, ChainClosed
<1>2. Closed(f, f[s], C \ {s})
  BY <1>0, <1>1 DEF Closed
<1>3. D \subseteq C \ {s}
  BY <1>1, <1>2, ChainLeast
<1>4. Closed(f, s, D \cup {s})
  BY <1>1 DEF Closed
<1>5. C \subseteq D \cup {s}
  BY <1>1, <1>4, ChainLeast
<1> QED
  BY <1>3, <1>5

(* A node put in front. *)
LEMMA ChainFront ==
  ASSUME NEW f \in Links, NEW s \in Nodes, s \notin Chain(f, f[s])
  PROVE  Chain(f, s) = Chain(f, f[s]) \cup {s}
<1> DEFINE C == Chain(f, s)
           D == Chain(f, f[s])
<1>0. f[s] \in Nodes \cup {null} /\ s # null
  BY NullNoNode DEF Links
<1>1. C \subseteq Nodes /\ Closed(f, s, C) /\ D \subseteq Nodes /\ Closed(f, f[s], D)
  BY <1>0, ChainClosed
<1>2. Closed(f, s, D \cup {s})
  BY <1>1 DEF Closed
<1>3. C \subseteq D \cup {s}
  BY <1>1, <1>2, ChainLeast
<1>4. Closed(f, f[s], C)
  BY <1>0, <1>1 DEF Closed
<1>5. D \subseteq C
  BY <1>1, <1>4, ChainLeast
<1> QED
  BY <1>0, <1>1, <1>3, <1>5 DEF Closed

(* A node hung on the end. *)
LEMMA ChainEnd ==
  ASSUME NEW f \in Links, NEW g \in Links, NEW s \in Nodes \cup {null},
         NEW t \in Chain(f, s), f[t] = null,
         NEW n \in Nodes, n \notin Chain(f, s), g[n] = null, g[t] = n,
         \A m \in Chain(f, s) : m # t => g[m] = f[m]
  PROVE  Chain(g, s) = Chain(f, s) \cup {n}
<1> DEFINE C == Chain(f, s)
           D == Chain(g, s)
<1>1. C \subseteq Nodes /\ Closed(f, s, C) /\ D \subseteq Nodes /\ Closed(g, s, D)
  BY ChainClosed
<1>2. Closed(g, s, C \cup {n})
  BY <1>1 DEF Closed
<1>3. D \subseteq C \cup {n}
  BY <1>1, <1>2, ChainLeast
<1>4. Closed(f, s, D \cap C)
  BY <1>1 DEF Closed
<1>5. C \subseteq D
  BY <1>1, <1>4, ChainLeast
<1>6. n \in D
  BY <1>1, <1>5, NullNoNode DEF Closed
<1> QED
  BY <1>3, <1>5, <1>6

----------------------------------------------------------------------------
(* The initial lists *)

LEMMA Least ==
  ASSUME NEW T \in SUBSET Nat, T # {}
  PROVE  \E x \in T : \A y \in T : x <= y
<1> DEFINE U == {1 .. x : x \in T}
<1>1. U \subseteq FiniteSubsetsOf(Nat) /\ U # {}
  <2>1. \A x \in T : 1 .. x \in FiniteSubsetsOf(Nat)
    BY FS_Interval DEF FiniteSubsetsOf
  <2> QED
    BY <2>1
<1>2. PICK u \in U : \A v \in U : ~(<<v, u>> \in StrictSubsetOrdering(Nat))
  <2> HIDE DEF U
  <2> QED
    BY <1>1, WFMin, FS_StrictSubsetOrderingWellFounded
<1>3. PICK x \in T : u = 1 .. x
  BY <1>2
<1>4. ASSUME NEW y \in T, y < x PROVE FALSE
  <2>1. 1 .. y \subseteq 1 .. x /\ x \in 1 .. x /\ x \notin 1 .. y
    BY <1>4
  <2>2. <<1 .. y, 1 .. x>> \in StrictSubsetOrdering(Nat)
    BY <2>1 DEF StrictSubsetOrdering
  <2> QED
    BY <1>2, <1>3, <2>2
<1> QED
  BY <1>4

(* The host's list has every node: the first missing would follow another. *)
LEMMA InitLists == ListInit => Live = Nodes /\ Unused = {}
<1> SUFFICES ASSUME ListInit PROVE Live = Nodes /\ Unused = {}
  OBVIOUS
<1>1. /\ next = [n \in Nodes |-> IF n = Length THEN null ELSE n + 1]
      /\ head = 1 /\ dead = null
  BY DEF ListInit
<1>2. Unused = {}
  BY <1>1, ChainNull DEF Unused
<1>3. ASSUME NEW S \in SUBSET Nodes, Closed(next, head, S) PROVE S = Nodes
  <2> SUFFICES ASSUME Nodes \ S # {} PROVE FALSE
    OBVIOUS
  <2>1. PICK x \in Nodes \ S : \A y \in Nodes \ S : x <= y
    <3>1. Nodes \ S \in SUBSET Nat
      BY LengthAssumption DEF Nodes
    <3> QED
      BY <3>1, Least
  <2>2. x # 1
    BY <1>1, <1>3, NullNoNode, LengthAssumption DEF Closed, null
  <2>3. x - 1 \in Nodes /\ x - 1 # Length /\ x - 1 < x /\ (x - 1) + 1 = x /\ x # null
    BY <2>1, <2>2, LengthAssumption DEF Nodes, null
  <2>4. x - 1 \in S
    BY <2>1, <2>3, LengthAssumption DEF Nodes
  <2>5. next[x - 1] = x
    BY <1>1, <2>3
  <2> QED
    BY <1>3, <2>1, <2>3, <2>4, <2>5 DEF Closed
<1>4. Live = Nodes
  BY <1>3 DEF Live, Chain
<1> QED
  BY <1>2, <1>4

LEMMA InitPool == ListInit => PoolInv
<1> SUFFICES ASSUME ListInit PROVE PoolInv
  OBVIOUS
<1>0. Live = Nodes /\ Unused = {}
  BY InitLists
<1>1. /\ pc = [p \in Procs |-> "idle"]
      /\ next = [n \in Nodes |-> IF n = Length THEN null ELSE n + 1]
      /\ data = [n \in Nodes |-> n]
      /\ head = 1 /\ tail = Length /\ dead = null
      /\ at = [p \in Procs |-> "out"]
      /\ node = [p \in Procs |-> null]
      /\ owns = [p \in Procs |-> null]
  BY DEF ListInit, Init
<1>2. 1 \in Nodes /\ Length \in Nodes /\ 1 # null /\ Length # null
  BY LengthAssumption DEF Nodes, null
<1>3. ListTypes
  <2>1. next \in [Nodes -> Nodes \cup {null}]
    <3>1. \A n \in Nodes : n # Length => n + 1 \in Nodes
      BY LengthAssumption DEF Nodes
    <3> QED
      BY <1>1, <3>1
  <2>2. data \in [Nodes -> Elements]
    BY <1>1 DEF Nodes, Elements
  <2> QED
    BY <1>1, <1>2, <2>1, <2>2 DEF ListTypes, Places
<1>4. Guarding
  BY <1>1 DEF Guarding
<1>5. InHand = {} /\ Full = Nodes
  BY <1>0, <1>1 DEF InHand, Full
<1>6. NodeInv
  <2>1. Parted
    BY <1>0, <1>5 DEF Parted, Linked
  <2>2. Straight
    <3>1. \A m, n \in Nodes : m + 1 = n + 1 => m = n
      BY LengthAssumption DEF Nodes
    <3>2. \A n \in Nodes : n + 1 # 1
      BY LengthAssumption DEF Nodes
    <3> QED
      BY <1>0, <1>1, <3>1, <3>2 DEF Straight, Linked
  <2>3. Ended
    BY <1>0, <1>1, <1>2 DEF Ended
  <2> QED
    BY <2>1, <2>2, <2>3 DEF NodeInv
<1>7. ElementInv
  <2>1. Distinct
    BY <1>1, <1>5 DEF Distinct
  <2>2. HeldApart
    BY <1>1 DEF HeldApart
  <2>3. Everywhere
    BY <1>1, <1>5 DEF Everywhere, Elements, Nodes
  <2> QED
    BY <2>1, <2>2, <2>3 DEF ElementInv
<1> QED
  BY <1>3, <1>4, <1>6, <1>7 DEF PoolInv

----------------------------------------------------------------------------
(* The steps *)

LEMMA ListLocks == ListSpec => Spec
<1>1. ListInit => Init
  BY DEF ListInit
<1>2. [ListNext \/ ListFinished]_listVars => [Next \/ Finished]_vars
  <2> SUFFICES ASSUME [ListNext \/ ListFinished]_listVars PROVE [Next \/ Finished]_vars
    OBVIOUS
  <2>1. ASSUME NEW p \in Procs, Call(p) \/ ListStep(p) PROVE [Next]_vars
    BY <2>1 DEF Call, ListStep, Guarded, PopNothing, PopFront, Deallocate, Allocate,
         Insert, Unguarded, Next, vars, lockVars
  <2>2. CASE ListFinished
    BY <2>2 DEF ListFinished, Finished, listVars, lockVars, vars
  <2>3. CASE UNCHANGED listVars
    BY <2>3 DEF listVars, lockVars, vars
  <2> QED
    BY <2>1, <2>2, <2>3 DEF ListNext
<1> QED
  BY <1>1, <1>2, PTL DEF ListSpec, Spec

(* The lock keeps callers out of each other's calls. *)
LEMMA AloneInside ==
  ASSUME ListTypes, Guarding, LockInv, NEW p \in Procs, NEW q \in Procs,
         at[p] \notin {"out", "guard"}, at[q] \notin {"out", "guard"}
  PROVE  p = q
<1>1. pc[p] = "cs" /\ pc[q] = "cs"
  BY DEF Guarding, LockInv, TypeOK
<1> QED
  BY <1>1, ExclusiveLock DEF MutualExclusion

LEMMA ListCases ==
  [ListNext \/ ListFinished]_listVars =>
    \/ \E p \in Procs : Call(p) \/ ListStep(p)
    \/ UNCHANGED listVars
  BY DEF ListNext, ListFinished

LEMMA TypesKept ==
  ASSUME ListTypes, Guarding, NEW p \in Procs, Call(p) \/ ListStep(p)
  PROVE  ListTypes'
<1> USE DEF ListTypes, Places, At, lists
<1>1. CASE Call(p) \/ Guarded(p) \/ PopNothing(p) \/ Unguarded(p)
  BY <1>1 DEF Call, Guarded, PopNothing, Unguarded
<1>2. CASE PopFront(p)
  BY <1>2 DEF PopFront
<1>3. CASE Deallocate(p)
  <2>1. node[p] \in Nodes /\ data[node[p]] \in Elements
    BY <1>3 DEF Deallocate, Guarding
  <2> QED
    BY <1>3, <2>1 DEF Deallocate
<1>4. CASE Allocate(p)
  <2>1. CASE dead = null
    BY <1>4, <2>1 DEF Allocate
  <2>2. CASE dead # null
    BY <1>4, <2>2 DEF Allocate
  <2> QED
    BY <2>1, <2>2
<1>5. CASE Insert(p)
  <2>1. node[p] \in Nodes /\ owns[p] \in Elements
    BY <1>5 DEF Insert, Guarding
  <2>2. next' \in [Nodes -> Nodes \cup {null}]
    BY <1>5, <2>1 DEF Insert
  <2> QED
    BY <1>5, <2>1, <2>2 DEF Insert
<1> QED
  BY <1>1, <1>2, <1>3, <1>4, <1>5 DEF ListStep

(* The lists, the nodes in hand and the owners stand still. *)
LEMMA PoolSame ==
  ASSUME PoolInv, ListTypes', UNCHANGED <<lists, node, owns>>,
         \A p \in Procs : at'[p] = "popped" <=> at[p] = "popped",
         \A p \in Procs : at'[p] = "insert" <=> at[p] = "insert"
  PROVE  NodeInv' /\ ElementInv'
<1>1. Live' = Live /\ Unused' = Unused /\ Linked' = Linked
  BY DEF Live, Unused, Linked, lists
<1>2. InHand' = InHand /\ Full' = Full
  <2>1. {q \in Procs : at'[q] \in {"popped", "insert"}} = {q \in Procs : at[q] \in {"popped", "insert"}}
    OBVIOUS
  <2>2. {q \in Procs : at'[q] = "popped"} = {q \in Procs : at[q] = "popped"}
    OBVIOUS
  <2> QED
    BY <1>1, <2>1, <2>2 DEF InHand, Full
<1>3. NodeInv'
  BY <1>1, <1>2 DEF PoolInv, NodeInv, Parted, Straight, Ended, lists
<1>4. ElementInv'
  BY <1>1, <1>2 DEF PoolInv, ElementInv, Distinct, HeldApart, Everywhere, lists
<1> QED
  BY <1>3, <1>4

(* Calls, the lock, and an empty list. *)
LEMMA QuietSteps ==
  ASSUME PoolInv, TypeOK, TypeOK', ListTypes', NEW p \in Procs,
         Call(p) \/ Guarded(p) \/ PopNothing(p) \/ Unguarded(p)
  PROVE  PoolInv'
<1>1. ListTypes /\ Guarding
  BY DEF PoolInv
<1>2. UNCHANGED <<lists, node, owns>>
  BY DEF Call, Guarded, PopNothing, Unguarded
<1>3. PICK from, to \in Places \ {"popped", "insert"} : At(p, from, to)
  BY DEF Call, Guarded, PopNothing, Unguarded, Places
<1>4. \A q \in Procs : q # p => at'[q] = at[q]
  BY <1>1, <1>3 DEF At, ListTypes
<1>5. at[p] = from /\ at'[p] = to
  BY <1>1, <1>3 DEF At, ListTypes
<1>6. NodeInv' /\ ElementInv'
  BY <1>2, <1>4, <1>5, PoolSame
<1>7. Guarding'
  <2>1. \A q \in Procs : q # p => pc'[q] = pc[q]
    BY DEF Call, Guarded, PopNothing, Unguarded, GrabTicket, TakeTurn, SignalNext, lockVars, TypeOK
  <2>2. /\ at'[p] = "out" <=> pc'[p] = "idle"
        /\ at'[p] = "guard" <=> pc'[p] = "wait"
        /\ at'[p] = "pop" => owns[p] = null
        /\ at'[p] = "push" => owns[p] # null
    <3>1. CASE Call(p)
      BY <1>1, <3>1 DEF Call, GrabTicket, At, ListTypes, TypeOK
    <3>2. CASE Guarded(p)
      BY <1>1, <3>2 DEF Guarded, TakeTurn, At, ListTypes, TypeOK
    <3>3. CASE PopNothing(p)
      BY <1>1, <3>3 DEF PopNothing, At, ListTypes, TypeOK, lockVars, Guarding
    <3>4. CASE Unguarded(p)
      BY <1>1, <3>4 DEF Unguarded, SignalNext, At, ListTypes, TypeOK
    <3> QED
      BY <3>1, <3>2, <3>3, <3>4
  <2> QED
    BY <1>1, <1>2, <1>3, <1>4, <1>5, <2>1, <2>2 DEF Guarding
<1> QED
  BY <1>6, <1>7 DEF PoolInv

(* A step of a caller inside does not touch the lock. *)
LEMMA GuardingKept ==
  ASSUME ListTypes, Guarding, ListTypes', UNCHANGED lockVars, NEW p \in Procs,
         NEW from \in Places \ {"out", "guard"}, NEW to \in Places \ {"out", "guard"},
         At(p, from, to),
         \A q \in Procs : q # p => node'[q] = node[q] /\ owns'[q] = owns[q],
         to \in {"pop", "popped"} => owns'[p] = null,
         to \in {"push", "insert"} => owns'[p] # null,
         to \in {"popped", "insert"} => node'[p] # null
  PROVE  Guarding'
<1>1. \A q \in Procs : q # p => at'[q] = at[q]
  BY DEF At, ListTypes
<1>2. at[p] = from /\ at'[p] = to /\ pc' = pc
  BY DEF At, ListTypes, lockVars
<1>3. pc[p] # "idle" /\ pc[p] # "wait"
  BY <1>2 DEF Guarding
<1> QED
  BY <1>1, <1>2, <1>3 DEF Guarding

(* pop_front: the head comes off the live list, into the caller's hand. *)
LEMMA PopSteps ==
  ASSUME PoolInv, LockInv, ListTypes', NEW p \in Procs, PopFront(p)
  PROVE  PoolInv'
<1>0. ListTypes /\ Guarding /\ NodeInv /\ ElementInv
  BY DEF PoolInv
<1>1. /\ at[p] = "pop" /\ at' = [at EXCEPT ![p] = "popped"] /\ head # null
      /\ node' = [node EXCEPT ![p] = head] /\ head' = next[head]
      /\ tail' = (IF next[head] = null THEN null ELSE tail)
      /\ next' = next /\ data' = data /\ dead' = dead /\ owns' = owns
      /\ UNCHANGED lockVars
  BY DEF PopFront, At
<1>2. Guarding'
  <2>1. owns[p] = null
    BY <1>0, <1>1 DEF Guarding
  <2> QED
    BY <1>0, <1>1, <2>1, GuardingKept DEF ListTypes, Places, At
<1>3. \A q \in Procs : q # p => at[q] \in {"out", "guard"}
  BY <1>0, <1>1, AloneInside
<1>4. InHand = {} /\ InHand' = {head} /\ Full = Live /\ Full' = Live' \cup {head}
  <2>1. {q \in Procs : at[q] \in {"popped", "insert"}} = {} /\ {q \in Procs : at[q] = "popped"} = {}
    BY <1>1, <1>3
  <2>2. /\ {q \in Procs : at'[q] \in {"popped", "insert"}} = {p}
        /\ {q \in Procs : at'[q] = "popped"} = {p}
    BY <1>0, <1>1, <1>3 DEF ListTypes
  <2>3. node'[p] = head
    BY <1>0, <1>1 DEF ListTypes
  <2> QED
    BY <2>1, <2>2, <2>3 DEF InHand, Full
<1>5. head \in Nodes /\ next \in Links /\ Live \subseteq Nodes /\ head \in Live /\ Unused' = Unused
  <2>1. head \in Nodes /\ next \in Links
    BY <1>0, <1>1 DEF ListTypes, Links
  <2> QED
    BY <1>1, <2>1, ChainClosed DEF Live, Closed, Unused
<1>6. Live' = Live \ {head}
  <2>1. \A n \in Live : next[n] # head
    BY <1>0, <1>1 DEF NodeInv, Straight, Linked
  <2> QED
    BY <1>1, <1>5, <2>1, ChainRest DEF Live
<1>7. NodeInv'
  <2>1. Parted'
    BY <1>0, <1>4, <1>5, <1>6 DEF Parted, NodeInv, Linked
  <2>2. Straight'
    <3>1. Linked' = Linked \ {head}
      BY <1>0, <1>5, <1>6 DEF Linked, NodeInv, Parted
    <3>2. \A n \in Linked \ {head} : next[n] # null => next[n] # next[head]
      BY <1>0, <1>5 DEF NodeInv, Straight, Linked
    <3> QED
      BY <1>0, <1>1, <3>1, <3>2 DEF NodeInv, Straight
  <2>3. Ended'
    <3>1. tail \in Live /\ next[tail] = null /\ tail # null
      BY <1>0, <1>1 DEF NodeInv, Ended
    <3> QED
      BY <1>1, <1>6, <3>1 DEF Ended
  <2> QED
    BY <2>1, <2>2, <2>3 DEF NodeInv
<1>8. ElementInv'
  <2>1. Full' = Full
    BY <1>4, <1>5, <1>6
  <2> QED
    BY <1>0, <1>1, <2>1 DEF ElementInv, Distinct, HeldApart, Everywhere
<1> QED
  BY <1>2, <1>7, <1>8 DEF PoolInv

(* deallocate_node: the node goes to the front of the unused ones, and its *)
(* element to the caller.                                                  *)
LEMMA DeallocateSteps ==
  ASSUME PoolInv, LockInv, ListTypes', NEW p \in Procs, Deallocate(p)
  PROVE  PoolInv'
<1>0. ListTypes /\ Guarding /\ NodeInv /\ ElementInv
  BY DEF PoolInv
<1> DEFINE m == node[p]
<1>1. /\ at[p] = "popped" /\ at' = [at EXCEPT ![p] = "done"]
      /\ owns' = [owns EXCEPT ![p] = data[m]]
      /\ next' = [next EXCEPT ![m] = dead] /\ dead' = m
      /\ data' = data /\ head' = head /\ tail' = tail /\ node' = node
      /\ UNCHANGED lockVars
  BY DEF Deallocate, At
<1>2. Guarding'
  <2>1. \A q \in Procs : q # p => node'[q] = node[q] /\ owns'[q] = owns[q]
    BY <1>0, <1>1 DEF ListTypes
  <2> QED
    BY <1>0, <1>1, <2>1, GuardingKept DEF ListTypes, Places, At
<1>3. \A q \in Procs : q # p => at[q] \in {"out", "guard"}
  BY <1>0, <1>1, AloneInside
<1>4. InHand = {m} /\ InHand' = {} /\ Full = Live \cup {m} /\ Full' = Live'
  <2>1. /\ {q \in Procs : at[q] \in {"popped", "insert"}} = {p}
        /\ {q \in Procs : at[q] = "popped"} = {p}
    BY <1>1, <1>3
  <2>2. /\ {q \in Procs : at'[q] \in {"popped", "insert"}} = {}
        /\ {q \in Procs : at'[q] = "popped"} = {}
    BY <1>0, <1>1, <1>3 DEF ListTypes
  <2> QED
    BY <2>1, <2>2, <1>1 DEF InHand, Full
<1>5. /\ m \in Nodes /\ m # null /\ m \notin Live /\ m \notin Unused
      /\ next \in Links /\ next' \in Links
      /\ head \in Nodes \cup {null} /\ dead \in Nodes \cup {null}
  BY <1>0, <1>1, <1>4, NullNoNode DEF NodeInv, Parted, Linked, ListTypes, Links, Guarding
<1>6. Live' = Live
  <2>1. \A n \in Live : next'[n] = next[n]
    BY <1>0, <1>1, <1>5 DEF ListTypes
  <2> QED
    BY <1>1, <1>5, <2>1, ChainSame DEF Live
<1>7. Unused' = Unused \cup {m}
  <2>1. \A n \in Unused : next'[n] = next[n]
    BY <1>0, <1>1, <1>5 DEF ListTypes
  <2>2. Chain(next', dead) = Unused
    BY <1>5, <2>1, ChainSame DEF Unused
  <2>3. next'[m] = dead
    BY <1>0, <1>1, <1>5 DEF ListTypes
  <2>4. Chain(next', m) = Chain(next', dead) \cup {m}
    <3> HIDE DEF m
    <3> QED
      BY <1>5, <2>2, <2>3, ChainFront
  <2> QED
    BY <1>1, <2>2, <2>4 DEF Unused
<1>8. NodeInv'
  <2>1. Linked' = Linked \cup {m}
    BY <1>6, <1>7 DEF Linked
  <2>2. Parted'
    BY <1>0, <1>4, <1>5, <1>6, <1>7, <2>1 DEF Parted, NodeInv
  <2>3. \A n \in Linked : next'[n] = next[n] /\ n # m
    <3>1. \A n \in Linked : n \in Nodes /\ n # m
      BY <1>5 DEF Linked, Live, Unused, Chain
    <3> QED
      BY <1>0, <1>1, <3>1 DEF ListTypes
  <2>4. \A n \in Linked : next[n] # null => next[n] \in Linked /\ next[n] # m
    <3>1. Closed(next, head, Live) /\ Closed(next, dead, Unused)
      BY <1>5, ChainClosed DEF Live, Unused
    <3> QED
      BY <1>5, <3>1 DEF Closed, Linked
  <2>5. next'[m] = dead
    BY <1>0, <1>1, <1>5 DEF ListTypes
  <2>6. dead # null => dead # m /\ dead # head
    <3>1. Closed(next, head, Live) /\ Closed(next, dead, Unused)
      BY <1>5, ChainClosed DEF Live, Unused
    <3> QED
      BY <1>0, <1>5, <3>1 DEF Closed, NodeInv, Parted
  <2>7. head # m
    <3>1. Closed(next, head, Live)
      BY <1>5, ChainClosed DEF Live
    <3> QED
      BY <1>5, <3>1 DEF Closed
  <2>8. Straight'
    <3>1. \A a, b \in Linked \cup {m} : next'[a] = next'[b] /\ next'[a] # null => a = b
      <4> HIDE DEF m
      <4>1. \A a \in Linked : next[a] # null => next[a] # dead
        BY <1>0 DEF NodeInv, Straight
      <4>2. \A a, b \in Linked : next[a] = next[b] /\ next[a] # null => a = b
        BY <1>0 DEF NodeInv, Straight
      <4> QED
        BY <2>3, <2>5, <4>1, <4>2
    <3>2. \A a \in Linked \cup {m} : next'[a] # null => next'[a] # head /\ next'[a] # m
      <4> HIDE DEF m
      <4>1. \A a \in Linked : next[a] # null => next[a] # head
        BY <1>0 DEF NodeInv, Straight
      <4> QED
        BY <2>3, <2>4, <2>5, <2>6, <2>7, <4>1
    <3> QED
      BY <1>1, <2>1, <3>1, <3>2 DEF Straight
  <2>9. Ended'
    BY <1>0, <1>1, <1>6, <2>3 DEF Ended, NodeInv, Linked
  <2> QED
    BY <2>2, <2>8, <2>9 DEF NodeInv
<1>9. ElementInv'
  <2>1. owns[p] = null /\ owns'[p] = data[m] /\ data[m] \in Elements
    BY <1>0, <1>1, <1>5 DEF Guarding, ListTypes
  <2>2. \A q \in Procs : q # p => owns'[q] = owns[q]
    BY <1>0, <1>1 DEF ListTypes
  <2>3. Full' = Full \ {m} /\ m \in Full
    BY <1>4, <1>5, <1>6
  <2>4. Distinct'
    BY <1>0, <1>1, <2>3 DEF ElementInv, Distinct
  <2>5. \A n \in Full : n # m => data[n] # data[m]
    BY <1>0, <2>3 DEF ElementInv, Distinct
  <2>6. \A q \in Procs : owns[q] # null => owns[q] # data[m]
    BY <1>0, <2>3 DEF ElementInv, HeldApart
  <2>7. HeldApart'
    <3> HIDE DEF m
    <3>1. \A n \in Full \ {m} : data[n] # owns'[p]
      BY <2>1, <2>5
    <3>2. \A q \in Procs : owns'[q] = owns'[p] => q = p
      <4>1. data[m] # null
        BY <2>1, LengthAssumption DEF Elements, null
      <4> QED
        BY <2>1, <2>2, <2>6, <4>1
    <3>3. \A q \in Procs : q # p /\ owns'[q] # null =>
            /\ \A n \in Full : data[n] # owns'[q]
            /\ \A r \in Procs : owns'[r] = owns'[q] => r = q
      BY <1>0, <2>1, <2>2, <2>6 DEF ElementInv, HeldApart
    <3> QED
      BY <1>1, <2>3, <3>1, <3>2, <3>3 DEF HeldApart
  <2>8. Everywhere'
    <3> HIDE DEF m
    <3> SUFFICES ASSUME NEW e \in Elements
                 PROVE  (\E q \in Procs : owns'[q] = e) \/ (\E n \in Full' : data'[n] = e)
      BY DEF Everywhere
    <3>0. e # null
      BY LengthAssumption DEF Elements, null
    <3>1. (\E q \in Procs : owns[q] = e) \/ (\E n \in Full : data[n] = e)
      BY <1>0 DEF ElementInv, Everywhere
    <3>2. CASE \E q \in Procs : owns[q] = e
      BY <2>1, <2>2, <3>0, <3>2
    <3>3. CASE \E n \in Full : data[n] = e
      BY <1>1, <2>1, <2>3, <3>3
    <3> QED
      BY <3>1, <3>2, <3>3
  <2> QED
    BY <2>4, <2>7, <2>8 DEF ElementInv
<1> QED
  BY <1>2, <1>8, <1>9 DEF PoolInv

(* Whoever pushes an element finds a node: if all were live they would     *)
(* hold as many elements as there are, and this one besides.               *)
LEMMA NodeToReuse ==
  ASSUME PoolInv, LockInv, NEW p \in Procs, at[p] = "push"
  PROVE  dead # null
<1> SUFFICES ASSUME dead = null PROVE FALSE
  OBVIOUS
<1>0. ListTypes /\ Guarding /\ NodeInv /\ ElementInv
  BY DEF PoolInv
<1>1. \A q \in Procs : q # p => at[q] \in {"out", "guard"}
  BY <1>0, AloneInside
<1>2. InHand = {} /\ Full = Live
  <2>1. {q \in Procs : at[q] \in {"popped", "insert"}} = {} /\ {q \in Procs : at[q] = "popped"} = {}
    BY <1>1
  <2> QED
    BY <2>1 DEF InHand, Full
<1>3. Full = Nodes
  <2>1. Unused = {}
    BY ChainNull DEF Unused
  <2>2. Live \subseteq Nodes
    BY DEF Live, Chain
  <2> QED
    BY <1>0, <1>2, <2>1, <2>2 DEF NodeInv, Parted, Linked
<1>4. owns[p] \in Elements /\ \A n \in Nodes : data[n] # owns[p]
  BY <1>0, <1>3 DEF Guarding, ListTypes, ElementInv, HeldApart
<1> DEFINE T == Elements \ {owns[p]}
<1>5. data \in [Nodes -> T]
  BY <1>0, <1>4 DEF ListTypes
<1>6. /\ IsFiniteSet(Nodes) /\ IsFiniteSet(T)
      /\ Cardinality(Nodes) = Length /\ Cardinality(T) = Length - 1
  <2>1. IsFiniteSet(Elements) /\ Cardinality(Elements) = Length
    <3>1. 1 \in Int /\ Length \in Int /\ ~(1 > Length) /\ Length - 1 + 1 = Length
      BY LengthAssumption
    <3> QED
      BY <3>1, FS_Interval DEF Elements
  <2>2. Nodes = Elements
    BY DEF Nodes, Elements
  <2>3. IsFiniteSet(T) /\ Cardinality(T) = Cardinality(Elements) - 1
    BY <1>4, <2>1, FS_RemoveElement
  <2> QED
    BY <2>1, <2>2, <2>3
<1>7. \E m, n \in Nodes : m # n /\ data[m] = data[n]
  <2> HIDE DEF T
  <2>1. Cardinality(T) < Cardinality(Nodes)
    BY <1>6, LengthAssumption
  <2> QED
    BY <1>5, <1>6, <2>1, FS_PigeonHole
<1> QED
  BY <1>0, <1>3, <1>7 DEF ElementInv, Distinct

(* allocate_node: the first unused node comes into the caller's hand. *)
LEMMA AllocateSteps ==
  ASSUME PoolInv, LockInv, ListTypes', NEW p \in Procs, Allocate(p)
  PROVE  PoolInv'
<1>0. ListTypes /\ Guarding /\ NodeInv /\ ElementInv
  BY DEF PoolInv
<1>a. at[p] = "push" /\ dead # null
  BY NodeToReuse DEF Allocate, At
<1>1. /\ at' = [at EXCEPT ![p] = "insert"]
      /\ node' = [node EXCEPT ![p] = dead] /\ dead' = next[dead]
      /\ next' = next /\ data' = data /\ head' = head /\ tail' = tail /\ owns' = owns
      /\ UNCHANGED lockVars
  BY <1>a DEF Allocate, At
<1>2. Guarding'
  <2>1. owns[p] # null
    BY <1>0, <1>a DEF Guarding
  <2> QED
    BY <1>0, <1>a, <1>1, <2>1, GuardingKept DEF ListTypes, Places, At
<1>3. \A q \in Procs : q # p => at[q] \in {"out", "guard"}
  BY <1>0, <1>a, AloneInside
<1>4. InHand = {} /\ InHand' = {dead} /\ Full = Live /\ Full' = Live'
  <2>1. {q \in Procs : at[q] \in {"popped", "insert"}} = {} /\ {q \in Procs : at[q] = "popped"} = {}
    BY <1>a, <1>3
  <2>2. /\ {q \in Procs : at'[q] \in {"popped", "insert"}} = {p}
        /\ {q \in Procs : at'[q] = "popped"} = {}
    BY <1>0, <1>1, <1>3 DEF ListTypes
  <2>3. node'[p] = dead
    BY <1>0, <1>1 DEF ListTypes
  <2> QED
    BY <2>1, <2>2, <2>3 DEF InHand, Full
<1>5. dead \in Nodes /\ next \in Links /\ Unused \subseteq Nodes /\ dead \in Unused /\ Live' = Live
  <2>1. dead \in Nodes /\ next \in Links
    BY <1>0, <1>a DEF ListTypes, Links
  <2> QED
    BY <1>a, <1>1, <2>1, ChainClosed DEF Unused, Closed, Live
<1>6. Unused' = Unused \ {dead}
  <2>1. \A n \in Unused : next[n] # dead
    BY <1>0, <1>a DEF NodeInv, Straight, Linked
  <2> QED
    BY <1>1, <1>5, <2>1, ChainRest DEF Unused
<1>7. NodeInv'
  <2>1. Parted'
    BY <1>0, <1>4, <1>5, <1>6 DEF Parted, NodeInv, Linked
  <2>2. Straight'
    <3>1. Linked' = Linked \ {dead}
      BY <1>0, <1>5, <1>6 DEF Linked, NodeInv, Parted
    <3>2. \A n \in Linked \ {dead} : next[n] # null => next[n] # next[dead]
      BY <1>0, <1>5 DEF NodeInv, Straight, Linked
    <3> QED
      BY <1>0, <1>1, <3>1, <3>2 DEF NodeInv, Straight
  <2>3. Ended'
    BY <1>0, <1>1, <1>5 DEF Ended, NodeInv
  <2> QED
    BY <2>1, <2>2, <2>3 DEF NodeInv
<1>8. ElementInv'
  BY <1>0, <1>1, <1>4, <1>5 DEF ElementInv, Distinct, HeldApart, Everywhere
<1> QED
  BY <1>2, <1>7, <1>8 DEF PoolInv

(* insert_node_at_tail: the node with the element becomes the last one. *)
LEMMA InsertSteps ==
  ASSUME PoolInv, LockInv, ListTypes', NEW p \in Procs, Insert(p)
  PROVE  PoolInv'
<1>0. ListTypes /\ Guarding /\ NodeInv /\ ElementInv
  BY DEF PoolInv
<1> DEFINE m == node[p]
<1>1. /\ at[p] = "insert" /\ at' = [at EXCEPT ![p] = "done"]
      /\ data' = [data EXCEPT ![m] = owns[p]]
      /\ next' = [n \in Nodes |-> IF n = m THEN null ELSE IF n = tail THEN m ELSE next[n]]
      /\ tail' = m /\ head' = (IF head = null THEN m ELSE head)
      /\ owns' = [owns EXCEPT ![p] = null]
      /\ dead' = dead /\ node' = node
      /\ UNCHANGED lockVars
  BY DEF Insert, At
<1>2. Guarding'
  <2>1. \A q \in Procs : q # p => node'[q] = node[q] /\ owns'[q] = owns[q]
    BY <1>0, <1>1 DEF ListTypes
  <2> QED
    BY <1>0, <1>1, <2>1, GuardingKept DEF ListTypes, Places, At
<1>3. \A q \in Procs : q # p => at[q] \in {"out", "guard"}
  BY <1>0, <1>1, AloneInside
<1>4. InHand = {m} /\ InHand' = {} /\ Full = Live /\ Full' = Live'
  <2>1. /\ {q \in Procs : at[q] \in {"popped", "insert"}} = {p}
        /\ {q \in Procs : at[q] = "popped"} = {}
    BY <1>1, <1>3
  <2>2. /\ {q \in Procs : at'[q] \in {"popped", "insert"}} = {}
        /\ {q \in Procs : at'[q] = "popped"} = {}
    BY <1>0, <1>1, <1>3 DEF ListTypes
  <2> QED
    BY <2>1, <2>2, <1>1 DEF InHand, Full
<1>5. /\ m \in Nodes /\ m # null /\ m \notin Live /\ m \notin Unused
      /\ next \in Links /\ next' \in Links
      /\ head \in Nodes \cup {null} /\ dead \in Nodes \cup {null}
  BY <1>0, <1>1, <1>4, NullNoNode DEF NodeInv, Parted, Linked, ListTypes, Links, Guarding
<1>6. /\ Live \subseteq Nodes /\ Unused \subseteq Nodes
      /\ Closed(next, head, Live) /\ Closed(next, dead, Unused)
  BY <1>5, ChainClosed DEF Live, Unused
<1>7. next'[m] = null /\ \A n \in Nodes : n # m /\ n # tail => next'[n] = next[n]
  <2> HIDE DEF m
  <2> QED
    BY <1>1, <1>5
<1>8. tail # null => tail \in Live /\ tail \in Nodes /\ tail # m /\ next[tail] = null /\ next'[tail] = m
  <2>1. tail # null => tail \in Live /\ tail \in Nodes /\ tail # m /\ next[tail] = null
    BY <1>0, <1>5, <1>6 DEF NodeInv, Ended
  <2> QED
    BY <1>1, <2>1
<1>9. Unused' = Unused
  <2>1. \A n \in Unused : next'[n] = next[n]
    <3>1. \A n \in Unused : n \in Nodes /\ n # m /\ n # tail
      BY <1>0, <1>5, <1>6, <1>8, NullNoNode DEF NodeInv, Parted
    <3> QED
      BY <1>7, <3>1
  <2> QED
    BY <1>1, <1>5, <2>1, ChainSame DEF Unused
<1>10. Live' = Live \cup {m}
  <2> HIDE DEF m
  <2>1. CASE head = null
    <3>1. Live = {}
      BY <2>1, ChainNull DEF Live
    <3>2. Chain(next', next'[m]) = {}
      BY <1>7, ChainNull
    <3>3. Chain(next', m) = {m}
      BY <1>5, <3>2, ChainFront
    <3> QED
      BY <1>1, <2>1, <3>1, <3>3 DEF Live
  <2>2. CASE head # null
    <3>1. tail # null
      BY <1>0, <2>2 DEF NodeInv, Ended
    <3>2. \A n \in Live : n # tail => next'[n] = next[n]
      BY <1>5, <1>6, <1>7
    <3>3. Chain(next', head) = Chain(next, head) \cup {m}
      BY <1>5, <1>7, <1>8, <3>1, <3>2, ChainEnd DEF Live
    <3> QED
      BY <1>1, <2>2, <3>3 DEF Live
  <2> QED
    BY <2>1, <2>2
<1>11. NodeInv'
  <2> HIDE DEF m
  <2>1. Linked' = Linked \cup {m}
    BY <1>9, <1>10 DEF Linked
  <2>2. Parted'
    BY <1>0, <1>4, <1>5, <1>9, <1>10, <2>1 DEF Parted, NodeInv
  <2>3. \A n \in Linked : n \in Nodes /\ n # m
    BY <1>5, <1>6 DEF Linked
  <2>4. \A n \in Linked : n # tail => next'[n] = next[n]
    BY <2>3, <1>7
  <2>5. \A n \in Linked : next[n] # null => next[n] # m
    BY <1>5, <1>6 DEF Closed, Linked
  <2>6. \A n \in Linked : n = tail => next'[n] = m
    BY <1>8, <2>3, NullNoNode
  <2>7. \A a, b \in Linked : next[a] = next[b] /\ next[a] # null => a = b
    BY <1>0 DEF NodeInv, Straight
  <2>8. \A n \in Linked : next[n] # null => next[n] # head /\ next[n] # dead
    BY <1>0 DEF NodeInv, Straight
  <2>9. \A a, b \in Linked \cup {m} : next'[a] = next'[b] /\ next'[a] # null => a = b
    BY <1>7, <2>4, <2>5, <2>6, <2>7
  <2>10. \A a \in Linked \cup {m} : next'[a] # null => next'[a] # head' /\ next'[a] # dead'
    <3> SUFFICES ASSUME NEW a \in Linked, next'[a] # null
                 PROVE  next'[a] # head' /\ next'[a] # dead'
      BY <1>7
    <3>1. dead # m /\ dead' = dead
      BY <1>1, <1>5, <1>6 DEF Closed
    <3>2. CASE a = tail
      <4>1. a # null /\ next'[a] = m
        BY <2>3, <2>6, <3>2, NullNoNode
      <4>2. head # null
        BY <1>0, <3>2, <4>1 DEF NodeInv, Ended
      <4>3. head' = head /\ head # m
        BY <1>1, <1>5, <1>6, <4>2 DEF Closed
      <4> QED
        BY <3>1, <4>1, <4>3
    <3>3. CASE a # tail
      <4>1. next'[a] = next[a] /\ next[a] # null /\ next[a] # m
        BY <2>4, <2>5, <3>3
      <4> QED
        BY <1>1, <2>8, <3>1, <4>1
    <3> QED
      BY <3>2, <3>3
  <2>11. Straight'
    BY <2>1, <2>9, <2>10 DEF Straight
  <2>12. Ended'
    BY <1>1, <1>5, <1>7, <1>10 DEF Ended
  <2> QED
    BY <2>2, <2>11, <2>12 DEF NodeInv
<1>12. ElementInv'
  <2>1. owns[p] # null /\ owns'[p] = null
    BY <1>0, <1>1 DEF Guarding, ListTypes
  <2>2. \A q \in Procs : q # p => owns'[q] = owns[q]
    BY <1>0, <1>1 DEF ListTypes
  <2>3. Full' = Full \cup {m}
    BY <1>4, <1>10
  <2>4. data'[m] = owns[p] /\ \A n \in Full : n # m /\ data'[n] = data[n]
    <3>1. \A n \in Full : n \in Nodes /\ n # m
      BY <1>4, <1>5, <1>6
    <3> QED
      BY <1>0, <1>1, <1>5, <3>1 DEF ListTypes
  <2> HIDE DEF m
  <2>5. \A n \in Full : data[n] # owns[p]
    BY <1>0, <2>1 DEF ElementInv, HeldApart
  <2>6. \A q \in Procs : q # p => owns[q] # owns[p]
    BY <1>0, <2>1 DEF ElementInv, HeldApart
  <2>7. Distinct'
    BY <1>0, <2>3, <2>4, <2>5 DEF ElementInv, Distinct
  <2>8. HeldApart'
    <3> SUFFICES ASSUME NEW q \in Procs, owns'[q] # null
                 PROVE  /\ \A n \in Full \cup {m} : data'[n] # owns'[q]
                        /\ \A r \in Procs : owns'[r] = owns'[q] => r = q
      BY <2>3 DEF HeldApart
    <3>1. q # p /\ owns'[q] = owns[q]
      BY <2>1, <2>2
    <3>2. /\ \A n \in Full : data[n] # owns[q]
          /\ \A r \in Procs : owns[r] = owns[q] => r = q
      BY <1>0, <3>1 DEF ElementInv, HeldApart
    <3> QED
      BY <2>1, <2>2, <2>4, <2>6, <3>1, <3>2
  <2>9. Everywhere'
    <3> SUFFICES ASSUME NEW e \in Elements
                 PROVE  (\E q \in Procs : owns'[q] = e) \/ (\E n \in Full' : data'[n] = e)
      BY DEF Everywhere
    <3>1. (\E q \in Procs : owns[q] = e) \/ (\E n \in Full : data[n] = e)
      BY <1>0 DEF ElementInv, Everywhere
    <3>2. CASE owns[p] = e
      BY <2>3, <2>4, <3>2
    <3>3. CASE owns[p] # e
      BY <2>2, <2>3, <2>4, <3>1, <3>3
    <3> QED
      BY <3>2, <3>3
  <2> QED
    BY <2>7, <2>8, <2>9 DEF ElementInv
<1> QED
  BY <1>2, <1>11, <1>12 DEF PoolInv

LEMMA PoolInvariant == ListSpec => []PoolInv
<1>1. PoolInv /\ LockInv /\ LockInv' /\ [ListNext \/ ListFinished]_listVars => PoolInv'
  <2> SUFFICES ASSUME PoolInv, LockInv, LockInv', [ListNext \/ ListFinished]_listVars
               PROVE  PoolInv'
    OBVIOUS
  <2>1. TypeOK /\ TypeOK' /\ ListTypes /\ Guarding
    BY DEF LockInv, PoolInv
  <2>2. ASSUME NEW p \in Procs, Call(p) \/ ListStep(p) PROVE PoolInv'
    <3>1. ListTypes'
      BY <2>1, <2>2, TypesKept
    <3> QED
      BY <2>1, <2>2, <3>1, QuietSteps, PopSteps, DeallocateSteps, AllocateSteps, InsertSteps
      DEF ListStep
  <2>3. CASE UNCHANGED listVars
    <3>1. ListTypes' /\ Guarding'
      BY <2>1, <2>3 DEF listVars, lists, lockVars, ListTypes, Guarding
    <3>2. NodeInv' /\ ElementInv'
      BY <2>3, <3>1, PoolSame DEF listVars
    <3> QED
      BY <3>1, <3>2 DEF PoolInv
  <2> QED
    BY <2>2, <2>3, ListCases
<1> QED
  BY <1>1, InitPool, ListLocks, LockInvariant, PTL DEF ListSpec

(* Each element is counted once. *)
LEMMA CountedOnce ==
  ASSUME PoolInv, LockInv, NEW e \in Elements
  PROVE  Cardinality({p \in Procs : owns[p] = e})
           + Cardinality({n \in Live : data[n] = e})
           + Cardinality({p \in Procs : at[p] = "popped" /\ data[node[p]] = e}) = 1
<1> DEFINE A == {p \in Procs : owns[p] = e}
           B == {n \in Live : data[n] = e}
           C == {p \in Procs : at[p] = "popped" /\ data[node[p]] = e}
<1>0. ListTypes /\ Guarding /\ NodeInv /\ ElementInv /\ e # null
  BY LengthAssumption DEF PoolInv, Elements, null
<1>1. \A p \in Procs : at[p] = "popped" => node[p] \in Full /\ node[p] \notin Live
  <2> SUFFICES ASSUME NEW p \in Procs, at[p] = "popped"
               PROVE  node[p] \in Full /\ node[p] \notin Live
    OBVIOUS
  <2>1. node[p] \in InHand /\ node[p] \in Full
    BY DEF InHand, Full
  <2> QED
    BY <1>0, <2>1 DEF NodeInv, Parted, Linked
<1>2. Live \subseteq Full
  BY DEF Full
<1>3. \A p, q \in A : p = q
  BY <1>0 DEF ElementInv, HeldApart
<1>4. \A m, n \in B : m = n
  BY <1>0, <1>2 DEF ElementInv, Distinct
<1>5. \A p, q \in C : p = q
  BY <1>0, AloneInside
<1>6. A # {} => B = {} /\ C = {}
  BY <1>0, <1>1, <1>2 DEF ElementInv, HeldApart
<1>7. B # {} => C = {}
  BY <1>0, <1>1, <1>2 DEF ElementInv, Distinct
<1>8. A # {} \/ B # {} \/ C # {}
  <2>1. CASE \E p \in Procs : owns[p] = e
    BY <2>1
  <2>2. CASE \E n \in Full : data[n] = e
    BY <2>2 DEF Full
  <2> QED
    BY <1>0, <2>1, <2>2 DEF ElementInv, Everywhere
<1> HIDE DEF A, B, C
<1>9. ASSUME NEW S, \A x, y \in S : x = y PROVE Cardinality(S) = IF S = {} THEN 0 ELSE 1
  <2>1. CASE S = {}
    BY <2>1, FS_EmptySet
  <2>2. CASE S # {}
    <3>1. PICK x \in S : TRUE
      BY <2>2
    <3>2. S = {x}
      BY <1>9, <3>1
    <3> QED
      BY <2>2, <3>2, FS_Singleton
  <2> QED
    BY <2>1, <2>2
<1>10. Cardinality(A) = (IF A = {} THEN 0 ELSE 1)
  BY <1>3, <1>9
<1>11. Cardinality(B) = (IF B = {} THEN 0 ELSE 1)
  BY <1>4, <1>9
<1>12. Cardinality(C) = (IF C = {} THEN 0 ELSE 1)
  BY <1>5, <1>9
<1>13. Cardinality(A) + Cardinality(B) + Cardinality(C) = 1
  BY <1>6, <1>7, <1>8, <1>10, <1>11, <1>12
<1> QED
  BY <1>13 DEF A, B, C

(* The lists lose no node and no element, whoever calls and however often: *)
(* in particular push_back always finds a node to reuse.                   *)
THEOREM ListConserves == ListSpec => []Conserved
<1>1. PoolInv /\ LockInv => Conserved
  <2> SUFFICES ASSUME PoolInv, LockInv PROVE Conserved
    OBVIOUS
  <2>1. Parted /\ Ended
    BY DEF PoolInv, NodeInv
  <2>2. \A e \in Elements :
          Cardinality({p \in Procs : owns[p] = e})
            + Cardinality({n \in Live : data[n] = e})
            + Cardinality({p \in Procs : at[p] = "popped" /\ data[node[p]] = e}) = 1
    BY CountedOnce
  <2> QED
    BY <2>1, <2>2 DEF Conserved, Parted, Ended, Linked
<1> QED
  BY <1>1, PoolInvariant, ListLocks, LockInvariant, PTL

(* Nor do two callers ever work on the lists at once. *)
THEOREM ListIsExclusive == ListSpec => []MutualExclusion
  BY ListLocks, LockIsExclusive, PTL

----------------------------------------------------------------------------
(* The queue the lock is *)

(* The callers have the places 1 to N, by how many came earlier. *)
LineInv ==
  /\ IsFiniteSet(Callers)
  /\ \A i \in 1 .. Cardinality(Callers) :
       \E p \in Callers : Cardinality(Earlier(p)) = i - 1

Place(p) == Cardinality(Earlier(p)) + 1

LEMMA PlaceRange ==
  ASSUME LockInv, LineInv, NEW p \in Callers
  PROVE  /\ IsFiniteSet(Earlier(p)) /\ Cardinality(Callers) \in Nat
         /\ Cardinality(Earlier(p)) \in Nat
         /\ Place(p) \in 1 .. Cardinality(Callers)
<1>1. Earlier(p) \subseteq Callers \ {p}
  BY DEF Earlier, Callers, LockInv, TypeOK
<1>2. /\ IsFiniteSet(Callers \ {p}) /\ Cardinality(Callers) \in Nat
      /\ Cardinality(Callers \ {p}) = Cardinality(Callers) - 1
  BY FS_RemoveElement, FS_CardinalityType DEF LineInv
<1>3. /\ IsFiniteSet(Earlier(p)) /\ Cardinality(Earlier(p)) \in Nat
      /\ Cardinality(Earlier(p)) <= Cardinality(Callers) - 1
  BY <1>1, <1>2, FS_Subset, FS_CardinalityType
<1> QED
  BY <1>2, <1>3 DEF Place

LEMMA PlacesDiffer ==
  ASSUME LockInv, LineInv, NEW p \in Callers, NEW q \in Callers,
         Cardinality(Earlier(p)) = Cardinality(Earlier(q))
  PROVE  p = q
<1>1. ASSUME NEW a \in Callers, NEW b \in Callers, my[a] < my[b],
             Cardinality(Earlier(a)) = Cardinality(Earlier(b))
      PROVE  FALSE
  <2>1. \A c \in Callers : my[c] \in Nat
    BY DEF Callers, LockInv, TypeOK
  <2>2. Earlier(a) \subseteq Earlier(b) /\ a \in Earlier(b) /\ a \notin Earlier(a)
    BY <1>1, <2>1 DEF Earlier
  <2>3. IsFiniteSet(Earlier(b))
    BY PlaceRange
  <2> QED
    BY <1>1, <2>2, <2>3, FS_Subset
<1>2. ~(my[p] < my[q]) /\ ~(my[q] < my[p])
  BY <1>1
<1>3. my[p] \in Nat /\ my[q] \in Nat
  BY DEF Callers, LockInv, TypeOK
<1> QED
  BY <1>2, <1>3 DEF Callers, LockInv, TicketsUnique

(* Each caller stands in the line where its place is, and nowhere else. *)
LEMMA InLine ==
  ASSUME LockInv, LineInv
  PROVE  /\ Line \in Seq(Callers) /\ Len(Line) = Cardinality(Callers)
         /\ Cardinality(Callers) \in Nat
         /\ \A i \in 1 .. Cardinality(Callers), p \in Callers :
              Line[i] = p <=> Cardinality(Earlier(p)) = i - 1
<1>1. Cardinality(Callers) \in Nat
  BY FS_CardinalityType DEF LineInv
<1>2. \A i \in 1 .. Cardinality(Callers) :
        Line[i] \in Callers /\ Cardinality(Earlier(Line[i])) = i - 1
  <2> SUFFICES ASSUME NEW i \in 1 .. Cardinality(Callers)
               PROVE  Line[i] \in Callers /\ Cardinality(Earlier(Line[i])) = i - 1
    OBVIOUS
  <2>1. \E p \in Callers : Cardinality(Earlier(p)) = i - 1
    BY DEF LineInv
  <2>2. Line[i] = CHOOSE p \in Callers : Cardinality(Earlier(p)) = i - 1
    BY DEF Line
  <2> QED
    BY <2>1, <2>2
<1>3. Line \in Seq(Callers) /\ Len(Line) = Cardinality(Callers)
  <2>1. DOMAIN Line = 1 .. Cardinality(Callers)
    BY DEF Line
  <2>2. Line = [i \in 1 .. Cardinality(Callers) |-> Line[i]]
    BY DEF Line
  <2> HIDE DEF Line
  <2>3. Line \in [1 .. Cardinality(Callers) -> Callers]
    BY <1>2, <2>2
  <2> QED
    BY <1>1, <2>3
<1> QED
  BY <1>1, <1>2, <1>3, PlacesDiffer

LEMMA SameLine ==
  ASSUME \A p \in Callers : my'[p] = my[p], Callers' = Callers
  PROVE  Line' = Line /\ (LineInv => LineInv')
<1>1. \A p \in Callers : Earlier(p)' = Earlier(p)
  BY DEF Earlier
<1> QED
  BY <1>1 DEF Line, LineInv

(* Who stands right is the line. *)
OnlyLine ==
  \A s \in Seq(Callers) :
    (/\ Len(s) = Cardinality(Callers)
     /\ \A i \in 1 .. Len(s) : Cardinality(Earlier(s[i])) = i - 1)
    => Line = s

LEMMA LineIsOnly == LockInv /\ LineInv => OnlyLine
<1> SUFFICES ASSUME LockInv, LineInv, NEW s \in Seq(Callers),
                    Len(s) = Cardinality(Callers),
                    \A i \in 1 .. Len(s) : Cardinality(Earlier(s[i])) = i - 1
             PROVE  Line = s
  BY DEF OnlyLine
<1>1. \A i \in 1 .. Len(s) : s[i] \in Callers
  OBVIOUS
<1>2. /\ Line \in Seq(Callers) /\ Len(Line) = Len(s)
      /\ \A i \in 1 .. Len(s), p \in Callers :
           Line[i] = p <=> Cardinality(Earlier(p)) = i - 1
  BY InLine
<1>3. \A i \in 1 .. Len(s) : Line[i] = s[i]
  BY <1>1, <1>2
<1> HIDE DEF Line
<1> QED
  BY <1>2, <1>3

LEMMA JoinSteps ==
  ASSUME LockInv, LockInv', LineInv, NEW p \in Procs, GrabTicket(p)
  PROVE  LineInv' /\ Fifo!Join(p)
<1>1. /\ pc[p] = "idle" /\ pc' = [pc EXCEPT ![p] = "wait"]
      /\ my' = [my EXCEPT ![p] = ticket]
  BY DEF GrabTicket
<1>2. pc \in [Procs -> {"idle", "wait", "cs"}] /\ my \in [Procs -> Nat] /\ ticket \in Nat
  BY DEF LockInv, TypeOK
<1>3. p \notin Callers /\ Callers' = Callers \cup {p}
  BY <1>1, <1>2 DEF Callers, Active
<1>4. \A q \in Callers : my'[q] = my[q] /\ my[q] < ticket /\ my[q] \in Nat
  BY <1>1, <1>2, <1>3 DEF Callers, LockInv, TicketsUnique
<1>5. my'[p] = ticket
  BY <1>1, <1>2
<1>6. \A q \in Callers : Earlier(q)' = Earlier(q)
  BY <1>2, <1>3, <1>4, <1>5 DEF Earlier
<1>7. Earlier(p)' = Callers
  BY <1>2, <1>3, <1>4, <1>5 DEF Earlier
<1>8. /\ IsFiniteSet(Callers') /\ Cardinality(Callers) \in Nat
      /\ Cardinality(Callers') = Cardinality(Callers) + 1
  BY <1>3, FS_AddElement, FS_CardinalityType DEF LineInv
<1>9. LineInv'
  <2>1. \A i \in 1 .. Cardinality(Callers') :
          \E q \in Callers' : Cardinality(Earlier(q)') = i - 1
    <3> SUFFICES ASSUME NEW i \in 1 .. Cardinality(Callers')
                 PROVE  \E q \in Callers' : Cardinality(Earlier(q)') = i - 1
      OBVIOUS
    <3>1. CASE i = Cardinality(Callers) + 1
      BY <1>3, <1>7, <1>8, <3>1
    <3>2. CASE i # Cardinality(Callers) + 1
      <4>1. i \in 1 .. Cardinality(Callers)
        BY <1>8, <3>2
      <4>2. PICK q \in Callers : Cardinality(Earlier(q)) = i - 1
        BY <4>1 DEF LineInv
      <4> QED
        BY <1>3, <1>6, <4>2
    <3> QED
      BY <3>1, <3>2
  <2> QED
    BY <1>8, <2>1 DEF LineInv
<1>10. /\ Line \in Seq(Callers) /\ Len(Line) = Cardinality(Callers)
       /\ \A i \in 1 .. Cardinality(Callers) : Cardinality(Earlier(Line[i])) = i - 1
  <2>1. /\ Line \in Seq(Callers) /\ Len(Line) = Cardinality(Callers)
        /\ \A i \in 1 .. Cardinality(Callers), q \in Callers :
             Line[i] = q <=> Cardinality(Earlier(q)) = i - 1
    BY InLine
  <2> HIDE DEF Line
  <2>2. \A i \in 1 .. Cardinality(Callers) : Line[i] \in Callers
    BY <2>1
  <2> QED
    BY <2>1, <2>2
<1>11. PICK l : l = Line
  OBVIOUS
<1>12. Line' = Append(l, p)
  <2>1. PICK s : s = Append(l, p)
    OBVIOUS
  <2>2. l \in Seq(Callers) /\ Len(l) = Cardinality(Callers)
    BY <1>10, <1>11
  <2>3. /\ s \in Seq(Callers') /\ Len(s) = Len(l) + 1 /\ s[Len(l) + 1] = p
        /\ \A i \in 1 .. Len(l) : s[i] = l[i] /\ l[i] \in Callers
    BY <1>3, <2>1, <2>2
  <2>4. \A i \in 1 .. Len(s) : Cardinality(Earlier(s[i])') = i - 1
    <3> SUFFICES ASSUME NEW i \in 1 .. Len(s) PROVE Cardinality(Earlier(s[i])') = i - 1
      OBVIOUS
    <3>1. CASE i = Len(l) + 1
      <4>1. Earlier(s[i])' = Callers
        BY <1>7, <2>3, <3>1
      <4> QED
        BY <1>8, <2>2, <3>1, <4>1
    <3>2. CASE i # Len(l) + 1
      <4>1. i \in 1 .. Len(l)
        BY <2>2, <2>3, <3>2
      <4>2. s[i] = l[i] /\ s[i] \in Callers
        BY <2>3, <4>1
      <4>3. Earlier(s[i])' = Earlier(s[i])
        BY <1>6, <4>2
      <4> QED
        BY <1>10, <1>11, <2>2, <4>1, <4>2, <4>3
    <3> QED
      BY <3>1, <3>2
  <2>5. OnlyLine'
    <3>1. (LockInv /\ LineInv => OnlyLine)'
      BY LineIsOnly, PTL
    <3> QED
      BY <1>9, <3>1
  <2>6. Len(s) = Cardinality(Callers')
    BY <1>8, <2>2, <2>3
  <2> HIDE DEF Line, Callers
  <2> QED
    BY <2>1, <2>3, <2>4, <2>5, <2>6 DEF OnlyLine
<1>13. ~Fifo!Waiting(p)
  <2>1. \A i \in DOMAIN l : l[i] \in Callers
    BY <1>10, <1>11
  <2> QED
    BY <1>3, <1>11, <2>1 DEF Fifo!Waiting
<1>14. Held' = Held
  <2>1. \A q \in Procs : pc'[q] = "cs" <=> pc[q] = "cs"
    BY <1>1, <1>2
  <2> QED
    BY <2>1 DEF Held
<1> QED
  BY <1>9, <1>11, <1>12, <1>13, <1>14 DEF Fifo!Join

(* Nobody came before the owner of a turn. *)
LEMMA FirstInLine ==
  ASSUME LockInv, LineInv, NEW p \in Procs, Active(p), IsTurn(my[p])
  PROVE  /\ p \in Callers /\ Line # <<>> /\ Head(Line) = p
         /\ \A q \in Procs : pc[q] = "cs" => q = p
<1>1. p \in Callers
  BY DEF Callers
<1>2. \A q \in Callers : q # p => my[p] < my[q] /\ my[q] \in Nat /\ my[p] \in Nat
  BY OwnerIsFirst DEF Callers, LockInv, TypeOK
<1>3. Earlier(p) = {}
  BY <1>1, <1>2 DEF Earlier, LockInv, TypeOK, Callers
<1>4. Cardinality(Earlier(p)) = 0
  BY <1>3, FS_EmptySet
<1>5. Place(p) = 1 /\ 1 \in 1 .. Cardinality(Callers)
  BY <1>1, <1>4, PlaceRange DEF Place
<1>6. Line[1] = p /\ Line \in Seq(Callers) /\ Len(Line) = Cardinality(Callers)
  BY <1>1, <1>4, <1>5, InLine
<1>7. \A q \in Procs : pc[q] = "cs" => q = p
  <2> SUFFICES ASSUME NEW q \in Procs, pc[q] = "cs", q # p PROVE FALSE
    OBVIOUS
  <2>1. Active(q) /\ IsTurn(my[q])
    BY DEF LockInv, OwnersTurn, Active
  <2>2. my[p] < my[q] /\ my[q] < my[p]
    BY <2>1, OwnerIsFirst
  <2> QED
    BY <2>2 DEF LockInv, TypeOK
<1> HIDE DEF Line
<1> QED
  BY <1>1, <1>5, <1>6, <1>7

LEMMA EnterSteps ==
  ASSUME LockInv, LineInv, NEW p \in Procs, TakeTurn(p)
  PROVE  LineInv' /\ Fifo!Enter(p)
<1>1. /\ pc[p] = "wait" /\ IsTurn(my[p]) /\ pc' = [pc EXCEPT ![p] = "cs"] /\ my' = my
      /\ pc \in [Procs -> {"idle", "wait", "cs"}]
  BY DEF TakeTurn, LockInv, TypeOK
<1>2. Callers' = Callers
  BY <1>1 DEF Callers, Active
<1>3. Line' = Line /\ LineInv'
  BY <1>1, <1>2, SameLine
<1>4. /\ Line # <<>> /\ Head(Line) = p
      /\ \A q \in Procs : pc[q] = "cs" => q = p
  BY <1>1, FirstInLine DEF Active
<1>5. ~Held /\ Held'
  BY <1>1, <1>4 DEF Held
<1> QED
  BY <1>3, <1>4, <1>5 DEF Fifo!Enter

LEMMA LeaveSteps ==
  ASSUME LockInv, LockInv', LineInv, NEW p \in Procs, SignalNext(p)
  PROVE  LineInv' /\ Fifo!Leave(p)
<1>1. /\ pc[p] = "cs" /\ pc' = [pc EXCEPT ![p] = "idle"] /\ my' = my
      /\ pc \in [Procs -> {"idle", "wait", "cs"}] /\ my \in [Procs -> Nat]
  BY DEF SignalNext, LockInv, TypeOK
<1>2. /\ p \in Callers /\ Line # <<>> /\ Head(Line) = p
      /\ \A q \in Procs : pc[q] = "cs" => q = p
  BY <1>1, FirstInLine DEF LockInv, OwnersTurn, Active
<1>3. Callers' = Callers \ {p}
  BY <1>1 DEF Callers, Active
<1>4. \A q \in Callers \ {p} : my[p] < my[q]
  BY <1>1, OwnerIsFirst DEF LockInv, OwnersTurn, Callers, Active
<1>5. \A q \in Callers \ {p} : Cardinality(Earlier(q)') = Cardinality(Earlier(q)) - 1
  <2> SUFFICES ASSUME NEW q \in Callers \ {p}
               PROVE  Cardinality(Earlier(q)') = Cardinality(Earlier(q)) - 1
    OBVIOUS
  <2>1. Earlier(q)' = Earlier(q) \ {p} /\ p \in Earlier(q)
    BY <1>1, <1>2, <1>3, <1>4 DEF Earlier
  <2> QED
    BY <2>1, PlaceRange, FS_RemoveElement
<1>6. /\ IsFiniteSet(Callers') /\ Cardinality(Callers) \in Nat
      /\ Cardinality(Callers') = Cardinality(Callers) - 1
  BY <1>2, <1>3, FS_RemoveElement, FS_CardinalityType DEF LineInv
<1>7. PICK l : l = Line
  OBVIOUS
<1>8. /\ l \in Seq(Callers) /\ Len(l) = Cardinality(Callers) /\ l[1] = p /\ Len(l) > 0
      /\ \A i \in 1 .. Len(l), q \in Callers : l[i] = q <=> Cardinality(Earlier(q)) = i - 1
  <2>1. /\ Line \in Seq(Callers) /\ Len(Line) = Cardinality(Callers)
        /\ \A i \in 1 .. Cardinality(Callers), q \in Callers :
             Line[i] = q <=> Cardinality(Earlier(q)) = i - 1
    BY InLine
  <2> HIDE DEF Line
  <2> QED
    BY <1>2, <1>7, <2>1
<1>9. PICK s : s = Tail(l)
  OBVIOUS
<1>10. /\ Len(s) = Len(l) - 1
       /\ \A i \in 1 .. Len(s) : s[i] = l[i + 1] /\ i + 1 \in 1 .. Len(l)
  BY <1>8, <1>9
<1>11. \A i \in 1 .. Len(s) : s[i] \in Callers \ {p} /\ Cardinality(Earlier(s[i])') = i - 1
  <2> SUFFICES ASSUME NEW i \in 1 .. Len(s)
               PROVE  s[i] \in Callers \ {p} /\ Cardinality(Earlier(s[i])') = i - 1
    OBVIOUS
  <2>1. i \in Nat /\ i # 0 /\ i + 1 \in 1 .. Len(l) /\ 1 \in 1 .. Len(l)
    BY <1>8, <1>10
  <2>2. s[i] = l[i + 1] /\ l[i + 1] \in Callers
    BY <1>8, <1>10, <2>1
  <2>3. Cardinality(Earlier(s[i])) = i
    BY <1>8, <2>1, <2>2
  <2>4. s[i] # p
    BY <1>2, <1>8, <2>1, <2>3
  <2> QED
    BY <1>5, <2>1, <2>2, <2>3, <2>4
<1>12. s \in Seq(Callers')
  <2>1. s \in Seq(Callers)
    BY <1>8, <1>9
  <2> QED
    BY <1>3, <1>11, <2>1
<1>13. LineInv'
  <2>1. Len(s) = Cardinality(Callers')
    BY <1>6, <1>8, <1>10
  <2>2. \A i \in 1 .. Cardinality(Callers') :
          \E q \in Callers' : Cardinality(Earlier(q)') = i - 1
    BY <1>3, <1>11, <2>1
  <2> QED
    BY <1>6, <2>2 DEF LineInv
<1>14. Line' = s
  <2>1. OnlyLine'
    <3>1. (LockInv /\ LineInv => OnlyLine)'
      BY LineIsOnly, PTL
    <3> QED
      BY <1>13, <3>1
  <2>2. Len(s) = Cardinality(Callers')
    BY <1>6, <1>8, <1>10
  <2> HIDE DEF Line, Callers
  <2> QED
    BY <1>11, <1>12, <2>1, <2>2 DEF OnlyLine
<1>15. Held /\ ~Held'
  BY <1>1, <1>2 DEF Held
<1> QED
  BY <1>2, <1>7, <1>9, <1>13, <1>14, <1>15 DEF Fifo!Leave

LockQueue == Fifo!vars

(* The lock implements FifoLock: drawing a ticket is joining the line, and *)
(* whoever finds its ticket on its channel is the head of it.              *)
THEOREM LockIsQueue == Spec => Fifo!Init /\ [][Fifo!Next]_LockQueue
<1>1. Init => LineInv /\ Fifo!Init
  <2> SUFFICES ASSUME Init PROVE LineInv /\ Fifo!Init
    OBVIOUS
  <2>1. Callers = {}
    BY DEF Init, Callers, Active
  <2>2. IsFiniteSet(Callers) /\ Cardinality(Callers) = 0
    BY <2>1, FS_EmptySet
  <2>3. Line = <<>>
    BY <2>2 DEF Line
  <2>4. ~Held
    BY DEF Init, Held
  <2> QED
    BY <2>2, <2>3, <2>4 DEF LineInv, Fifo!Init
<1>2. LockInv /\ LockInv' /\ LineInv /\ [Next \/ Finished]_vars
        => LineInv' /\ [Fifo!Next]_LockQueue
  <2> SUFFICES ASSUME LockInv, LockInv', LineInv, [Next \/ Finished]_vars
               PROVE  LineInv' /\ [Fifo!Next]_LockQueue
    OBVIOUS
  <2>1. ASSUME NEW p \in Procs, GrabTicket(p) \/ TakeTurn(p) \/ SignalNext(p)
        PROVE  LineInv' /\ [Fifo!Next]_LockQueue
    BY <2>1, JoinSteps, EnterSteps, LeaveSteps DEF Fifo!Next
  <2>2. CASE UNCHANGED vars
    <3>1. Callers' = Callers /\ Held' = Held /\ my' = my
      BY <2>2 DEF vars, Callers, Active, Held
    <3>2. Line' = Line /\ LineInv'
      BY <3>1, SameLine
    <3> QED
      BY <3>1, <3>2 DEF LockQueue, Fifo!vars
  <2> QED
    BY <2>1, <2>2 DEF Next, Finished
<1> QED
  BY <1>1, <1>2, LockInvariant, PTL DEF Spec

----------------------------------------------------------------------------
(***************************************************************************)
(* outstanding[c] is the number of MPI requests of context c in flight,    *)
(* for any number of PEs, threads and contexts and whatever they issue:    *)
(* quiet and barrier end on the count, so they end neither while a request *)
(* is in flight nor never.  The argument: the requests of a command enter  *)
(* the vector under stamps nobody has used, so they are as many as the     *)
(* counter is raised by.                                                   *)
(***************************************************************************)
(* Finitely many requests are in flight, none stamped later than the last. *)
Stamped ==
  \A p \in PEs :
    /\ IsFiniteSet(requests[p])
    /\ \A r \in requests[p] : r.at <= stamp[p]

TransportInv == TransportTypeOK /\ Stamped /\ OutstandingCounts

(* Short and constant sequences are sequences. *)
LEMMA SmallSequences ==
  ASSUME NEW S, NEW e \in S, NEW f \in S, NEW n \in Nat
  PROVE  /\ <<>> \in Seq(S) /\ <<e>> \in Seq(S) /\ <<e, f>> \in Seq(S)
         /\ [i \in 1 .. n |-> e] \in Seq(S)
  OBVIOUS

(* Every command posts a sequence of requests. *)
LEMMA PostsAreRequests ==
  ASSUME NEW type, NEW k \in Nat
  PROVE  Posts(type, k) \in Seq([blocking : BOOLEAN, coll : Nat])
<1> DEFINE Rq == [blocking : BOOLEAN, coll : Nat]
<1>1. \A b \in BOOLEAN, n \in Nat : Request(b, n) \in Rq
  BY DEF Request
<1>2. Cardinality(PEs) \in Nat
  BY FS_CardinalityType, TransportAssumption
<1>3. /\ Request(TRUE, 0) \in Rq /\ Request(FALSE, 0) \in Rq
      /\ Request(TRUE, k) \in Rq /\ Request(FALSE, k) \in Rq
  BY <1>1
<1> HIDE DEF Rq
<1>4. /\ <<>> \in Seq(Rq) /\ <<Request(TRUE, 0)>> \in Seq(Rq)
      /\ <<Request(FALSE, 0), Request(FALSE, k)>> \in Seq(Rq)
      /\ [i \in 1 .. Cardinality(PEs) |-> Request(FALSE, 0)] \in Seq(Rq)
  BY <1>2, <1>3, SmallSequences
<1>5. <<Request(FALSE, 0)>> \in Seq(Rq) /\ <<Request(FALSE, k)>> \in Seq(Rq)
      /\ <<Request(TRUE, k)>> \in Seq(Rq)
  BY <1>3, SmallSequences
<1> QED
  BY <1>4, <1>5, Zenon DEF Posts, Rq

(* The requests of a command: typed, of its context, under fresh stamps, *)
(* and as many as the stamps they use up. *)
LEMMA NewRequestsShape ==
  ASSUME TransportTypeOK, NEW p \in PEs, NEW cmd \in Commands
  PROVE  /\ NewRequests(p, cmd) \subseteq Requests
         /\ IsFiniteSet(NewRequests(p, cmd))
         /\ Cardinality(NewRequests(p, cmd)) \in Nat
         /\ \A r \in NewRequests(p, cmd) :
              /\ r.ctx = CtxOf[cmd[1]]
              /\ r.at > stamp[p]
              /\ r.at <= stamp[p] + Cardinality(NewRequests(p, cmd))
<1> DEFINE Rq == [blocking : BOOLEAN, coll : Nat]
           posts == Posts(TypeOf(p, cmd), posted[p] + 1)
           n == Len(posts)
           rec(i) == [at |-> stamp[p] + i, cmd |-> cmd, ctx |-> CtxOf[cmd[1]],
                      blocking |-> posts[i].blocking, coll |-> posts[i].coll]
           f == [i \in 1 .. n |-> rec(i)]
           new == NewRequests(p, cmd)
<1>1. posted[p] + 1 \in Nat /\ stamp[p] \in Nat
  BY DEF TransportTypeOK
<1>2. posts \in Seq(Rq)
  BY <1>1, PostsAreRequests
<1> HIDE DEF posts, Rq
<1>3. n \in Nat /\ DOMAIN posts = 1 .. n
  BY <1>2
<1>4. \A i \in 1 .. n : posts[i] \in Rq
  BY <1>2
<1>5. CtxOf[cmd[1]] \in Ctxs
  BY TransportAssumption DEF Commands
<1>6. new = {rec(i) : i \in 1 .. n}
  BY <1>3 DEF NewRequests, posts
<1> HIDE DEF n, new
<1>7. \A i \in 1 .. n : rec(i) \in Requests
  BY <1>1, <1>3, <1>4, <1>5 DEF Requests, Rq
<1>8. new \subseteq Requests
  BY <1>6, <1>7
<1>9. f \in Bijection(1 .. n, new)
  <2>1. f \in [1 .. n -> new]
    BY <1>6
  <2>2. \A i, j \in 1 .. n : f[i] = f[j] => i = j
    <3>1. SUFFICES ASSUME NEW i \in 1 .. n, NEW j \in 1 .. n, f[i] = f[j]
                   PROVE  i = j
      OBVIOUS
    <3>2. rec(i).at = rec(j).at
      BY <3>1
    <3> QED
      BY <3>2, <1>1, <1>3
  <2>3. \A r \in new : \E i \in 1 .. n : f[i] = r
    BY <1>6
  <2> QED
    BY <2>1, <2>2, <2>3 DEF Bijection, Injection, Surjection, IsInjective
<1>10. Cardinality(new) = n /\ IsFiniteSet(new)
  <2>1. ExistsBijection(1 .. n, new)
    BY <1>9 DEF ExistsBijection
  <2>2. IsFiniteSet(1 .. n)
    BY <1>3, FS_Interval
  <2> QED
    BY <2>1, <2>2, <1>3, FS_Bijection, FS_CountingElements
<1>11. \A r \in new : r.ctx = CtxOf[cmd[1]] /\ r.at > stamp[p] /\ r.at <= stamp[p] + n
  BY <1>6, <1>1, <1>3
<1> QED
  BY <1>3, <1>8, <1>10, <1>11 DEF new

(* Put changes one entry of a function on PEs. *)
LEMMA PutEntry ==
  ASSUME NEW T, NEW S, NEW f \in [PEs -> [T -> S]],
         NEW p \in PEs, NEW c \in T, NEW v \in S
  PROVE  /\ Put(f, p, c, v) \in [PEs -> [T -> S]]
         /\ \A r \in PEs, d \in T :
              Put(f, p, c, v)[r][d] = IF r = p /\ d = c THEN v ELSE f[r][d]
  BY DEF Put

(* Nothing is in flight at the start. *)
LEMMA InitTransport == TransportInit => TransportInv
<1> SUFFICES ASSUME TransportInit PROVE TransportInv
  OBVIOUS
<1>1. TransportTypeOK
  BY TransportAssumption DEF TransportInit, TransportTypeOK
<1>2. \A p \in PEs, c \in Ctxs : OfCtx(requests[p], c) = {}
  BY DEF TransportInit, OfCtx
<1>3. \A p \in PEs : requests[p] = {} /\ \A c \in Ctxs : outstanding[p][c] = 0
  BY DEF TransportInit
<1> QED
  BY <1>1, <1>2, <1>3, FS_EmptySet DEF TransportInv, Stamped, OutstandingCounts

(* A call and its return touch no request and no count. *)
LEMMA CallStep ==
  ASSUME TransportInv, NEW p \in PEs, NEW t \in Threads,
         InsertRequest(p, t) \/ Return(p, t)
  PROVE  TransportInv'
<1> USE DEF TransportInv
<1>1. UNCHANGED <<program, mpi>>
  BY DEF InsertRequest, Return
<1>2. Stamped' /\ OutstandingCounts'
  BY <1>1 DEF mpi, Stamped, OutstandingCounts, OfCtx
<1>3. CASE InsertRequest(p, t)
  <2> DEFINE n == pos[p][t] + 1
  <2>1. n \in Nat \ {0} /\ n \in Nat /\ <<t, n>> \in Commands
    BY DEF TransportTypeOK, Commands
  <2>2. pos' = Put(pos, p, t, n) /\ queue' = [queue EXCEPT ![p] = Append(queue[p], <<t, n>>)]
    BY <1>3 DEF InsertRequest
  <2> HIDE DEF n
  <2>3. pos' \in [PEs -> [Threads -> Nat]]
    BY <2>1, <2>2, PutEntry DEF TransportTypeOK
  <2>4. queue' \in [PEs -> Seq(Commands)]
    BY <2>1, <2>2 DEF TransportTypeOK
  <2>5. state' \in [PEs -> [Threads -> {"run", "blocked"}]]
    BY <1>3, PutEntry DEF TransportTypeOK, InsertRequest
  <2>6. flag' = flag
    BY <1>3 DEF InsertRequest
  <2> QED
    BY <1>1, <1>2, <2>3, <2>4, <2>5, <2>6 DEF TransportTypeOK, mpi
<1>4. CASE Return(p, t)
  <2>1. flag' \in [PEs -> [Threads -> 0 .. 1]]
    <3>1. 0 \in 0 .. 1 /\ flag \in [PEs -> [Threads -> 0 .. 1]]
      BY DEF TransportTypeOK
    <3> QED
      BY <1>4, <3>1, PutEntry DEF Return
  <2>2. state' \in [PEs -> [Threads -> {"run", "blocked"}]]
    BY <1>4, PutEntry DEF TransportTypeOK, Return
  <2>3. pos' = pos /\ queue' = queue
    BY <1>4 DEF Return
  <2> QED
    BY <1>1, <1>2, <2>1, <2>2, <2>3 DEF TransportTypeOK, mpi
<1> QED
  BY <1>3, <1>4

(* Submitting a command raises the count by the requests it pushes. *)
LEMMA SubmitStep ==
  ASSUME TransportInv, NEW p \in PEs, Submit(p)
  PROVE  TransportInv'
<1> DEFINE cmd == Head(queue[p])
           t == cmd[1]
           c == CtxOf[t]
           new == NewRequests(p, cmd)
<1>1. queue \in [PEs -> Seq(Commands)] /\ queue[p] # <<>>
  BY DEF TransportInv, TransportTypeOK, Submit
<1>2. cmd \in Commands /\ Tail(queue[p]) \in Seq(Commands)
  BY <1>1
<1>3. t \in Threads /\ c \in Ctxs
  BY <1>2, TransportAssumption DEF Commands
<1>4. /\ new \subseteq Requests /\ IsFiniteSet(new) /\ Cardinality(new) \in Nat
      /\ \A r \in new : /\ r.ctx = c /\ r.at > stamp[p]
                         /\ r.at <= stamp[p] + Cardinality(new)
  BY <1>2, NewRequestsShape DEF TransportInv
<1>5. /\ requests' = [requests EXCEPT ![p] = requests[p] \cup new]
      /\ stamp' = [stamp EXCEPT ![p] = stamp[p] + Cardinality(new)]
      /\ outstanding' = Put(outstanding, p, c, outstanding[p][c] + Cardinality(new))
      /\ waitingQuiet' \in {waitingQuiet, Put(waitingQuiet, p, c, waitingQuiet[p][c] \cup {cmd})}
      /\ flag' \in {flag, Put(flag, p, t, 1)}
      /\ posted' \in {posted, [posted EXCEPT ![p] = posted[p] + 1]}
      /\ queue' = [queue EXCEPT ![p] = Tail(queue[p])]
      /\ UNCHANGED <<program, pos, state>>
  BY DEF Submit, Counted
<1> HIDE DEF cmd, t, c, new
<1>6. /\ requests \in [PEs -> SUBSET Requests] /\ stamp \in [PEs -> Nat]
      /\ outstanding \in [PEs -> [Ctxs -> Nat]]
      /\ waitingQuiet \in [PEs -> [Ctxs -> SUBSET Commands]]
      /\ flag \in [PEs -> [Threads -> 0 .. 1]] /\ posted \in [PEs -> Nat]
  BY DEF TransportInv, TransportTypeOK
<1>7. TransportTypeOK'
  <2>1. requests' \in [PEs -> SUBSET Requests]
    BY <1>4, <1>5, <1>6
  <2>2. stamp' \in [PEs -> Nat] /\ posted' \in [PEs -> Nat]
    BY <1>4, <1>5, <1>6
  <2>3. outstanding' \in [PEs -> [Ctxs -> Nat]]
    <3>1. outstanding[p][c] + Cardinality(new) \in Nat
      BY <1>3, <1>4, <1>6
    <3> QED
      BY <1>3, <1>5, <1>6, <3>1, PutEntry
  <2>4. waitingQuiet' \in [PEs -> [Ctxs -> SUBSET Commands]]
    <3> DEFINE v == waitingQuiet[p][c] \cup {cmd}
    <3>1. v \in SUBSET Commands /\ c \in Ctxs
      BY <1>2, <1>3, <1>6
    <3> HIDE DEF v
    <3>2. Put(waitingQuiet, p, c, v) \in [PEs -> [Ctxs -> SUBSET Commands]]
      BY <1>6, <3>1, PutEntry, Zenon
    <3> QED
      BY <1>5, <1>6, <3>2 DEF v
  <2>5. flag' \in [PEs -> [Threads -> 0 .. 1]]
    <3>1. 1 \in 0 .. 1
      OBVIOUS
    <3>2. Put(flag, p, t, 1) \in [PEs -> [Threads -> 0 .. 1]]
      BY <1>3, <1>6, <3>1, PutEntry
    <3> QED
      BY <1>5, <1>6, <3>2
  <2>6. queue' \in [PEs -> Seq(Commands)]
    BY <1>1, <1>2, <1>5
  <2> QED
    BY <1>5, <2>1, <2>2, <2>3, <2>4, <2>5, <2>6 DEF TransportInv, TransportTypeOK
<1>8. Stamped'
  <2> SUFFICES ASSUME NEW r \in PEs
               PROVE  IsFiniteSet(requests'[r]) /\ \A x \in requests'[r] : x.at <= stamp'[r]
    BY DEF Stamped
  <2>1. IsFiniteSet(requests[r]) /\ \A x \in requests[r] : x.at <= stamp[r]
    BY DEF TransportInv, Stamped
  <2>2. CASE r # p
    BY <1>5, <1>6, <2>1, <2>2
  <2>3. CASE r = p
    <3>1. requests'[r] = requests[p] \cup new /\ stamp'[r] = stamp[p] + Cardinality(new)
      BY <1>5, <1>6, <2>3
    <3>2. IsFiniteSet(requests[p] \cup new)
      BY <1>4, <2>1, <2>3, FS_Union
    <3>3. \A x \in requests[p] : x.at \in Nat /\ stamp[p] \in Nat
      BY <1>6 DEF Requests
    <3>4. \A x \in requests[p] : x.at <= stamp[p] + Cardinality(new)
      BY <1>4, <2>1, <2>3, <3>3
    <3> QED
      BY <1>4, <3>1, <3>2, <3>4
  <2> QED
    BY <2>2, <2>3
<1>9. OutstandingCounts'
  <2> SUFFICES ASSUME NEW r \in PEs, NEW d \in Ctxs
               PROVE  outstanding'[r][d] = Cardinality(OfCtx(requests'[r], d))
    BY DEF OutstandingCounts, OfCtx
  <2>1. outstanding[r][d] = Cardinality(OfCtx(requests[r], d))
    BY DEF TransportInv, OutstandingCounts
  <2>2. outstanding[p][c] + Cardinality(new) \in Nat
    BY <1>3, <1>4, <1>6
  <2>3. outstanding'[r][d] = IF r = p /\ d = c
          THEN outstanding[p][c] + Cardinality(new) ELSE outstanding[r][d]
    <3> DEFINE v == outstanding[p][c] + Cardinality(new)
    <3>1. v \in Nat /\ c \in Ctxs /\ outstanding \in [PEs -> [Ctxs -> Nat]]
          /\ outstanding' = Put(outstanding, p, c, v)
      BY <1>3, <1>5, <1>6, <2>2
    <3> HIDE DEF v
    <3>2. Put(outstanding, p, c, v)[r][d] = IF r = p /\ d = c THEN v ELSE outstanding[r][d]
      BY <3>1 DEF Put
    <3> QED
      BY <3>1, <3>2 DEF v
  <2>4. CASE r # p
    BY <1>5, <1>6, <2>1, <2>3, <2>4
  <2>5. CASE r = p /\ d # c
    <3>1. OfCtx(requests'[r], d) = OfCtx(requests[r], d)
      BY <1>4, <1>5, <1>6, <2>5 DEF OfCtx
    <3> QED
      BY <2>1, <2>3, <2>5, <3>1
  <2>6. CASE r = p /\ d = c
    <3>1. OfCtx(requests'[r], d) = OfCtx(requests[r], d) \cup new
      BY <1>4, <1>5, <1>6, <2>6 DEF OfCtx
    <3>2. IsFiniteSet(OfCtx(requests[r], d))
      BY FS_Subset DEF TransportInv, Stamped, OfCtx
    <3>3. OfCtx(requests[r], d) \cap new = {}
      <4> SUFFICES ASSUME NEW x \in requests[p], x \in new PROVE FALSE
        BY <2>6 DEF OfCtx
      <4>1. x.at <= stamp[p] /\ x.at > stamp[p]
        BY <1>4 DEF TransportInv, Stamped
      <4>2. x.at \in Nat /\ stamp[p] \in Nat
        BY <1>6 DEF Requests
      <4> QED
        BY <4>1, <4>2
    <3>4. Cardinality(OfCtx(requests[r], d) \cup new)
            = Cardinality(OfCtx(requests[r], d)) + Cardinality(new)
      <4> DEFINE old == OfCtx(requests[r], d)
      <4>1. IsFiniteSet(old) /\ old \cap new = {}
        BY <3>2, <3>3
      <4> HIDE DEF old
      <4>2. Cardinality(old \cup new)
              = Cardinality(old) + Cardinality(new) - Cardinality(old \cap new)
        BY <1>4, <4>1, FS_Union
      <4>3. Cardinality(old \cap new) = 0 /\ Cardinality(old) \in Nat
        BY <4>1, FS_EmptySet, FS_CardinalityType
      <4>4. Cardinality(old \cup new) = Cardinality(old) + Cardinality(new)
        BY <1>4, <4>2, <4>3
      <4> QED
        BY <4>4 DEF old
    <3> QED
      BY <2>1, <2>3, <2>6, <3>1, <3>4
  <2> QED
    BY <2>4, <2>5, <2>6
<1> QED
  BY <1>7, <1>8, <1>9 DEF TransportInv

(* A pass of progress takes the completed requests off both. *)
LEMMA ProgressStep ==
  ASSUME TransportInv, NEW p \in PEs, NEW done \in SUBSET Testable(p),
         Progress(p, done)
  PROVE  TransportInv'
<1>1. /\ outstanding' = [outstanding EXCEPT ![p] = [c \in Ctxs |-> Left(p, c, done)]]
      /\ flag' = [flag EXCEPT ![p] =
           [t \in Threads |-> IF t \in Notified(p, done) THEN 1 ELSE flag[p][t]]]
      /\ waitingQuiet' = [waitingQuiet EXCEPT ![p] = Waiting(p, done)]
      /\ requests' = [requests EXCEPT ![p] = requests[p] \ done]
      /\ UNCHANGED <<program, pos, state, queue, stamp, posted>>
  BY DEF Progress
<1>2. done \subseteq requests[p]
  BY DEF Testable
<1>3. /\ requests \in [PEs -> SUBSET Requests] /\ stamp \in [PEs -> Nat]
      /\ outstanding \in [PEs -> [Ctxs -> Nat]]
      /\ waitingQuiet \in [PEs -> [Ctxs -> SUBSET Commands]]
      /\ flag \in [PEs -> [Threads -> 0 .. 1]]
  BY DEF TransportInv, TransportTypeOK
<1>4. \A r \in PEs : IsFiniteSet(requests[r]) /\ \A x \in requests[r] : x.at <= stamp[r]
  BY DEF TransportInv, Stamped
<1>5. \A c \in Ctxs :
        /\ Left(p, c, done) = Cardinality(OfCtx(requests[p] \ done, c))
        /\ Left(p, c, done) \in Nat
  <2> TAKE c \in Ctxs
  <2> DEFINE all == OfCtx(requests[p], c)
             dn == OfCtx(done, c)
             left == OfCtx(requests[p] \ done, c)
  <2>1. dn \subseteq all /\ left = all \ dn /\ all \cap dn = dn
    BY <1>2 DEF OfCtx
  <2>2. IsFiniteSet(all)
    BY <1>4, FS_Subset DEF OfCtx
  <2>3. outstanding[p][c] = Cardinality(all)
    BY DEF TransportInv, OutstandingCounts
  <2>4. Left(p, c, done) = Cardinality(all) - Cardinality(dn)
    BY <2>3 DEF Left
  <2> HIDE DEF all, dn, left
  <2>5. IsFiniteSet(left) /\ Cardinality(left) = Cardinality(all) - Cardinality(dn)
    <3>1. /\ IsFiniteSet(all \ dn)
          /\ Cardinality(all \ dn) = Cardinality(all) - Cardinality(all \cap dn)
      BY <2>2, FS_Difference
    <3> QED
      BY <2>1, <3>1
  <2>6. Cardinality(left) \in Nat
    BY <2>5, FS_CardinalityType
  <2> QED
    BY <2>4, <2>5, <2>6 DEF left
<1>6. TransportTypeOK'
  <2>1. outstanding' \in [PEs -> [Ctxs -> Nat]]
    BY <1>1, <1>3, <1>5
  <2>2. waitingQuiet' \in [PEs -> [Ctxs -> SUBSET Commands]]
    <3>1. Waiting(p, done) \in [Ctxs -> SUBSET Commands]
      BY <1>3 DEF Waiting
    <3> QED
      BY <1>1, <1>3, <3>1
  <2>3. flag' \in [PEs -> [Threads -> 0 .. 1]]
    BY <1>1, <1>3
  <2>4. requests' \in [PEs -> SUBSET Requests]
    BY <1>1, <1>3
  <2> QED
    BY <1>1, <2>1, <2>2, <2>3, <2>4 DEF TransportInv, TransportTypeOK
<1>7. Stamped'
  <2>1. \A r \in PEs : requests'[r] \subseteq requests[r]
    BY <1>1, <1>3
  <2>2. \A r \in PEs : IsFiniteSet(requests'[r])
    BY <1>4, <2>1, FS_Subset
  <2> QED
    BY <1>1, <1>4, <2>1, <2>2 DEF Stamped
<1>8. OutstandingCounts'
  <2> SUFFICES ASSUME NEW r \in PEs, NEW c \in Ctxs
               PROVE  outstanding'[r][c] = Cardinality(OfCtx(requests'[r], c))
    BY DEF OutstandingCounts, OfCtx
  <2>1. CASE r = p
    BY <1>1, <1>3, <1>5, <2>1
  <2>2. CASE r # p
    BY <1>1, <1>3, <2>2 DEF TransportInv, OutstandingCounts
  <2> QED
    BY <2>1, <2>2
<1> QED
  BY <1>6, <1>7, <1>8 DEF TransportInv

(* Types, fresh stamps and exact counts hold together in every state. *)
THEOREM TransportInvariant == TransportSpec => []TransportInv
<1>1. TransportInv /\ [TransportNext \/ TransportFinished]_transportVars => TransportInv'
  <2> SUFFICES ASSUME TransportInv, [TransportNext \/ TransportFinished]_transportVars PROVE TransportInv'
    OBVIOUS
  <2>1. CASE UNCHANGED transportVars
    BY <2>1 DEF transportVars, TransportInv, TransportTypeOK, Stamped, OutstandingCounts, OfCtx, TypeOf
  <2>2. ASSUME NEW p \in PEs, NEW t \in Threads,
               InsertRequest(p, t) \/ Return(p, t) \/ Poll(p, t)
        PROVE  TransportInv'
    BY <2>1, <2>2, CallStep DEF Poll
  <2>3. ASSUME NEW p \in PEs, Submit(p) PROVE TransportInv'
    BY <2>3, SubmitStep
  <2>4. ASSUME NEW p \in PEs, NEW done \in SUBSET Testable(p), Progress(p, done)
        PROVE  TransportInv'
    BY <2>4, ProgressStep
  <2> QED
    BY <2>1, <2>2, <2>3, <2>4 DEF TransportNext, TransportFinished
<1> QED
  BY <1>1, InitTransport, PTL DEF TransportSpec

(* Every variable keeps its type: the count, which progress only ever *)
(* decrements, never goes below zero. *)
THEOREM TransportTypes == TransportSpec => []TransportTypeOK
<1>1. TransportInv => TransportTypeOK
  BY DEF TransportInv
<1> QED
  BY <1>1, TransportInvariant, PTL

(* The count that quiet and barrier end on is the number of requests of the *)
(* context in flight (mpi_transport.cpp:657-669 and 681-689). *)
THEOREM CountsAreExact == TransportSpec => []OutstandingCounts
<1>1. TransportInv => OutstandingCounts
  BY DEF TransportInv
<1> QED
  BY <1>1, TransportInvariant, PTL

----------------------------------------------------------------------------
(* No call returns early: a status flag answers the call its thread is in, *)
(* which is over, and a quiet or a barrier answers only when every earlier *)
(* command of its thread is.  The argument: a thread has at most one       *)
(* command that blocks it, the last it issued; the commands of a thread    *)
(* leave the queue in the order of issue, so that what the transport holds *)
(* of a thread is older than what is still queued; and a quiet ends on a   *)
(* count of zero, which is exact.                                          *)
(* The commands the progress thread has taken from the queue. *)
Taken(p) ==
  {r.cmd : r \in requests[p]} \cup UNION {waitingQuiet[p][c] : c \in Ctxs}

Issued(p) == \A cmd \in Pending(p) : cmd[2] <= pos[p][cmd[1]]

(* Per thread, the queue is in the order of issue and newer than the rest. *)
Ordered(p) ==
  /\ \A i, j \in DOMAIN queue[p] :
       i < j /\ queue[p][i][1] = queue[p][j][1] => queue[p][i][2] < queue[p][j][2]
  /\ \A cmd \in Taken(p), j \in DOMAIN queue[p] :
       cmd[1] = queue[p][j][1] => cmd[2] < queue[p][j][2]

(* The commands whose one request notifies the caller. *)
Notifying == {"PUT", "GET", "SYNC", "REDUCE"}

InFlight(p) ==
  \A r \in requests[p] :
    /\ r.ctx = CtxOf[r.cmd[1]]
    /\ r.blocking => /\ TypeOf(p, r.cmd) \in Notifying
                     /\ \A s \in requests[p] : s.cmd = r.cmd => s = r

InQuiet(p) ==
  \A c \in Ctxs : \A cmd \in waitingQuiet[p][c] :
    CtxOf[cmd[1]] = c /\ TypeOf(p, cmd) \in Quieting

(* A flag is raised for a blocked thread only; a command that blocks its *)
(* caller and is not over is the one its caller waits for, unanswered. *)
Blocked(p) ==
  /\ \A t \in Threads :
       /\ flag[p][t] = 1 => state[p][t] = "blocked"
       /\ state[p][t] = "blocked" => TypeOf(p, Current(p, t)) \notin Nonblocking
  /\ \A cmd \in Pending(p) :
       TypeOf(p, cmd) \notin Nonblocking =>
         /\ cmd = Current(p, cmd[1])
         /\ state[p][cmd[1]] = "blocked" /\ flag[p][cmd[1]] = 0

QuietDone(p) ==
  \A t \in Threads :
    Notifies(p, t, Quieting) =>
      \A n \in 1 .. pos[p][t] : <<t, n>> \notin Pending(p)

Calls(p) ==
  /\ Issued(p) /\ Ordered(p) /\ InFlight(p) /\ InQuiet(p) /\ Blocked(p)
  /\ QuietDone(p)

CallInv == TransportInv /\ \A p \in PEs : Calls(p)

(* Both properties follow. *)
LEMMA CallInvImplies == CallInv => OwnCallOver /\ QuietCompletes
<1> SUFFICES ASSUME CallInv PROVE OwnCallOver /\ QuietCompletes
  OBVIOUS
<1>1. QuietCompletes
  BY DEF CallInv, Calls, QuietDone, QuietCompletes
<1>2. OwnCallOver
  <2> SUFFICES ASSUME NEW p \in PEs, NEW t \in Threads, flag[p][t] = 1
               PROVE  state[p][t] = "blocked" /\ Current(p, t) \notin Pending(p)
    BY DEF OwnCallOver
  <2>1. Blocked(p)
    BY DEF CallInv, Calls
  <2>2. state[p][t] = "blocked" /\ TypeOf(p, Current(p, t)) \notin Nonblocking
    BY <2>1 DEF Blocked
  <2>3. Current(p, t)[1] = t
    BY DEF Current
  <2> QED
    BY <2>1, <2>2, <2>3 DEF Blocked
<1> QED
  BY <1>1, <1>2

(* What a PE holds is a set of commands of its threads. *)
LEMMA PendingCommands ==
  ASSUME TransportTypeOK, NEW p \in PEs
  PROVE  /\ Pending(p) \subseteq Commands
         /\ Pending(p) = {queue[p][i] : i \in DOMAIN queue[p]} \cup Taken(p)
<1>1. \A i \in DOMAIN queue[p] : queue[p][i] \in Commands
  BY DEF TransportTypeOK
<1>2. \A r \in requests[p] : r.cmd \in Commands
  BY DEF TransportTypeOK, Requests
<1>3. \A c \in Ctxs : waitingQuiet[p][c] \subseteq Commands
  BY DEF TransportTypeOK
<1> QED
  BY <1>1, <1>2, <1>3 DEF Pending, Taken

(* What happens on one PE leaves the calls of another alone. *)
LEMMA OtherPE ==
  ASSUME NEW r \in PEs, Calls(r), program' = program,
         pos'[r] = pos[r], state'[r] = state[r], flag'[r] = flag[r], queue'[r] = queue[r],
         requests'[r] = requests[r], waitingQuiet'[r] = waitingQuiet[r]
  PROVE  Calls(r)'
<1>1. Pending(r)' = Pending(r) /\ Taken(r)' = Taken(r)
  BY DEF Pending, Taken
<1>2. \A cmd : TypeOf(r, cmd)' = TypeOf(r, cmd)
  BY DEF TypeOf
<1>3. \A t \in Threads : Current(r, t)' = Current(r, t)
  BY DEF Current
<1>4. Issued(r)' /\ Ordered(r)'
  BY <1>1 DEF Calls, Issued, Ordered
<1>5. InFlight(r)' /\ InQuiet(r)'
  BY <1>2 DEF Calls, InFlight, InQuiet, TypeOf
<1>6. Blocked(r)'
  BY <1>1, <1>2, <1>3 DEF Calls, Blocked, TypeOf, Current
<1>7. QuietDone(r)'
  BY <1>1 DEF Calls, QuietDone, Notifies, TypeOf, Current
<1> QED
  BY <1>4, <1>5, <1>6, <1>7 DEF Calls

(* Nothing is pending at the start. *)
LEMMA InitCalls == TransportInit => \A p \in PEs : Calls(p)
<1> SUFFICES ASSUME TransportInit, NEW p \in PEs PROVE Calls(p)
  OBVIOUS
<1>1. /\ queue[p] = <<>> /\ requests[p] = {} /\ \A c \in Ctxs : waitingQuiet[p][c] = {}
      /\ \A t \in Threads : flag[p][t] = 0 /\ state[p][t] = "run"
  BY DEF TransportInit
<1>2. DOMAIN queue[p] = {}
  BY <1>1
<1>3. Pending(p) = {} /\ Taken(p) = {}
  BY <1>1, <1>2 DEF Pending, Taken
<1> QED
  BY <1>1, <1>2, <1>3
  DEF Calls, Issued, Ordered, InFlight, InQuiet, Blocked, QuietDone, Notifies

(* A thread that issues a command was not waiting, so nothing of it that *)
(* would block it is pending. *)
LEMMA InsertCalls ==
  ASSUME CallInv, NEW p \in PEs, NEW t \in Threads, InsertRequest(p, t)
  PROVE  Calls(p)'
<1> DEFINE n == pos[p][t] + 1
<1>1. /\ pos \in [PEs -> [Threads -> Nat]] /\ queue \in [PEs -> Seq(Commands)]
      /\ state \in [PEs -> [Threads -> {"run", "blocked"}]]
      /\ flag \in [PEs -> [Threads -> 0 .. 1]]
  BY DEF CallInv, TransportInv, TransportTypeOK
<1>2. n \in Nat /\ <<t, n>> \in Commands
  BY <1>1 DEF Commands
<1>3. /\ state[p][t] = "run" /\ pos' = Put(pos, p, t, n)
      /\ state' = IF program[p][t][n] \in Nonblocking THEN state
                  ELSE Put(state, p, t, "blocked")
      /\ queue' = [queue EXCEPT ![p] = Append(queue[p], <<t, n>>)]
      /\ UNCHANGED <<program, flag, requests, waitingQuiet>>
  BY DEF InsertRequest, mpi
<1>4. \A u \in Threads : pos'[p][u] = IF u = t THEN n ELSE pos[p][u]
  BY <1>1, <1>3 DEF Put
<1>5. \A u \in Threads :
        state'[p][u] = IF u = t /\ program[p][t][n] \notin Nonblocking THEN "blocked"
                       ELSE state[p][u]
  BY <1>1, <1>3 DEF Put
<1>6. queue'[p] = Append(queue[p], <<t, n>>)
  BY <1>1, <1>3
<1>7. /\ DOMAIN queue'[p] = DOMAIN queue[p] \cup {Len(queue[p]) + 1}
      /\ \A i \in DOMAIN queue[p] : queue'[p][i] = queue[p][i] /\ i < Len(queue[p]) + 1 /\ i # Len(queue[p]) + 1
      /\ queue'[p][Len(queue[p]) + 1] = <<t, n>>
  BY <1>1, <1>2, <1>6
<1>8. Taken(p)' = Taken(p)
  BY <1>3 DEF Taken
<1>9. /\ Pending(p) = {queue[p][i] : i \in DOMAIN queue[p]} \cup Taken(p)
      /\ Pending(p)' = {queue'[p][i] : i \in DOMAIN queue'[p]} \cup Taken(p)'
      /\ Pending(p) \subseteq Commands
  <2>1. TransportTypeOK
    BY DEF CallInv, TransportInv
  <2> QED
    BY <2>1, PendingCommands DEF Pending, Taken
<1>10. Pending(p)' = Pending(p) \cup {<<t, n>>}
  BY <1>7, <1>8, <1>9
<1>11. Calls(p)
  BY DEF CallInv
<1>12. flag[p][t] = 0
  <2>1. flag[p][t] # 1
    BY <1>3, <1>11 DEF Calls, Blocked
  <2> QED
    BY <1>1, <2>1
<1>13. \A cmd \in Pending(p) : cmd[1] \in Threads /\ cmd[2] \in Nat /\ cmd[2] <= pos[p][cmd[1]]
  BY <1>9, <1>11 DEF Commands, Calls, Issued
<1>14. \A cmd \in Pending(p) : cmd[1] = t => cmd[2] < n
  BY <1>1, <1>13
<1> HIDE DEF n
<1>15. Issued(p)'
  <2> SUFFICES ASSUME NEW cmd \in Pending(p)' PROVE cmd[2] <= pos'[p][cmd[1]]
    BY DEF Issued
  <2>1. CASE cmd = <<t, n>>
    BY <1>2, <1>4, <2>1
  <2>2. CASE cmd \in Pending(p)
    BY <1>2, <1>4, <1>13, <1>14, <2>2
  <2> QED
    BY <1>10, <2>1, <2>2
<1>16. Ordered(p)'
  <2>1. \A i \in DOMAIN queue[p] : queue[p][i] \in Pending(p)
    BY <1>9
  <2>2. \A cmd \in Taken(p) : cmd \in Pending(p)
    BY <1>9
  <2>3. ASSUME NEW i \in DOMAIN queue'[p], NEW j \in DOMAIN queue'[p], i < j,
               queue'[p][i][1] = queue'[p][j][1]
        PROVE  queue'[p][i][2] < queue'[p][j][2]
    <3>1. i \in DOMAIN queue[p]
      BY <1>1, <1>7, <2>3
    <3>2. CASE j \in DOMAIN queue[p]
      BY <1>7, <1>11, <2>3, <3>1, <3>2 DEF Calls, Ordered
    <3>3. CASE j = Len(queue[p]) + 1
      BY <1>7, <1>14, <2>1, <2>3, <3>1, <3>3
    <3> QED
      BY <1>7, <3>2, <3>3
  <2>4. ASSUME NEW cmd \in Taken(p), NEW j \in DOMAIN queue'[p], cmd[1] = queue'[p][j][1]
        PROVE  cmd[2] < queue'[p][j][2]
    <3>1. CASE j \in DOMAIN queue[p]
      BY <1>7, <1>11, <2>4, <3>1 DEF Calls, Ordered
    <3>2. CASE j = Len(queue[p]) + 1
      BY <1>7, <1>14, <2>2, <2>4, <3>2
    <3> QED
      BY <1>7, <3>1, <3>2
  <2> QED
    BY <1>8, <2>3, <2>4 DEF Ordered
<1>17. \A cmd : TypeOf(p, cmd)' = TypeOf(p, cmd)
  BY <1>3 DEF TypeOf
<1>18. InFlight(p)' /\ InQuiet(p)'
  BY <1>3, <1>11 DEF Calls, InFlight, InQuiet, TypeOf
<1>19. /\ Current(p, t)' = <<t, n>> /\ TypeOf(p, <<t, n>>) = program[p][t][n]
       /\ \A u \in Threads : u # t => Current(p, u)' = Current(p, u)
  BY <1>4 DEF Current, TypeOf
<1>20. Blocked(p)'
  <2>1. ASSUME NEW u \in Threads
        PROVE  /\ flag'[p][u] = 1 => state'[p][u] = "blocked"
               /\ state'[p][u] = "blocked" => TypeOf(p, Current(p, u))' \notin Nonblocking
    <3>1. CASE u = t
      BY <1>3, <1>5, <1>12, <1>17, <1>19, <3>1
    <3>2. CASE u # t
      <4>1. flag'[p][u] = flag[p][u] /\ state'[p][u] = state[p][u]
            /\ TypeOf(p, Current(p, u))' = TypeOf(p, Current(p, u))
        BY <1>3, <1>5, <1>19, <3>2 DEF TypeOf
      <4> QED
        BY <4>1, <1>11 DEF Calls, Blocked
    <3> QED
      BY <3>1, <3>2
  <2>2. ASSUME NEW cmd \in Pending(p)', TypeOf(p, cmd)' \notin Nonblocking
        PROVE  /\ cmd = Current(p, cmd[1])'
               /\ state'[p][cmd[1]] = "blocked" /\ flag'[p][cmd[1]] = 0
    <3>1. CASE cmd = <<t, n>>
      BY <1>3, <1>5, <1>12, <1>17, <1>19, <2>2, <3>1
    <3>2. CASE cmd \in Pending(p)
      <4>1. /\ cmd = Current(p, cmd[1])
            /\ state[p][cmd[1]] = "blocked" /\ flag[p][cmd[1]] = 0
        BY <1>11, <1>17, <2>2, <3>2 DEF Calls, Blocked
      <4>2. cmd[1] # t /\ cmd[1] \in Threads
        BY <1>3, <1>13, <3>2, <4>1
      <4> QED
        BY <1>3, <1>5, <1>19, <4>1, <4>2
    <3> QED
      BY <1>10, <3>1, <3>2
  <2> QED
    BY <2>1, <2>2 DEF Blocked
<1>21. QuietDone(p)'
  <2> SUFFICES ASSUME NEW u \in Threads, Notifies(p, u, Quieting)',
                      NEW k \in 1 .. pos'[p][u]
               PROVE  <<u, k>> \notin Pending(p)'
    BY DEF QuietDone
  <2>1. u # t
    BY <1>3, <1>12 DEF Notifies
  <2>2. Notifies(p, u, Quieting)
    BY <1>3, <1>17, <1>19, <2>1 DEF Notifies, TypeOf
  <2>3. k \in 1 .. pos[p][u]
    BY <1>4, <2>1
  <2> QED
    BY <1>10, <1>11, <2>1, <2>2, <2>3 DEF Calls, QuietDone
<1> QED
  BY <1>15, <1>16, <1>18, <1>20, <1>21 DEF Calls

(* The call that returns was the thread's only pending one. *)
LEMMA ReturnCalls ==
  ASSUME CallInv, NEW p \in PEs, NEW t \in Threads, Return(p, t)
  PROVE  Calls(p)'
<1>1. /\ state \in [PEs -> [Threads -> {"run", "blocked"}]]
      /\ flag \in [PEs -> [Threads -> 0 .. 1]]
      /\ Pending(p) \subseteq Commands
  BY PendingCommands DEF CallInv, TransportInv, TransportTypeOK
<1>2. /\ flag[p][t] = 1
      /\ flag' = Put(flag, p, t, 0) /\ state' = Put(state, p, t, "run")
      /\ UNCHANGED <<program, pos, queue, requests, waitingQuiet>>
  BY DEF Return, mpi
<1>3. \A u \in Threads : /\ flag'[p][u] = IF u = t THEN 0 ELSE flag[p][u]
                         /\ state'[p][u] = IF u = t THEN "run" ELSE state[p][u]
  BY <1>1, <1>2 DEF Put
<1>4. Pending(p)' = Pending(p) /\ Taken(p)' = Taken(p)
  BY <1>2 DEF Pending, Taken
<1>5. /\ \A cmd : TypeOf(p, cmd)' = TypeOf(p, cmd)
      /\ \A u \in Threads : Current(p, u)' = Current(p, u)
      /\ \A u \in Threads : TypeOf(p, Current(p, u))' = TypeOf(p, Current(p, u))
  BY <1>2 DEF TypeOf, Current
<1>6. Calls(p)
  BY DEF CallInv
<1>7. Issued(p)' /\ Ordered(p)' /\ InFlight(p)' /\ InQuiet(p)'
  BY <1>2, <1>4, <1>6 DEF Calls, Issued, Ordered, InFlight, InQuiet, TypeOf
<1>8. Blocked(p)'
  <2>1. \A cmd \in Pending(p) : cmd[1] \in Threads
    BY <1>1 DEF Commands
  <2>2. \A u \in Threads :
          /\ flag'[p][u] = 1 => state'[p][u] = "blocked"
          /\ state'[p][u] = "blocked" => TypeOf(p, Current(p, u))' \notin Nonblocking
    BY <1>3, <1>5, <1>6 DEF Calls, Blocked
  <2>3. ASSUME NEW cmd \in Pending(p), TypeOf(p, cmd) \notin Nonblocking
        PROVE  /\ cmd = Current(p, cmd[1])'
               /\ state'[p][cmd[1]] = "blocked" /\ flag'[p][cmd[1]] = 0
    <3>1. /\ cmd = Current(p, cmd[1])
          /\ state[p][cmd[1]] = "blocked" /\ flag[p][cmd[1]] = 0
      BY <1>6, <2>3 DEF Calls, Blocked
    <3>2. cmd[1] # t
      BY <1>2, <3>1
    <3> QED
      BY <1>3, <1>5, <2>1, <3>1, <3>2
  <2> QED
    BY <1>4, <1>5, <2>2, <2>3 DEF Blocked
<1>9. QuietDone(p)'
  <2> SUFFICES ASSUME NEW u \in Threads, Notifies(p, u, Quieting)'
               PROVE  \A k \in 1 .. pos'[p][u] : <<u, k>> \notin Pending(p)'
    BY DEF QuietDone
  <2>1. Notifies(p, u, Quieting)
    BY <1>3, <1>5 DEF Notifies
  <2> QED
    BY <1>2, <1>4, <1>6, <2>1 DEF Calls, QuietDone
<1> QED
  BY <1>7, <1>8, <1>9 DEF Calls

(* A sequence of one. *)
LEMMA Single == ASSUME NEW e PROVE DOMAIN <<e>> = {1} /\ <<e>>[1] = e
<1>1. DOMAIN <<e>> = 1 .. 1
  OBVIOUS
<1> QED
  BY <1>1

(* A sequence of silent requests is silent. *)
LEMMA Silent ==
  ASSUME NEW e, NEW f, e.blocking = FALSE, f.blocking = FALSE, NEW S
  PROVE  /\ \A i \in DOMAIN <<e, f>> : <<e, f>>[i].blocking = FALSE
         /\ \A i \in DOMAIN [j \in S |-> e] : [j \in S |-> e][i].blocking = FALSE
<1>1. \A i \in DOMAIN <<e, f>> : <<e, f>>[i] = e \/ <<e, f>>[i] = f
  OBVIOUS
<1> QED
  BY <1>1

(* Only a command with one request has one that notifies the caller. *)
LEMMA PostsNotify ==
  ASSUME NEW type, NEW k
  PROVE  \/ type \in Notifying /\ DOMAIN Posts(type, k) = {1}
         \/ /\ type \notin Notifying
            /\ \A i \in DOMAIN Posts(type, k) : Posts(type, k)[i].blocking = FALSE
<1>1. Request(FALSE, 0).blocking = FALSE /\ Request(FALSE, k).blocking = FALSE
  BY DEF Request
<1>2. CASE type \in Notifying
  <2>1. Posts(type, k) = <<Request(TRUE, 0)>> \/ Posts(type, k) = <<Request(TRUE, k)>>
    BY <1>2 DEF Posts, Notifying, Nonblocking
  <2>2. DOMAIN <<Request(TRUE, 0)>> = {1} /\ DOMAIN <<Request(TRUE, k)>> = {1}
    BY Single, Zenon
  <2> QED
    BY <1>2, <2>1, <2>2, Zenon
<1>3. CASE type \in Nonblocking \cup {"BARRIER"}
  <2>1. Posts(type, k) = <<Request(FALSE, 0)>> \/ Posts(type, k) = <<Request(FALSE, k)>>
    BY <1>3 DEF Posts, Nonblocking
  <2>2. type \notin Notifying
    BY <1>3 DEF Nonblocking, Notifying
  <2>3. \A b \in {Request(FALSE, 0), Request(FALSE, k)} :
          \A i \in DOMAIN <<b>> : <<b>>[i].blocking = FALSE
    BY <1>1, Single
  <2> QED
    BY <2>1, <2>2, <2>3, Zenon
<1>4. CASE type = "BROADCAST"
  <2> DEFINE e == Request(FALSE, 0)
             f == Request(FALSE, k)
  <2>1. Posts(type, k) = <<e, f>>
    BY <1>4 DEF Posts, Nonblocking
  <2>2. type \notin Notifying
    BY <1>4 DEF Notifying
  <2>3. e.blocking = FALSE /\ f.blocking = FALSE
    BY <1>1
  <2> HIDE DEF e, f
  <2>4. \A i \in DOMAIN <<e, f>> : <<e, f>>[i].blocking = FALSE
    BY <2>3, Silent
  <2> QED
    BY <2>1, <2>2, <2>4, Zenon
<1>5. CASE type = "ALLTOALL"
  <2> DEFINE e == Request(FALSE, 0)
             S == 1 .. Cardinality(PEs)
  <2>1. Posts(type, k) = [j \in S |-> e]
    BY <1>5 DEF Posts, Nonblocking
  <2>2. type \notin Notifying
    BY <1>5 DEF Notifying
  <2>3. e.blocking = FALSE
    BY <1>1
  <2> HIDE DEF e, S
  <2>4. \A i \in DOMAIN [j \in S |-> e] : [j \in S |-> e][i].blocking = FALSE
    BY <2>3, Silent
  <2> QED
    BY <2>1, <2>2, <2>4, Zenon
<1>6. CASE type \notin Notifying \cup Nonblocking \cup {"BARRIER", "BROADCAST", "ALLTOALL"}
  <2>1. Posts(type, k) = <<>>
    BY <1>6 DEF Posts, Notifying
  <2> QED
    BY <1>6, <2>1
<1> QED
  BY <1>2, <1>3, <1>4, <1>5, <1>6

(* A request that notifies its caller is the only one of its command. *)
LEMMA NotifyingRequests ==
  ASSUME NEW p \in PEs, NEW cmd, NEW r \in NewRequests(p, cmd)
  PROVE  /\ r.cmd = cmd /\ r.ctx = CtxOf[cmd[1]]
         /\ r.blocking => /\ TypeOf(p, cmd) \in Notifying
                          /\ \A s \in NewRequests(p, cmd) : s = r
<1> DEFINE type == TypeOf(p, cmd)
           posts == Posts(type, posted[p] + 1)
           rec(i) == [at |-> stamp[p] + i, cmd |-> cmd, ctx |-> CtxOf[cmd[1]],
                      blocking |-> posts[i].blocking, coll |-> posts[i].coll]
<1>1. NewRequests(p, cmd) = {rec(i) : i \in DOMAIN posts}
  BY DEF NewRequests
<1>2. \/ type \in Notifying /\ DOMAIN posts = {1}
      \/ type \notin Notifying /\ \A i \in DOMAIN posts : posts[i].blocking = FALSE
  BY PostsNotify
<1> HIDE DEF type, posts
<1>3. PICK i \in DOMAIN posts : r = rec(i)
  BY <1>1
<1>4. r.cmd = cmd /\ r.ctx = CtxOf[cmd[1]] /\ r.blocking = posts[i].blocking
  BY <1>3
<1>5. ASSUME r.blocking PROVE type \in Notifying /\ \A s \in NewRequests(p, cmd) : s = r
  <2>1. type \in Notifying /\ DOMAIN posts = {1}
    BY <1>2, <1>4, <1>5
  <2> QED
    BY <1>1, <1>3, <2>1
<1> QED
  BY <1>4, <1>5 DEF type

(* What an empty count says: no request of the context is in flight. *)
LEMMA NothingOfContext ==
  ASSUME TransportInv, NEW p \in PEs, NEW c \in Ctxs, NEW new,
         IsFiniteSet(new), Counted(p, c, new) = 0
  PROVE  new = {} /\ OfCtx(requests[p], c) = {}
<1>1. /\ outstanding[p][c] = Cardinality(OfCtx(requests[p], c))
      /\ IsFiniteSet(OfCtx(requests[p], c))
  BY FS_Subset DEF TransportInv, OutstandingCounts, Stamped, OfCtx
<1>2. Cardinality(OfCtx(requests[p], c)) \in Nat /\ Cardinality(new) \in Nat
  BY <1>1, FS_CardinalityType
<1>3. Cardinality(OfCtx(requests[p], c)) = 0 /\ Cardinality(new) = 0
  BY <1>1, <1>2 DEF Counted
<1> QED
  BY <1>1, <1>3, FS_EmptySet

(* A flag raised at submission answers a call of which nothing is left. *)
LEMMA SubmitCalls ==
  ASSUME CallInv, NEW p \in PEs, Submit(p)
  PROVE  Calls(p)'
<1> DEFINE cmd == Head(queue[p])
           t == cmd[1]
           c == CtxOf[t]
           type == TypeOf(p, cmd)
           new == NewRequests(p, cmd)
           waits == type \in Quieting /\ ~QuietNow(p, c, new)
           answers == type = "AMO" \/ (type \in Quieting /\ ~waits)
<1>1. /\ TransportInv /\ TransportTypeOK /\ Calls(p)
      /\ queue \in [PEs -> Seq(Commands)] /\ requests \in [PEs -> SUBSET Requests]
      /\ flag \in [PEs -> [Threads -> 0 .. 1]] /\ pos \in [PEs -> [Threads -> Nat]]
      /\ waitingQuiet \in [PEs -> [Ctxs -> SUBSET Commands]]
  BY DEF CallInv, TransportInv, TransportTypeOK
<1>2. queue[p] # <<>> /\ cmd \in Commands /\ 1 \in DOMAIN queue[p] /\ cmd = queue[p][1]
  BY <1>1 DEF Submit
<1>3. t \in Threads /\ c \in Ctxs /\ cmd[2] \in Nat
  BY <1>2, TransportAssumption DEF Commands
<1>4. IsFiniteSet(new) /\ \A r \in new :
        /\ r.cmd = cmd /\ r.ctx = c
        /\ r.blocking => type \in Notifying /\ \A s \in new : s = r
  BY <1>1, <1>2, NewRequestsShape, NotifyingRequests
<1>5. /\ requests' = [requests EXCEPT ![p] = requests[p] \cup new]
      /\ waitingQuiet' = IF waits THEN Put(waitingQuiet, p, c, waitingQuiet[p][c] \cup {cmd})
                         ELSE waitingQuiet
      /\ flag' = IF answers THEN Put(flag, p, t, 1) ELSE flag
      /\ queue' = [queue EXCEPT ![p] = Tail(queue[p])]
      /\ UNCHANGED <<program, pos, state>>
  BY DEF Submit
<1>6. type = "AMO" => new = {} /\ ~waits
  <2>1. SUFFICES ASSUME type = "AMO" PROVE new = {} /\ type \notin Quieting
    OBVIOUS
  <2>2. Posts(type, posted[p] + 1) = <<>>
    BY <2>1 DEF Posts, Nonblocking
  <2>3. DOMAIN Posts(type, posted[p] + 1) = {}
    BY <2>2
  <2> QED
    BY <2>1, <2>3 DEF NewRequests, Quieting
<1>7. type \in Quieting /\ ~waits => new = {} /\ OfCtx(requests[p], c) = {}
  BY <1>1, <1>3, <1>4, NothingOfContext DEF QuietNow
<1> HIDE DEF cmd, t, c, type, new, waits, answers
<1>8. requests'[p] = requests[p] \cup new /\ queue'[p] = Tail(queue[p])
  BY <1>1, <1>5
<1>9. \A d \in Ctxs :
        waitingQuiet'[p][d] = IF waits /\ d = c THEN waitingQuiet[p][c] \cup {cmd}
                              ELSE waitingQuiet[p][d]
  BY <1>1, <1>3, <1>5 DEF Put
<1>10. \A u \in Threads : flag'[p][u] = IF u = t /\ answers THEN 1 ELSE flag[p][u]
  BY <1>1, <1>3, <1>5 DEF Put
<1>11. \A j \in DOMAIN queue'[p] :
         j \in Nat /\ queue'[p][j] = queue[p][j + 1] /\ j + 1 \in DOMAIN queue[p] /\ 1 < j + 1
  BY <1>1, <1>2, <1>8
<1>12. /\ Pending(p) = {queue[p][i] : i \in DOMAIN queue[p]} \cup Taken(p)
       /\ Pending(p)' = {queue'[p][i] : i \in DOMAIN queue'[p]} \cup Taken(p)'
       /\ Pending(p) \subseteq Commands
  BY <1>1, PendingCommands DEF Pending, Taken
<1>13. /\ Taken(p)' = {r.cmd : r \in requests'[p]} \cup UNION {waitingQuiet'[p][d] : d \in Ctxs}
       /\ Taken(p) = {r.cmd : r \in requests[p]} \cup UNION {waitingQuiet[p][d] : d \in Ctxs}
  BY DEF Taken
<1>14. Taken(p)' \subseteq Taken(p) \cup {cmd}
  BY <1>4, <1>8, <1>9, <1>13
<1>15. cmd \in Pending(p) /\ Pending(p)' \subseteq Pending(p)
  BY <1>2, <1>11, <1>12, <1>14
<1>16. \A j \in DOMAIN queue'[p] : cmd[1] = queue'[p][j][1] => cmd[2] < queue'[p][j][2]
  BY <1>1, <1>2, <1>11 DEF Calls, Ordered
<1>17. cmd \notin Taken(p)
  BY <1>1, <1>2, <1>3 DEF Calls, Ordered
<1>18. answers => new = {} /\ Taken(p)' = Taken(p)
  <2>1. SUFFICES ASSUME answers PROVE new = {} /\ Taken(p)' = Taken(p)
    OBVIOUS
  <2>2. new = {} /\ ~waits
    BY <1>6, <1>7, <2>1 DEF answers
  <2>3. requests'[p] = requests[p] /\ \A d \in Ctxs : waitingQuiet'[p][d] = waitingQuiet[p][d]
    BY <1>8, <1>9, <2>2
  <2> QED
    BY <1>13, <2>2, <2>3
<1>19. answers => cmd \notin Pending(p)'
  BY <1>3, <1>12, <1>16, <1>17, <1>18
<1>20. answers => cmd = Current(p, t) /\ state[p][t] = "blocked"
  <2>1. SUFFICES ASSUME answers PROVE type \notin Nonblocking
    BY <1>1, <1>15 DEF Calls, Blocked, type, t
  <2> QED
    BY <2>1 DEF answers, Quieting, Nonblocking
<1>21. /\ \A x : TypeOf(p, x)' = TypeOf(p, x)
       /\ \A u \in Threads : Current(p, u)' = Current(p, u)
       /\ \A u \in Threads : TypeOf(p, Current(p, u))' = TypeOf(p, Current(p, u))
  BY <1>5 DEF TypeOf, Current
<1>22. Issued(p)'
  BY <1>1, <1>5, <1>15 DEF Calls, Issued
<1>23. Ordered(p)'
  <2>1. ASSUME NEW i \in DOMAIN queue'[p], NEW j \in DOMAIN queue'[p], i < j,
               queue'[p][i][1] = queue'[p][j][1]
        PROVE  queue'[p][i][2] < queue'[p][j][2]
    <3>1. /\ queue'[p][i] = queue[p][i + 1] /\ queue'[p][j] = queue[p][j + 1]
          /\ i + 1 \in DOMAIN queue[p] /\ j + 1 \in DOMAIN queue[p] /\ i + 1 < j + 1
      BY <1>11, <2>1
    <3> QED
      BY <1>1, <2>1, <3>1 DEF Calls, Ordered
  <2>2. ASSUME NEW x \in Taken(p)', NEW j \in DOMAIN queue'[p], x[1] = queue'[p][j][1]
        PROVE  x[2] < queue'[p][j][2]
    BY <1>1, <1>11, <1>14, <1>16, <2>2 DEF Calls, Ordered
  <2> QED
    BY <2>1, <2>2 DEF Ordered
<1>24. InFlight(p)'
  <2> SUFFICES ASSUME NEW r \in requests'[p]
               PROVE  /\ r.ctx = CtxOf[r.cmd[1]]
                      /\ r.blocking => /\ TypeOf(p, r.cmd)' \in Notifying
                                       /\ \A s \in requests'[p] : s.cmd = r.cmd => s = r
    BY DEF InFlight
  <2>1. \A s \in requests[p] : s.cmd # cmd
    BY <1>13, <1>17
  <2>2. CASE r \in new
    BY <1>4, <1>8, <1>21, <2>1, <2>2 DEF type, c, t
  <2>3. CASE r \in requests[p]
    BY <1>1, <1>4, <1>8, <1>21, <2>1, <2>3 DEF Calls, InFlight
  <2> QED
    BY <1>8, <2>2, <2>3
<1>25. InQuiet(p)'
  <2> SUFFICES ASSUME NEW d \in Ctxs, NEW x \in waitingQuiet'[p][d]
               PROVE  CtxOf[x[1]] = d /\ TypeOf(p, x)' \in Quieting
    BY DEF InQuiet
  <2>1. CASE x \in waitingQuiet[p][d]
    BY <1>1, <1>21, <2>1 DEF Calls, InQuiet
  <2>2. CASE waits /\ d = c /\ x = cmd
    BY <1>21, <2>2 DEF waits, type, c, t
  <2> QED
    BY <1>9, <2>1, <2>2
<1>26. Blocked(p)'
  <2>1. ASSUME NEW u \in Threads
        PROVE  /\ flag'[p][u] = 1 => state'[p][u] = "blocked"
               /\ state'[p][u] = "blocked" => TypeOf(p, Current(p, u))' \notin Nonblocking
    BY <1>1, <1>5, <1>10, <1>20, <1>21 DEF Calls, Blocked
  <2>2. ASSUME NEW x \in Pending(p)', TypeOf(p, x)' \notin Nonblocking
        PROVE  /\ x = Current(p, x[1])'
               /\ state'[p][x[1]] = "blocked" /\ flag'[p][x[1]] = 0
    <3>1. x \in Commands /\ x[1] \in Threads
      BY <1>12, <1>15 DEF Commands
    <3>2. /\ x = Current(p, x[1])
          /\ state[p][x[1]] = "blocked" /\ flag[p][x[1]] = 0
      BY <1>1, <1>15, <1>21, <2>2 DEF Calls, Blocked
    <3>3. ~(x[1] = t /\ answers)
      BY <1>19, <1>20, <2>2, <3>2
    <3> QED
      BY <1>5, <1>10, <1>21, <3>1, <3>2, <3>3
  <2> QED
    BY <2>1, <2>2 DEF Blocked
<1>27. QuietDone(p)'
  <2> SUFFICES ASSUME NEW u \in Threads, Notifies(p, u, Quieting)',
                      NEW n \in 1 .. pos'[p][u]
               PROVE  <<u, n>> \notin Pending(p)'
    BY DEF QuietDone
  <2>1. CASE ~(u = t /\ answers)
    <3>1. Notifies(p, u, Quieting)
      BY <1>10, <1>21, <2>1 DEF Notifies
    <3> QED
      BY <1>1, <1>5, <1>15, <3>1 DEF Calls, QuietDone
  <2>2. CASE u = t /\ answers
    <3>1. cmd = <<t, pos[p][t]>> /\ type \in Quieting
      BY <1>20, <1>21, <2>2 DEF Current, Notifies, type
    <3>2. new = {} /\ OfCtx(requests[p], c) = {}
      BY <1>6, <1>7, <2>2, <3>1 DEF answers, Quieting
    <3>3. \A j \in DOMAIN queue'[p] : queue'[p][j] # <<u, n>>
      <4> SUFFICES ASSUME NEW j \in DOMAIN queue'[p], queue'[p][j] = <<u, n>> PROVE FALSE
        OBVIOUS
      <4>1. queue'[p][j][1] = cmd[1] /\ queue'[p][j][2] = n
        BY <2>2, <3>1
      <4>2. cmd[2] < n /\ cmd[2] = pos[p][u] /\ n \in 1 .. pos[p][u]
        BY <1>5, <1>16, <2>2, <3>1, <4>1
      <4> QED
        BY <1>1, <4>2
    <3>4. \A r \in requests[p] : r.cmd # <<u, n>>
      <4> SUFFICES ASSUME NEW r \in requests[p], r.cmd = <<u, n>> PROVE FALSE
        OBVIOUS
      <4>1. r.cmd[1] = t
        BY <2>2
      <4>2. r.ctx = c
        BY <1>1, <4>1 DEF Calls, InFlight, c
      <4> QED
        BY <3>2, <4>2 DEF OfCtx
    <3>5. \A d \in Ctxs : <<u, n>> \notin waitingQuiet[p][d]
      <4> SUFFICES ASSUME NEW d \in Ctxs, <<u, n>> \in waitingQuiet[p][d] PROVE FALSE
        OBVIOUS
      <4>1. TypeOf(p, <<u, n>>) \notin Nonblocking /\ <<u, n>> \in Pending(p)
        BY <1>1, <1>12, <1>13 DEF Calls, InQuiet, Quieting, Nonblocking
      <4>2. <<u, n>> = cmd
        BY <1>1, <1>20, <2>2, <4>1 DEF Calls, Blocked
      <4> QED
        BY <1>13, <1>17, <4>2
    <3>6. Taken(p)' = Taken(p) /\ <<u, n>> \notin Taken(p)
      BY <1>13, <1>18, <2>2, <3>4, <3>5
    <3> QED
      BY <1>12, <3>3, <3>6
  <2> QED
    BY <2>1, <2>2
<1> QED
  BY <1>22, <1>23, <1>24, <1>25, <1>26, <1>27 DEF Calls

(* A flag raised by progress answers a call of which nothing is left. *)
LEMMA ProgressCalls ==
  ASSUME CallInv, NEW p \in PEs, NEW done \in SUBSET Testable(p), Progress(p, done)
  PROVE  Calls(p)'
<1>1. /\ TransportInv /\ TransportTypeOK /\ Calls(p)
      /\ queue \in [PEs -> Seq(Commands)] /\ requests \in [PEs -> SUBSET Requests]
      /\ flag \in [PEs -> [Threads -> 0 .. 1]] /\ pos \in [PEs -> [Threads -> Nat]]
      /\ waitingQuiet \in [PEs -> [Ctxs -> SUBSET Commands]]
  BY DEF CallInv, TransportInv, TransportTypeOK
<1>2. /\ outstanding' = [outstanding EXCEPT ![p] = [c \in Ctxs |-> Left(p, c, done)]]
      /\ flag' = [flag EXCEPT ![p] =
           [t \in Threads |-> IF t \in Notified(p, done) THEN 1 ELSE flag[p][t]]]
      /\ waitingQuiet' = [waitingQuiet EXCEPT ![p] = Waiting(p, done)]
      /\ requests' = [requests EXCEPT ![p] = requests[p] \ done]
      /\ UNCHANGED <<program, pos, state, queue>>
  BY DEF Progress
<1>3. done \subseteq requests[p]
  BY DEF Testable
<1>4. requests'[p] = requests[p] \ done /\ queue'[p] = queue[p]
  BY <1>1, <1>2
<1>5. \A d \in Ctxs :
        waitingQuiet'[p][d] = IF d \in Released(p, done) THEN {} ELSE waitingQuiet[p][d]
  BY <1>1, <1>2 DEF Waiting
<1>6. \A u \in Threads :
        flag'[p][u] = IF u \in Notified(p, done) THEN 1 ELSE flag[p][u]
  BY <1>1, <1>2
<1>7. \A d \in Released(p, done) : d \in Ctxs /\ OfCtx(requests'[p], d) = {}
  <2> SUFFICES ASSUME NEW d \in Released(p, done) PROVE d \in Ctxs /\ OfCtx(requests'[p], d) = {}
    OBVIOUS
  <2>1. d \in Ctxs /\ Left(p, d, done) = 0
    BY DEF Released
  <2>2. outstanding'[p][d] = 0
    BY <1>1, <1>2, <2>1 DEF TransportTypeOK
  <2>3. OutstandingCounts' /\ Stamped'
    BY <1>1, ProgressStep DEF TransportInv
  <2>4. IsFiniteSet(OfCtx(requests'[p], d))
    <3>1. IsFiniteSet(requests'[p]) /\ OfCtx(requests'[p], d) \subseteq requests'[p]
      BY <2>3 DEF Stamped, OfCtx
    <3> QED
      BY <3>1, FS_Subset
  <2>5. Cardinality(OfCtx(requests'[p], d)) = 0
    BY <2>1, <2>2, <2>3 DEF OutstandingCounts, OfCtx
  <2> QED
    BY <2>1, <2>4, <2>5, FS_EmptySet
<1>8. /\ Pending(p) = {queue[p][i] : i \in DOMAIN queue[p]} \cup Taken(p)
      /\ Pending(p)' = {queue[p][i] : i \in DOMAIN queue[p]} \cup Taken(p)'
      /\ Pending(p) \subseteq Commands
  BY <1>1, <1>4, PendingCommands DEF Pending, Taken
<1>9. /\ Taken(p)' = {r.cmd : r \in requests'[p]} \cup UNION {waitingQuiet'[p][d] : d \in Ctxs}
      /\ Taken(p) = {r.cmd : r \in requests[p]} \cup UNION {waitingQuiet[p][d] : d \in Ctxs}
  BY DEF Taken
<1>10. Taken(p)' \subseteq Taken(p)
  BY <1>4, <1>5, <1>9
<1>11. Pending(p)' \subseteq Pending(p)
  BY <1>8, <1>10
<1>12. /\ \A x : TypeOf(p, x)' = TypeOf(p, x)
       /\ \A u \in Threads : Current(p, u)' = Current(p, u)
       /\ \A u \in Threads : TypeOf(p, Current(p, u))' = TypeOf(p, Current(p, u))
  BY <1>2 DEF TypeOf, Current
<1>13. \A x \in Taken(p), i \in DOMAIN queue[p] : queue[p][i] # x
  <2> SUFFICES ASSUME NEW x \in Taken(p), NEW i \in DOMAIN queue[p], queue[p][i] = x PROVE FALSE
    OBVIOUS
  <2>1. x[2] < x[2]
    BY <1>1 DEF Calls, Ordered
  <2>2. x[2] \in Nat
    BY <1>8 DEF Commands
  <2> QED
    BY <2>1, <2>2
<1>14. \A x \in Pending(p) : TypeOf(p, x) \notin Nonblocking =>
         x = Current(p, x[1]) /\ state[p][x[1]] = "blocked" /\ x[1] \in Threads
  BY <1>1, <1>8 DEF Calls, Blocked, Commands
(* A request that notifies its caller completes. *)
<1>15. ASSUME NEW r \in done, r.blocking
       PROVE  /\ r.cmd = Current(p, r.cmd[1]) /\ state[p][r.cmd[1]] = "blocked"
              /\ TypeOf(p, r.cmd) \in Notifying /\ r.cmd \notin Pending(p)'
  <2>1. /\ r \in requests[p] /\ TypeOf(p, r.cmd) \in Notifying
        /\ \A s \in requests[p] : s.cmd = r.cmd => s = r
    BY <1>1, <1>3, <1>15 DEF Calls, InFlight
  <2>2. r.cmd \in Taken(p)
    BY <1>9, <2>1
  <2>3. \A d \in Ctxs : r.cmd \notin waitingQuiet'[p][d]
    BY <1>1, <1>5, <2>1 DEF Calls, InQuiet, Quieting, Notifying
  <2>4. r.cmd \notin Pending(p)'
    BY <1>4, <1>8, <1>9, <1>13, <2>1, <2>2, <2>3
  <2> QED
    BY <1>8, <1>14, <2>1, <2>2, <2>4 DEF Nonblocking, Notifying
(* The last request of a context completes, and a quiet ends. *)
<1>16. ASSUME NEW d \in Released(p, done), NEW x \in waitingQuiet[p][d]
       PROVE  /\ x = Current(p, x[1]) /\ state[p][x[1]] = "blocked"
              /\ CtxOf[x[1]] = d /\ x \in Taken(p) /\ x \notin Pending(p)'
  <2>1. d \in Ctxs /\ CtxOf[x[1]] = d /\ TypeOf(p, x) \in Quieting /\ x \in Taken(p)
    BY <1>1, <1>7, <1>9 DEF Calls, InQuiet
  <2>2. \A s \in requests'[p] : s.cmd # x
    BY <1>1, <1>4, <1>7, <2>1 DEF Calls, InFlight, OfCtx
  <2>3. \A e \in Ctxs : x \notin waitingQuiet'[p][e]
    BY <1>1, <1>5, <2>1 DEF Calls, InQuiet
  <2>4. x \notin Pending(p)'
    BY <1>8, <1>9, <1>13, <2>1, <2>2, <2>3
  <2> QED
    BY <1>8, <1>14, <2>1, <2>4 DEF Quieting, Nonblocking
<1>17. \A u \in Notified(p, done) :
         \/ \E r \in done : r.blocking /\ r.cmd[1] = u
         \/ \E d \in Released(p, done) : \E x \in waitingQuiet[p][d] : x[1] = u
  BY DEF Notified
<1>18. \A u \in Notified(p, done) :
         state[p][u] = "blocked" /\ Current(p, u) \notin Pending(p)'
  BY <1>15, <1>16, <1>17
<1>19. Issued(p)' /\ Ordered(p)'
  BY <1>1, <1>2, <1>4, <1>10, <1>11 DEF Calls, Issued, Ordered
<1>20. InFlight(p)' /\ InQuiet(p)'
  BY <1>1, <1>4, <1>5, <1>12 DEF Calls, InFlight, InQuiet
<1>21. Blocked(p)'
  <2>1. ASSUME NEW u \in Threads
        PROVE  /\ flag'[p][u] = 1 => state'[p][u] = "blocked"
               /\ state'[p][u] = "blocked" => TypeOf(p, Current(p, u))' \notin Nonblocking
    BY <1>1, <1>2, <1>6, <1>12, <1>18 DEF Calls, Blocked
  <2>2. ASSUME NEW x \in Pending(p)', TypeOf(p, x)' \notin Nonblocking
        PROVE  /\ x = Current(p, x[1])'
               /\ state'[p][x[1]] = "blocked" /\ flag'[p][x[1]] = 0
    <3>1. x = Current(p, x[1]) /\ state[p][x[1]] = "blocked" /\ x[1] \in Threads
      BY <1>11, <1>12, <1>14, <2>2
    <3>2. flag[p][x[1]] = 0
      BY <1>1, <1>11, <1>12, <2>2 DEF Calls, Blocked
    <3>3. x[1] \notin Notified(p, done)
      BY <1>18, <2>2, <3>1
    <3> QED
      BY <1>2, <1>6, <1>12, <3>1, <3>2, <3>3
  <2> QED
    BY <2>1, <2>2 DEF Blocked
<1>22. QuietDone(p)'
  <2> SUFFICES ASSUME NEW u \in Threads, Notifies(p, u, Quieting)',
                      NEW n \in 1 .. pos'[p][u]
               PROVE  <<u, n>> \notin Pending(p)'
    BY DEF QuietDone
  <2>1. CASE u \notin Notified(p, done)
    <3>1. Notifies(p, u, Quieting)
      BY <1>6, <1>12, <2>1 DEF Notifies
    <3> QED
      BY <1>1, <1>2, <1>11, <3>1 DEF Calls, QuietDone
  <2>2. CASE u \in Notified(p, done)
    <3>1. TypeOf(p, Current(p, u)) \in Quieting
      BY <1>12 DEF Notifies
    <3>2. ~ \E r \in done : r.blocking /\ r.cmd[1] = u
      BY <1>15, <3>1 DEF Quieting, Notifying
    <3>3. PICK d \in Released(p, done) : \E x \in waitingQuiet[p][d] : x[1] = u
      BY <1>17, <2>2, <3>2
    <3>4. PICK x \in waitingQuiet[p][d] : x[1] = u
      BY <3>3
    <3>5. x = <<u, pos[p][u]>> /\ x \in Taken(p) /\ CtxOf[u] = d
      BY <1>16, <3>4 DEF Current
    <3>6. \A i \in DOMAIN queue[p] : queue[p][i] # <<u, n>>
      <4> SUFFICES ASSUME NEW i \in DOMAIN queue[p], queue[p][i] = <<u, n>> PROVE FALSE
        OBVIOUS
      <4>1. queue[p][i][1] = x[1] /\ queue[p][i][2] = n
        BY <3>4
      <4>2. x[2] < n /\ x[2] = pos[p][u] /\ n \in 1 .. pos[p][u]
        BY <1>1, <1>2, <3>5, <4>1 DEF Calls, Ordered
      <4> QED
        BY <1>1, <4>2
    <3>7. \A r \in requests'[p] : r.cmd # <<u, n>>
      <4> SUFFICES ASSUME NEW r \in requests'[p], r.cmd = <<u, n>> PROVE FALSE
        OBVIOUS
      <4>1. r.cmd[1] = u /\ r \in requests[p]
        BY <1>4
      <4>2. r.ctx = d
        BY <1>1, <3>5, <4>1 DEF Calls, InFlight
      <4> QED
        BY <1>7, <4>2 DEF OfCtx
    <3>8. \A e \in Ctxs : <<u, n>> \notin waitingQuiet'[p][e]
      <4> SUFFICES ASSUME NEW e \in Ctxs, <<u, n>> \in waitingQuiet'[p][e] PROVE FALSE
        OBVIOUS
      <4>1. <<u, n>> \in waitingQuiet[p][e]
        BY <1>5
      <4>2. TypeOf(p, <<u, n>>) \notin Nonblocking /\ <<u, n>> \in Pending(p)
        BY <1>1, <1>8, <1>9, <4>1 DEF Calls, InQuiet, Quieting, Nonblocking
      <4>3. <<u, n>> = Current(p, u)
        BY <1>14, <4>2
      <4>4. <<u, n>> \in Pending(p)'
        BY <1>8, <1>9
      <4> QED
        BY <1>18, <2>2, <4>3, <4>4
    <3> QED
      BY <1>8, <1>9, <3>6, <3>7, <3>8
  <2> QED
    BY <2>1, <2>2
<1> QED
  BY <1>19, <1>20, <1>21, <1>22 DEF Calls

(* The calls of every PE stay in order. *)
LEMMA CallInvStep == CallInv /\ [TransportNext \/ TransportFinished]_transportVars => CallInv'
<1> SUFFICES ASSUME CallInv, [TransportNext \/ TransportFinished]_transportVars PROVE CallInv'
  OBVIOUS
<1>1. TransportInv'
  <2>1. TransportInv
    BY DEF CallInv
  <2>2. CASE UNCHANGED transportVars
    BY <2>1, <2>2 DEF transportVars, TransportInv, TransportTypeOK, Stamped, OutstandingCounts, OfCtx, TypeOf
  <2>3. CASE TransportNext
    BY <2>1, <2>2, <2>3, CallStep, SubmitStep, ProgressStep DEF TransportNext, Poll
  <2> QED
    BY <2>2, <2>3 DEF TransportFinished
<1>2. \A r \in PEs : Calls(r)
  BY DEF CallInv
<1>3. CASE UNCHANGED transportVars
  <2>1. \A r \in PEs : Calls(r)'
    BY <1>2, <1>3, OtherPE DEF transportVars
  <2> QED
    BY <1>1, <2>1 DEF CallInv
<1>4. ASSUME NEW p \in PEs, Calls(p)', program' = program,
             \A r \in PEs \ {p} :
               /\ pos'[r] = pos[r] /\ state'[r] = state[r] /\ flag'[r] = flag[r]
               /\ queue'[r] = queue[r] /\ requests'[r] = requests[r]
               /\ waitingQuiet'[r] = waitingQuiet[r]
      PROVE  CallInv'
  <2>1. \A r \in PEs : Calls(r)'
    BY <1>2, <1>4, OtherPE
  <2> QED
    BY <1>1, <2>1 DEF CallInv
<1>5. /\ pos \in [PEs -> [Threads -> Nat]] /\ queue \in [PEs -> Seq(Commands)]
      /\ state \in [PEs -> [Threads -> {"run", "blocked"}]]
      /\ flag \in [PEs -> [Threads -> 0 .. 1]]
      /\ requests \in [PEs -> SUBSET Requests]
      /\ waitingQuiet \in [PEs -> [Ctxs -> SUBSET Commands]]
  BY DEF CallInv, TransportInv, TransportTypeOK
<1>6. ASSUME NEW p \in PEs, NEW t \in Threads, InsertRequest(p, t) PROVE CallInv'
  <2>1. Calls(p)'
    BY <1>6, InsertCalls
  <2> QED
    BY <1>4, <1>5, <1>6, <2>1 DEF InsertRequest, Put, mpi
<1>7. ASSUME NEW p \in PEs, NEW t \in Threads, Return(p, t) PROVE CallInv'
  <2>1. Calls(p)'
    BY <1>7, ReturnCalls
  <2> QED
    BY <1>4, <1>5, <1>7, <2>1 DEF Return, Put, mpi
<1>8. ASSUME NEW p \in PEs, Submit(p) PROVE CallInv'
  <2>1. Calls(p)'
    BY <1>8, SubmitCalls
  <2> QED
    BY <1>4, <1>5, <1>8, <2>1 DEF Submit, Put
<1>9. ASSUME NEW p \in PEs, NEW done \in SUBSET Testable(p), Progress(p, done)
      PROVE  CallInv'
  <2>1. Calls(p)'
    BY <1>9, ProgressCalls
  <2> QED
    BY <1>4, <1>5, <1>9, <2>1 DEF Progress
<1> QED
  BY <1>3, <1>6, <1>7, <1>8, <1>9 DEF TransportNext, TransportFinished, Poll

(* No call returns early, in every reachable state. *)
THEOREM CallInvariant == TransportSpec => []CallInv
<1>1. TransportInit => CallInv
  BY InitTransport, InitCalls DEF CallInv
<1> QED
  BY <1>1, CallInvStep, PTL DEF TransportSpec

(* A raised flag answers the call its thread is in, and nothing of that *)
(* call is queued, in flight or waiting any more (mpi_transport.cpp:636-669). *)
THEOREM NoCallReturnsEarly == TransportSpec => []OwnCallOver
<1>1. CallInv => OwnCallOver
  BY CallInvImplies
<1> QED
  BY <1>1, CallInvariant, PTL

(* A quiet, a barrier and what else ends on the count answer only when *)
(* every earlier command of the thread is over (mpi_transport.cpp:657-669). *)
THEOREM QuietsComplete == TransportSpec => []QuietCompletes
<1>1. CallInv => QuietCompletes
  BY CallInvImplies
<1> QED
  BY <1>1, CallInvariant, PTL
----------------------------------------------------------------------------
(***************************************************************************)
(* The collectives that synchronise, when one thread of a PE makes them,   *)
(* as the interface asks: such a call has one collective with MPI, the     *)
(* last its PE posted, and MPI completes that once every PE has posted it. *)
(***************************************************************************)
OneCaller ==
  \A P \in Programs : \A p \in PEs, t, u \in Threads :
    \A i \in DOMAIN P[p][t], j \in DOMAIN P[p][u] :
      P[p][t][i] \in Collective /\ P[p][u][j] \in Collective => t = u

Meeting == Collective \ {"ALLTOALL"}
Queued(p) == {queue[p][i] : i \in DOMAIN queue[p]}
AllIn(p) == \A r \in PEs : posted[r] >= posted[p]

(* A call that has been submitted is in flight until all have entered. *)
Entering(p) ==
  \A t \in Threads :
    /\ pos[p][t] <= Len(program[p][t])
    /\ state[p][t] = "blocked" => pos[p][t] # 0
    /\ /\ state[p][t] = "blocked"
       /\ TypeOf(p, Current(p, t)) \in Meeting
       /\ Current(p, t) \notin Queued(p)
       => \/ \E r \in requests[p] : r.cmd = Current(p, t) /\ r.coll = posted[p]
          \/ AllIn(p)

EnteredInv == CallInv /\ \A p \in PEs : Entering(p)

LEMMA Pair ==
  ASSUME NEW e, NEW f
  PROVE  DOMAIN <<e, f>> = {1, 2} /\ <<e, f>>[2] = f
  OBVIOUS

(* A synchronising call posts a collective under its number. *)
LEMMA MeetingPosts ==
  ASSUME NEW p \in PEs, NEW cmd, TypeOf(p, cmd) \in Meeting
  PROVE  \E r \in NewRequests(p, cmd) : r.cmd = cmd /\ r.coll = posted[p] + 1
<1> DEFINE type == TypeOf(p, cmd)
           k == posted[p] + 1
           posts == Posts(type, k)
           rec(i) == [at |-> stamp[p] + i, cmd |-> cmd, ctx |-> CtxOf[cmd[1]],
                      blocking |-> posts[i].blocking, coll |-> posts[i].coll]
<1>1. \E i \in DOMAIN posts : posts[i].coll = k
  <2>1. Request(TRUE, k).coll = k /\ Request(FALSE, k).coll = k
    BY DEF Request
  <2>2. CASE type = "BROADCAST"
    <3>1. posts = <<Request(FALSE, 0), Request(FALSE, k)>>
      BY <2>2 DEF Posts, Nonblocking
    <3>2. 2 \in DOMAIN posts /\ posts[2] = Request(FALSE, k)
      BY <3>1, Pair, Zenon
    <3> QED
      BY <2>1, <3>2
  <2>3. CASE type # "BROADCAST"
    <3>1. posts = <<Request(TRUE, k)>> \/ posts = <<Request(FALSE, k)>>
      BY <2>3 DEF Posts, Nonblocking, Meeting, Collective
    <3>2. 1 \in DOMAIN posts
      BY <3>1, Single, Zenon
    <3>3. posts[1] = Request(TRUE, k) \/ posts[1] = Request(FALSE, k)
      BY <3>1, Single, Zenon
    <3> QED
      BY <2>1, <3>2, <3>3
  <2> QED
    BY <2>2, <2>3
<1>2. NewRequests(p, cmd) = {rec(i) : i \in DOMAIN posts}
  BY DEF NewRequests
<1> HIDE DEF posts
<1>3. PICK i \in DOMAIN posts : posts[i].coll = k
  BY <1>1
<1>4. rec(i) \in NewRequests(p, cmd) /\ rec(i).cmd = cmd /\ rec(i).coll = k
  BY <1>2, <1>3
<1> QED
  BY <1>4

LEMMA InitEntering == TransportInit => \A p \in PEs : Entering(p)
<1> SUFFICES ASSUME TransportInit, NEW p \in PEs PROVE Entering(p)
  OBVIOUS
<1>1. program[p] \in [Threads -> Seq(Types)]
  BY TransportAssumption DEF TransportInit
<1>2. \A t \in Threads :
        pos[p][t] = 0 /\ state[p][t] = "run" /\ Len(program[p][t]) \in Nat
  BY <1>1 DEF TransportInit
<1> QED
  BY <1>2 DEF Entering

(* The others may only enter more collectives. *)
LEMMA OtherEntering ==
  ASSUME NEW r \in PEs, Entering(r), program' = program,
         pos'[r] = pos[r], state'[r] = state[r], queue'[r] = queue[r],
         requests'[r] = requests[r], posted'[r] = posted[r],
         posted \in [PEs -> Nat], posted' \in [PEs -> Nat],
         \A s \in PEs : posted'[s] >= posted[s]
  PROVE  Entering(r)'
<1>1. \A t \in Threads :
        /\ Current(r, t)' = Current(r, t)
        /\ TypeOf(r, Current(r, t))' = TypeOf(r, Current(r, t))
  BY DEF Current, TypeOf
<1>2. Queued(r)' = Queued(r)
  BY DEF Queued
<1>3. AllIn(r) => AllIn(r)'
  BY DEF AllIn
<1> QED
  BY <1>1, <1>2, <1>3 DEF Entering

(* A call that is issued is queued. *)
LEMMA InsertEntering ==
  ASSUME CallInv, NEW p \in PEs, Entering(p), NEW t \in Threads,
         InsertRequest(p, t)
  PROVE  Entering(p)'
<1> DEFINE n == pos[p][t] + 1
<1>1. /\ pos \in [PEs -> [Threads -> Nat]] /\ queue \in [PEs -> Seq(Commands)]
      /\ state \in [PEs -> [Threads -> {"run", "blocked"}]]
  BY DEF CallInv, TransportInv, TransportTypeOK
<1>2. /\ n <= Len(program[p][t]) /\ pos' = Put(pos, p, t, n)
      /\ state' = IF program[p][t][n] \in Nonblocking THEN state
                  ELSE Put(state, p, t, "blocked")
      /\ queue' = [queue EXCEPT ![p] = Append(queue[p], <<t, n>>)]
      /\ UNCHANGED <<program, requests, posted>>
  BY DEF InsertRequest, mpi
<1>3. \A u \in Threads : pos'[p][u] = IF u = t THEN n ELSE pos[p][u]
  BY <1>1, <1>2 DEF Put
<1>4. \A u \in Threads : u # t => state'[p][u] = state[p][u]
  BY <1>1, <1>2 DEF Put
<1>5. Queued(p)' = Queued(p) \cup {<<t, n>>}
  <2>1. n \in Nat /\ <<t, n>> \in Commands
    BY <1>1 DEF Commands
  <2>2. /\ DOMAIN queue'[p] = DOMAIN queue[p] \cup {Len(queue[p]) + 1}
        /\ \A i \in DOMAIN queue[p] : queue'[p][i] = queue[p][i]
        /\ queue'[p][Len(queue[p]) + 1] = <<t, n>>
    BY <1>1, <1>2, <2>1
  <2> QED
    BY <2>2 DEF Queued
<1>6. /\ AllIn(p)' <=> AllIn(p)
      /\ n # 0
  BY <1>1, <1>2 DEF AllIn
<1> HIDE DEF n
<1> SUFFICES ASSUME NEW u \in Threads
             PROVE  /\ (pos[p][u] <= Len(program[p][u]))'
                    /\ (state[p][u] = "blocked" => pos[p][u] # 0)'
                    /\ (/\ state[p][u] = "blocked"
                        /\ TypeOf(p, Current(p, u)) \in Meeting
                        /\ Current(p, u) \notin Queued(p)
                        => \/ \E r \in requests[p] :
                                r.cmd = Current(p, u) /\ r.coll = posted[p]
                           \/ AllIn(p))'
  BY DEF Entering
<1>7. CASE u = t
  <2>1. Current(p, u)' \in Queued(p)'
    BY <1>3, <1>5, <1>7 DEF Current
  <2> QED
    BY <1>2, <1>3, <1>6, <1>7, <2>1
<1>8. CASE u # t
  <2>1. /\ Current(p, u)' = Current(p, u)
        /\ TypeOf(p, Current(p, u))' = TypeOf(p, Current(p, u))
    BY <1>2, <1>3, <1>8 DEF Current, TypeOf
  <2> QED
    BY <1>2, <1>3, <1>4, <1>5, <1>6, <1>8, <2>1 DEF Entering
<1> QED
  BY <1>7, <1>8

LEMMA ReturnEntering ==
  ASSUME CallInv, NEW p \in PEs, Entering(p), NEW t \in Threads, Return(p, t)
  PROVE  Entering(p)'
<1>1. state \in [PEs -> [Threads -> {"run", "blocked"}]]
  BY DEF CallInv, TransportInv, TransportTypeOK
<1>2. /\ state' = Put(state, p, t, "run")
      /\ UNCHANGED <<program, pos, queue, requests, posted>>
  BY DEF Return, mpi
<1>3. \A u \in Threads : state'[p][u] = "blocked" => state[p][u] = "blocked"
  BY <1>1, <1>2 DEF Put
<1>4. \A u \in Threads :
        /\ Current(p, u)' = Current(p, u)
        /\ TypeOf(p, Current(p, u))' = TypeOf(p, Current(p, u))
  BY <1>2 DEF Current, TypeOf
<1>5. Queued(p)' = Queued(p) /\ (AllIn(p)' <=> AllIn(p))
  BY <1>2 DEF Queued, AllIn
<1> QED
  BY <1>2, <1>3, <1>4, <1>5 DEF Entering

(* Submitting a collective posts the last one of the PE: the call of any    *)
(* other thread is no collective.                                           *)
LEMMA SubmitEntering ==
  ASSUME OneCaller, CallInv, NEW p \in PEs, Entering(p), Submit(p)
  PROVE  Entering(p)'
<1> DEFINE cmd == Head(queue[p])
           t == cmd[1]
           type == TypeOf(p, cmd)
           new == NewRequests(p, cmd)
<1>1. /\ queue \in [PEs -> Seq(Commands)] /\ requests \in [PEs -> SUBSET Requests]
      /\ pos \in [PEs -> [Threads -> Nat]] /\ posted \in [PEs -> Nat]
      /\ program \in Programs /\ program[p] \in [Threads -> Seq(Types)]
      /\ Calls(p)
  BY TransportAssumption DEF CallInv, TransportInv, TransportTypeOK
<1>2. queue[p] # <<>> /\ cmd \in Commands /\ 1 \in DOMAIN queue[p] /\ cmd = queue[p][1]
  BY <1>1 DEF Submit
<1>3. t \in Threads /\ cmd[2] \in Nat \ {0} /\ cmd = <<t, cmd[2]>>
  BY <1>2 DEF Commands
<1>4. /\ requests' = [requests EXCEPT ![p] = requests[p] \cup new]
      /\ posted' = IF type \in Collective
                   THEN [posted EXCEPT ![p] = posted[p] + 1] ELSE posted
      /\ queue' = [queue EXCEPT ![p] = Tail(queue[p])]
      /\ UNCHANGED <<program, pos, state>>
  BY DEF Submit
<1>5. cmd \in Pending(p)
  BY <1>2 DEF Pending
<1>6. cmd[2] <= pos[p][t]
  BY <1>1, <1>5 DEF Calls, Issued
<1>7. type \in Meeting =>
        \E r \in new : r.cmd = cmd /\ r.coll = posted[p] + 1
  BY MeetingPosts
<1> HIDE DEF cmd, t, type, new
<1>8. /\ requests'[p] = requests[p] \cup new /\ queue'[p] = Tail(queue[p])
      /\ type \in Collective => posted'[p] = posted[p] + 1
      /\ type \notin Collective => posted' = posted
  BY <1>1, <1>4
<1>9. Queued(p) \subseteq Queued(p)' \cup {cmd}
  <2>1. /\ DOMAIN queue[p] = 1 .. Len(queue[p]) /\ Len(queue[p]) \in Nat
        /\ DOMAIN queue'[p] = 1 .. Len(queue[p]) - 1
        /\ \A j \in DOMAIN queue'[p] : queue'[p][j] = queue[p][j + 1]
    BY <1>1, <1>2, <1>8
  <2> SUFFICES ASSUME NEW i \in DOMAIN queue[p], queue[p][i] # cmd
               PROVE  queue[p][i] \in Queued(p)'
    BY DEF Queued
  <2>2. i # 1
    BY <1>2
  <2>3. i - 1 \in DOMAIN queue'[p] /\ queue'[p][i - 1] = queue[p][i]
    BY <2>1, <2>2
  <2> QED
    BY <2>3 DEF Queued
<1> SUFFICES ASSUME NEW u \in Threads
             PROVE  /\ (pos[p][u] <= Len(program[p][u]))'
                    /\ (state[p][u] = "blocked" => pos[p][u] # 0)'
                    /\ (/\ state[p][u] = "blocked"
                        /\ TypeOf(p, Current(p, u)) \in Meeting
                        /\ Current(p, u) \notin Queued(p)
                        => \/ \E r \in requests[p] :
                                r.cmd = Current(p, u) /\ r.coll = posted[p]
                           \/ AllIn(p))'
  BY DEF Entering
<1>10. /\ Current(p, u)' = Current(p, u)
       /\ TypeOf(p, Current(p, u))' = TypeOf(p, Current(p, u))
       /\ pos[p][u] <= Len(program[p][u])
       /\ state[p][u] = "blocked" => pos[p][u] # 0
  BY <1>4 DEF Current, TypeOf, Entering
<1> SUFFICES ASSUME state[p][u] = "blocked",
                    TypeOf(p, Current(p, u)) \in Meeting,
                    Current(p, u) \notin Queued(p)'
             PROVE  \/ \E r \in requests'[p] :
                         r.cmd = Current(p, u) /\ r.coll = posted'[p]
                    \/ AllIn(p)'
  BY <1>4, <1>10
<1>11. CASE Current(p, u) = cmd
  <2>1. type \in Meeting /\ type \in Collective
    BY <1>11 DEF type, Meeting
  <2> QED
    BY <1>7, <1>8, <1>11, <2>1
<1>12. CASE Current(p, u) # cmd
  <2>1. type \notin Collective
    <3> SUFFICES ASSUME type \in Collective PROVE FALSE
      OBVIOUS
    <3>1. cmd = Current(p, t)
      <4>1. type \notin Nonblocking
        BY DEF Collective, Nonblocking
      <4> QED
        BY <1>1, <1>5, <4>1 DEF Calls, Blocked, type, t
    <3>2. pos[p][u] \in Nat /\ pos[p][t] \in Nat /\ cmd[2] = pos[p][t]
      BY <1>1, <1>3, <3>1 DEF Current
    <3>3. pos[p][t] \in DOMAIN program[p][t]
      <4>1. pos[p][t] <= Len(program[p][t]) /\ pos[p][t] # 0
        BY <1>3, <3>2 DEF Entering
      <4>2. program[p][t] \in Seq(Types)
        BY <1>1, <1>3
      <4> QED
        BY <3>2, <4>1, <4>2
    <3>4. program[p][t][pos[p][t]] \in Collective
      BY <3>1 DEF type, TypeOf, Current
    <3>5. program[p][u][pos[p][u]] \in Collective
      BY DEF TypeOf, Current, Meeting
    <3>6. pos[p][u] \in DOMAIN program[p][u]
      <4>1. pos[p][u] # 0
        BY DEF Entering
      <4>2. program[p][u] \in Seq(Types)
        BY <1>1
      <4> QED
        BY <1>10, <3>2, <4>1, <4>2
    <3>7. t = u
      BY <1>1, <1>3, <3>3, <3>4, <3>5, <3>6 DEF OneCaller
    <3> QED
      BY <1>12, <3>1, <3>7
  <2>2. \/ \E r \in requests[p] : r.cmd = Current(p, u) /\ r.coll = posted[p]
        \/ AllIn(p)
    BY <1>9, <1>12 DEF Entering
  <2> QED
    BY <1>8, <2>1, <2>2 DEF AllIn
<1> QED
  BY <1>11, <1>12

(* A collective MPI has completed is one that every PE has posted. *)
LEMMA ProgressEntering ==
  ASSUME CallInv, NEW p \in PEs, Entering(p),
         NEW done \in SUBSET Testable(p), Progress(p, done)
  PROVE  Entering(p)'
<1>1. requests \in [PEs -> SUBSET Requests]
  BY DEF CallInv, TransportInv, TransportTypeOK
<1>2. /\ requests' = [requests EXCEPT ![p] = requests[p] \ done]
      /\ UNCHANGED <<program, pos, state, queue, posted>>
  BY DEF Progress
<1>3. \A u \in Threads :
        /\ Current(p, u)' = Current(p, u)
        /\ TypeOf(p, Current(p, u))' = TypeOf(p, Current(p, u))
  BY <1>2 DEF Current, TypeOf
<1>4. Queued(p)' = Queued(p) /\ (AllIn(p)' <=> AllIn(p))
  BY <1>2 DEF Queued, AllIn
<1>5. \A r \in requests[p] :
        r.coll = posted[p] => r \in requests'[p] \/ AllIn(p)
  <2>1. \A r \in done : Ready(r)
    BY DEF Testable
  <2> QED
    BY <1>1, <1>2, <2>1 DEF Ready, AllIn
<1>6. ASSUME NEW u \in Threads,
             \E r \in requests[p] : r.cmd = Current(p, u) /\ r.coll = posted[p]
      PROVE  \/ \E r \in requests'[p] : r.cmd = Current(p, u) /\ r.coll = posted[p]
             \/ AllIn(p)
  BY <1>5, <1>6
<1> QED
  BY <1>2, <1>3, <1>4, <1>6 DEF Entering

(* No PE takes back a collective it has posted. *)
LEMMA PostedGrows ==
  ASSUME CallInv, CallInv', [TransportNext \/ TransportFinished]_transportVars
  PROVE  /\ posted \in [PEs -> Nat] /\ posted' \in [PEs -> Nat]
         /\ \A s \in PEs : posted'[s] >= posted[s]
<1>1. posted \in [PEs -> Nat] /\ posted' \in [PEs -> Nat]
  BY DEF CallInv, TransportInv, TransportTypeOK
<1>2. CASE posted' = posted
  BY <1>1, <1>2
<1>3. ASSUME NEW p \in PEs, posted' = [posted EXCEPT ![p] = posted[p] + 1]
      PROVE  \A s \in PEs : posted'[s] >= posted[s]
  BY <1>1, <1>3
<1>4. ASSUME NEW p \in PEs, Submit(p) PROVE \A s \in PEs : posted'[s] >= posted[s]
  BY <1>1, <1>2, <1>3, <1>4 DEF Submit
<1> QED
  BY <1>1, <1>2, <1>4
  DEF TransportNext, TransportFinished, InsertRequest, Return, Poll, Progress, transportVars, mpi

LEMMA EnteredStep ==
  ASSUME OneCaller
  PROVE  EnteredInv /\ [TransportNext \/ TransportFinished]_transportVars => EnteredInv'
<1> SUFFICES ASSUME EnteredInv, [TransportNext \/ TransportFinished]_transportVars PROVE EnteredInv'
  OBVIOUS
<1>1. CallInv /\ CallInv' /\ \A r \in PEs : Entering(r)
  BY CallInvStep DEF EnteredInv
<1>2. /\ posted \in [PEs -> Nat] /\ posted' \in [PEs -> Nat]
      /\ \A s \in PEs : posted'[s] >= posted[s]
  BY <1>1, PostedGrows
<1>3. /\ pos \in [PEs -> [Threads -> Nat]] /\ queue \in [PEs -> Seq(Commands)]
      /\ state \in [PEs -> [Threads -> {"run", "blocked"}]]
      /\ requests \in [PEs -> SUBSET Requests]
  BY <1>1 DEF CallInv, TransportInv, TransportTypeOK
<1>4. CASE UNCHANGED transportVars
  <2>1. \A r \in PEs : Entering(r)'
    BY <1>1, <1>2, <1>4, OtherEntering DEF transportVars
  <2> QED
    BY <1>1, <2>1 DEF EnteredInv
<1>5. ASSUME NEW p \in PEs, Entering(p)', program' = program,
             \A r \in PEs \ {p} :
               /\ pos'[r] = pos[r] /\ state'[r] = state[r]
               /\ queue'[r] = queue[r] /\ requests'[r] = requests[r]
               /\ posted'[r] = posted[r]
      PROVE  EnteredInv'
  <2>1. \A r \in PEs : Entering(r)'
    BY <1>1, <1>2, <1>5, OtherEntering
  <2> QED
    BY <1>1, <2>1 DEF EnteredInv
<1>6. ASSUME NEW p \in PEs, NEW t \in Threads, InsertRequest(p, t)
      PROVE  EnteredInv'
  <2>1. Entering(p)'
    BY <1>1, <1>6, InsertEntering
  <2> QED
    BY <1>3, <1>5, <1>6, <2>1 DEF InsertRequest, Put, mpi
<1>7. ASSUME NEW p \in PEs, NEW t \in Threads, Return(p, t) PROVE EnteredInv'
  <2>1. Entering(p)'
    BY <1>1, <1>7, ReturnEntering
  <2> QED
    BY <1>3, <1>5, <1>7, <2>1 DEF Return, Put, mpi
<1>8. ASSUME NEW p \in PEs, Submit(p) PROVE EnteredInv'
  <2>1. Entering(p)'
    BY <1>1, <1>8, SubmitEntering
  <2> QED
    BY <1>2, <1>3, <1>5, <1>8, <2>1 DEF Submit
<1>9. ASSUME NEW p \in PEs, NEW done \in SUBSET Testable(p), Progress(p, done)
      PROVE  EnteredInv'
  <2>1. Entering(p)'
    BY <1>1, <1>9, ProgressEntering
  <2> QED
    BY <1>3, <1>5, <1>9, <2>1 DEF Progress
<1> QED
  BY <1>4, <1>6, <1>7, <1>8, <1>9 DEF TransportNext, TransportFinished, Poll

(* A call that is answered is neither queued nor in flight. *)
LEMMA EnteredImplies == EnteredInv => EveryoneEntered
<1> SUFFICES ASSUME EnteredInv, NEW p \in PEs, NEW t \in Threads,
                    Notifies(p, t, Collective \ {"ALLTOALL"})
             PROVE  AllIn(p)
  BY DEF EveryoneEntered, AllIn
<1>1. OwnCallOver
  BY CallInvImplies DEF EnteredInv
<1>2. /\ state[p][t] = "blocked" /\ Current(p, t) \notin Pending(p)
      /\ TypeOf(p, Current(p, t)) \in Meeting
  BY <1>1 DEF OwnCallOver, Notifies, Meeting
<1>3. Current(p, t) \notin Queued(p) /\ \A r \in requests[p] : r.cmd # Current(p, t)
  BY <1>2 DEF Pending, Queued
<1> QED
  BY <1>2, <1>3 DEF EnteredInv, Entering

(* No PE leaves a barrier, a sync, a reduction or a broadcast before every   *)
(* PE has entered it, if one thread of a PE makes the collectives: MPI pairs *)
(* them by the order in which a PE posts them (mpi_transport.cpp:288).       *)
THEOREM CollectivesMeet ==
  ASSUME OneCaller
  PROVE  TransportSpec => []EveryoneEntered
<1>1. TransportInit => EnteredInv
  BY InitTransport, InitCalls, InitEntering DEF CallInv, EnteredInv
<1>2. EnteredInv /\ [TransportNext \/ TransportFinished]_transportVars => EnteredInv'
  BY EnteredStep
<1> QED
  BY <1>1, <1>2, EnteredImplies, PTL DEF TransportSpec

=============================================================================
