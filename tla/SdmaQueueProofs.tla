-------------------------- MODULE SdmaQueueProofs --------------------------
(***************************************************************************)
(* Proofs about SdmaQueue for every number of wavefronts and contexts,     *)
(* every ring and packet size and every program.                           *)
(***************************************************************************)
EXTENDS SdmaQueue, TLAPS

(* Indices less than a ring apart fall on different units. *)
LEMMA ProductLemma ==
  ASSUME NEW a \in Int, NEW b \in Int, a <= b
  PROVE  S * a <= S * b
  BY QueueAssumption

LEMMA UnitsApart ==
  ASSUME NEW i \in Nat, NEW j \in Nat, i < j, j < i + S
  PROVE  WrapIntoRing(i) # WrapIntoRing(j)
<1> SUFFICES ASSUME i % S = j % S PROVE FALSE
  BY DEF WrapIntoRing
<1> DEFINE a == i \div S
           b == j \div S
<1>1. /\ i = S * a + (i % S) /\ j = S * b + (i % S)
      /\ a \in Int /\ b \in Int /\ i % S \in Int /\ S \in Nat
  BY QueueAssumption
<1> HIDE DEF a, b
<1>2. S * b - S * a > 0 /\ S * b - S * a < S
  BY <1>1
<1>3. CASE b <= a
  <2>1. S * b <= S * a
    BY <1>1, <1>3, ProductLemma
  <2> QED
    BY <1>1, <1>2, <2>1
<1>4. CASE a + 1 <= b
  <2>1. S * (a + 1) <= S * b
    BY <1>1, <1>4, ProductLemma
  <2>2. S * (a + 1) = S * a + S
    BY <1>1
  <2> QED
    BY <1>1, <1>2, <2>1, <2>2
<1> QED
  BY <1>1, <1>3, <1>4

LEMMA WrapRange == \A i \in Nat : WrapIntoRing(i) \in 0 .. S - 1
  BY QueueAssumption DEF WrapIntoRing

(* The NOPs in front of a packet are fewer than the packet's units. *)
LEMMA OffsetRange == \A i \in Nat : Offset(i) \in Nat /\ Offset(i) < Size
<1> TAKE i \in Nat
<1>1. WrapIntoRing(i) \in 0 .. S - 1
  BY WrapRange
<1> QED
  BY <1>1, QueueAssumption DEF Offset

LEMMA NewIndexRange ==
  ASSUME NEW w \in Waves, cur[w] \in Nat
  PROVE  /\ NewIndex(w) \in Nat /\ cur[w] + Size <= NewIndex(w)
         /\ cur[w] < NewIndex(w)
<1>1. Offset(cur[w]) \in Nat
  BY OffsetRange
<1> QED
  BY <1>1, QueueAssumption DEF NewIndex

----------------------------------------------------------------------------
(* Typing.                                                                 *)

UnitSet == [idx : Nat \cup {-1}, len : Nat, call : Calls \cup {NoCall}]

LEMMA CallingType ==
  ASSUME TypeOK, NEW w \in Waves
  PROVE  Call(w) \in Calls /\ returned[w] + 1 \in Nat
  BY DEF TypeOK, Call, Calls

LEMMA UnitType ==
  ASSUME TypeOK, NEW w \in Waves, NEW i \in cur[w] .. NewIndex(w) - 1
  PROVE  /\ Unit(w, i) \in UnitSet
         /\ Unit(w, i).idx = i
         /\ i + Unit(w, i).len <= NewIndex(w)
<1>1. /\ cur[w] \in Nat /\ Offset(cur[w]) \in Nat /\ Size \in Nat
      /\ NewIndex(w) = cur[w] + Offset(cur[w]) + Size
  BY OffsetRange, QueueAssumption DEF TypeOK, NewIndex
<1> DEFINE packet == cur[w] + Offset(cur[w])
<1>2. i \in Nat /\ packet <= NewIndex(w) /\ packet \in Nat /\ i < NewIndex(w)
  BY <1>1
<1>3. Call(w) \in Calls
  BY CallingType
<1>4. CASE i < packet
  <2>1. Unit(w, i) = [idx |-> i, len |-> packet - i, call |-> NoCall]
    BY <1>4 DEF Unit
  <2> HIDE DEF packet
  <2>2. packet - i \in Nat /\ i + (packet - i) <= NewIndex(w)
    BY <1>1, <1>2, <1>4
  <2> QED
    BY <1>2, <2>1, <2>2 DEF UnitSet
<1>5. CASE ~(i < packet)
  <2>1. Unit(w, i) = [idx |-> i, len |-> NewIndex(w) - i, call |-> Call(w)]
    BY <1>5 DEF Unit
  <2> HIDE DEF packet
  <2>2. NewIndex(w) \in Nat
    BY <1>1
  <2>3. NewIndex(w) - i \in Nat /\ i + (NewIndex(w) - i) <= NewIndex(w)
    BY <1>2, <2>2
  <2> QED
    BY <1>2, <1>3, <2>1, <2>3 DEF UnitSet
<1> QED
  BY <1>4, <1>5

LEMMA InitType == Init => TypeOK
<1> SUFFICES ASSUME Init PROVE TypeOK
  OBVIOUS
<1>1. queueBuf \in [0 .. S - 1 -> [idx : Nat \cup {-1}, len : Nat, call : Calls \cup {NoCall}]]
  BY DEF Init
<1> QED
  BY <1>1 DEF Init, TypeOK

(* What the steps before a reservation leave alone. *)
LEMMA ReserveType ==
  ASSUME TypeOK, NEW w \in Waves,
         \/ LoadWptr(w) \/ CheckCachedIndex(w) \/ LoadReadIndex(w)
         \/ StoreReadIndex(w) \/ Reserve(w)
  PROVE  TypeOK'
<1>1. NewIndex(w) \in Nat
  BY NewIndexRange DEF TypeOK
<1>2. CASE LoadWptr(w)
  BY <1>2 DEF LoadWptr, Goto, TypeOK, ring, pointers, drain
<1>3. CASE CheckCachedIndex(w)
  BY <1>3 DEF CheckCachedIndex, Goto, TypeOK, ring, pointers, drain
<1>4. CASE LoadReadIndex(w)
  BY <1>4 DEF LoadReadIndex, Goto, TypeOK, ring, pointers, drain
<1>5. CASE StoreReadIndex(w)
  BY <1>5 DEF StoreReadIndex, Goto, TypeOK, ring, pointers, drain
<1>6. CASE Reserve(w)
  BY <1>1, <1>6 DEF Reserve, Goto, TypeOK, ring, pointers, drain
<1> QED
  BY <1>2, <1>3, <1>4, <1>5, <1>6

(* What a wavefront writes: its own units, and no other. *)
LEMMA PlaceEffect ==
  ASSUME TypeOK, NEW w \in Waves, PlacePacket(w), NEW u \in 0 .. S - 1
  PROVE  \/ \E i \in cur[w] .. NewIndex(w) - 1 :
               WrapIntoRing(i) = u /\ queueBuf'[u] = Unit(w, i)
         \/ /\ \A i \in cur[w] .. NewIndex(w) - 1 : WrapIntoRing(i) # u
            /\ queueBuf'[u] = queueBuf[u]
  BY DEF PlacePacket

LEMMA PlaceType ==
  ASSUME TypeOK, NEW w \in Waves, PlacePacket(w)
  PROVE  TypeOK'
<1>1. ASSUME NEW u \in 0 .. S - 1 PROVE queueBuf'[u] \in UnitSet
  <2>1. CASE \E i \in cur[w] .. NewIndex(w) - 1 : queueBuf'[u] = Unit(w, i)
    BY <2>1, UnitType
  <2>2. CASE queueBuf'[u] = queueBuf[u]
    BY <2>2 DEF TypeOK, UnitSet
  <2> QED
    BY <2>1, <2>2, PlaceEffect
<1>2. queueBuf' = [u \in 0 .. S - 1 |-> queueBuf'[u]]
  BY DEF PlacePacket
<1>3. queueBuf' \in [0 .. S - 1 -> UnitSet]
  BY <1>1, <1>2
<1> QED
  BY <1>3 DEF PlacePacket, Goto, TypeOK, pointers, drain, UnitSet

LEMMA SubmitType ==
  ASSUME TypeOK, NEW w \in Waves,
         \/ Turn(w) \/ RingDoorbell(w) \/ Commit(w) \/ StoreMaxWrite(w) \/ MarkDirty(w)
  PROVE  TypeOK'
<1>1. NewIndex(w) \in Nat
  BY NewIndexRange DEF TypeOK
<1>2. CASE Turn(w)
  BY <1>1, <1>2 DEF Turn, Goto, TypeOK, SubmitRest, ring, drain
<1>3. CASE RingDoorbell(w)
  BY <1>1, <1>3 DEF RingDoorbell, Goto, TypeOK, SubmitRest, ring, drain
<1>4. CASE Commit(w)
  BY <1>1, <1>4 DEF Commit, Goto, TypeOK, SubmitRest, ring, drain
<1>5. CASE StoreMaxWrite(w)
  BY <1>1, <1>5 DEF StoreMaxWrite, Goto, TypeOK, SubmitRest, ring, drain
<1>6. CASE MarkDirty(w)
  <2>1. CtxOf[w] \in Contexts
    BY QueueAssumption
  <2>2. returned' \in [Waves -> Nat]
    BY <1>6, CallingType DEF MarkDirty, Returns, TypeOK
  <2> QED
    BY <1>6, <2>1, <2>2 DEF MarkDirty, Goto, TypeOK, ring, pointers
<1> QED
  BY <1>2, <1>3, <1>4, <1>5, <1>6

LEMMA QuietType ==
  ASSUME TypeOK, NEW w \in Waves, Quiet(w)
  PROVE  TypeOK'
<1>1. returned[w] + 1 \in Nat
  BY CallingType
<1>2. CASE ReadDirty(w)
  BY <1>1, <1>2 DEF ReadDirty, Returns, Goto, TypeOK, ring, pointers, drain
<1>3. CASE TakeDirty(w)
  BY <1>1, <1>3 DEF TakeDirty, Returns, Goto, TypeOK, ring, pointers
<1>4. CASE LoadTarget(w)
  BY <1>4 DEF LoadTarget, Goto, TypeOK, ring, pointers, drain
<1>5. CASE ReachTarget(w)
  BY <1>1, <1>5 DEF ReachTarget, Returns, Goto, TypeOK, ring, pointers, drain
<1> QED
  BY <1>2, <1>3, <1>4, <1>5 DEF Quiet

LEMMA ConsumeType ==
  ASSUME TypeOK, Consume
  PROVE  TypeOK'
<1> DEFINE u == queueBuf[WrapIntoRing(rptr)]
<1>1. u \in [idx : Nat \cup {-1}, len : Nat, call : Calls \cup {NoCall}]
  BY WrapRange DEF TypeOK
<1>2. rptr' = rptr + u.len
      /\ executed' = IF u.call = NoCall THEN executed ELSE Append(executed, u.call)
  BY DEF Consume
<1> HIDE DEF u
<1>3. u.len \in Nat /\ u.call \in Calls \cup {NoCall}
  BY <1>1
<1>4. rptr' \in Nat /\ executed' \in Seq(Calls)
  BY <1>2, <1>3 DEF TypeOK
<1> QED
  BY <1>4 DEF Consume, TypeOK, pointers, drain

LEMMA NextType == TypeOK /\ [Next]_vars => TypeOK'
<1> SUFFICES ASSUME TypeOK, [Next]_vars PROVE TypeOK'
  OBVIOUS
<1>1. ASSUME NEW w \in Waves, Submit(w) PROVE TypeOK'
  BY <1>1, ReserveType, PlaceType, SubmitType DEF Submit
<1>2. ASSUME NEW w \in Waves, Quiet(w) PROVE TypeOK'
  BY <1>2, QuietType
<1>3. CASE Consume
  BY <1>3, ConsumeType
<1>4. CASE UNCHANGED vars
  BY <1>4 DEF TypeOK, vars
<1> QED
  BY <1>1, <1>2, <1>3, <1>4 DEF Next, Spin

(* Every variable of the queue keeps its type. *)
THEOREM TypeCorrect == Spec => []TypeOK
<1> QED
  BY InitType, NextType, PTL DEF Spec
----------------------------------------------------------------------------
(* The inductive invariant.  Reservations are intervals of indices that do *)
(* not overlap; the doorbell stands at committedWptr, or at the end of the *)
(* one reservation that has its turn.                                      *)

Holding(w) == pc[w] \in {"place", "turn", "ring", "commit"}

Chain ==
  /\ NoOverrun
  /\ cachedHwReadIndex <= rptr

Polled == \A w \in Waves :
  /\ pc[w] = "refresh" => hw[w] <= rptr
  /\ pc[w] = "cas" => NewIndex(w) - rptr < S

Held == \A w \in Waves :
  Holding(w) => committedWptr <= cur[w] /\ NewIndex(w) <= cachedWptr

Apart == \A v, w \in Waves :
  v # w /\ Holding(v) /\ Holding(w) =>
    NewIndex(v) <= cur[w] \/ NewIndex(w) <= cur[v]

Turns ==
  /\ \A w \in Waves : pc[w] \in {"ring", "commit"} => cur[w] = committedWptr
  /\ \A w \in Waves : pc[w] = "commit" => doorbell = NewIndex(w)
  /\ (\A w \in Waves : pc[w] # "commit") => doorbell = committedWptr

(* Unit i is in the ring, and the engine goes no further than end from it. *)
Whole(i, end) ==
  /\ queueBuf[WrapIntoRing(i)].idx = i
  /\ i + queueBuf[WrapIntoRing(i)].len <= end

Written ==
  /\ \A i \in rptr .. doorbell - 1 : Whole(i, doorbell)
  /\ \A w \in Waves : pc[w] \in {"turn", "ring"} =>
       \A i \in cur[w] .. NewIndex(w) - 1 : Whole(i, NewIndex(w))

IInv == TypeOK /\ Chain /\ Polled /\ Held /\ Apart /\ Turns /\ Written

LEMMA Indices ==
  ASSUME IInv
  PROVE  /\ rptr \in Nat /\ doorbell \in Nat /\ cachedWptr \in Nat
         /\ committedWptr \in Nat /\ cachedHwReadIndex \in Nat /\ S \in Nat
         /\ \A w \in Waves : /\ cur[w] \in Nat /\ NewIndex(w) \in Nat
                             /\ hw[w] \in Nat /\ cur[w] < NewIndex(w)
  BY NewIndexRange, QueueAssumption DEF IInv, TypeOK

(* The doorbell is behind every reservation that has not been submitted. *)
LEMMA DoorbellBehind ==
  ASSUME IInv, NEW w \in Waves, Holding(w), pc[w] # "commit"
  PROVE  doorbell <= cur[w]
<1>1. CASE \A v \in Waves : pc[v] # "commit"
  BY <1>1 DEF IInv, Turns, Held
<1>2. ASSUME NEW v \in Waves, pc[v] = "commit" PROVE doorbell <= cur[w]
  <2>1. doorbell = NewIndex(v) /\ cur[v] = committedWptr /\ committedWptr <= cur[w]
    BY <1>2 DEF IInv, Turns, Held
  <2>2. NewIndex(v) <= cur[w] \/ NewIndex(w) <= cur[v]
    BY <1>2 DEF IInv, Apart, Holding
  <2> QED
    BY <2>1, <2>2, Indices
<1> QED
  BY <1>1, <1>2

LEMMA OneHasTurn ==
  ASSUME IInv, NEW v \in Waves, NEW w \in Waves,
         pc[v] \in {"ring", "commit"}, Holding(w), cur[w] = committedWptr
  PROVE  v = w
<1>1. cur[v] = committedWptr
  BY DEF IInv, Turns
<1>2. v # w => NewIndex(v) <= cur[w] \/ NewIndex(w) <= cur[v]
  BY DEF IInv, Apart, Holding
<1> QED
  BY <1>1, <1>2, Indices

LEMMA InitIInv == Init => IInv
<1> SUFFICES ASSUME Init PROVE IInv
  OBVIOUS
<1>1. TypeOK
  BY InitType
<1>2. S \in Nat \ {0}
  BY QueueAssumption
<1> QED
  BY <1>1, <1>2 DEF Init, IInv, Chain, NoOverrun, Polled, Held, Apart, Turns, Written,
     Holding

(* Steps that change nothing the invariant speaks of but pc and hw. *)
LEMMA QuietIInv ==
  ASSUME IInv, TypeOK', NEW w \in Waves, Quiet(w) \/ MarkDirty(w) \/ StoreMaxWrite(w)
  PROVE  IInv'
<1>1. /\ UNCHANGED <<queueBuf, rptr, doorbell, cachedWptr, committedWptr,
                     cachedHwReadIndex, cur>>
      /\ pc' = [pc EXCEPT ![w] = pc'[w]]
      /\ ~Holding(w) /\ pc[w] \notin {"refresh", "cas"}
      /\ pc'[w] \notin {"refresh", "cas", "place", "turn", "ring", "commit"}
      /\ hw' = [hw EXCEPT ![w] = hw'[w]]
  BY DEF IInv, TypeOK, Quiet, ReadDirty, TakeDirty, LoadTarget, ReachTarget,
     MarkDirty, StoreMaxWrite, Goto, Holding, ring, pointers, drain, SubmitRest
<1>2. \A v \in Waves : /\ NewIndex(v)' = NewIndex(v)
                       /\ v # w => pc'[v] = pc[v] /\ hw'[v] = hw[v]
  BY <1>1 DEF IInv, TypeOK, NewIndex
<1>3. \A v \in Waves : Holding(v)' = Holding(v)
  BY <1>1, <1>2 DEF Holding
<1>4. Chain' /\ Polled'
  BY <1>1, <1>2 DEF IInv, Chain, NoOverrun, Polled
<1>5. Held' /\ Apart'
  BY <1>1, <1>2, <1>3 DEF IInv, Held, Apart
<1>6. Turns'
  BY <1>1, <1>2 DEF IInv, Turns, Holding
<1>7. Written'
  BY <1>1, <1>2 DEF IInv, Written, Whole
<1> QED
  BY <1>4, <1>5, <1>6, <1>7 DEF IInv

(* The way to a reservation: the index checked is at most the read index. *)
LEMMA CheckIInv ==
  ASSUME IInv, TypeOK', NEW w \in Waves,
         \/ LoadWptr(w) \/ CheckCachedIndex(w) \/ LoadReadIndex(w) \/ StoreReadIndex(w)
  PROVE  IInv'
<1>1. /\ UNCHANGED <<queueBuf, rptr, doorbell, cachedWptr, committedWptr>>
      /\ pc' = [pc EXCEPT ![w] = pc'[w]] /\ pc'[w] \notin {"place", "turn", "ring", "commit"}
      /\ ~Holding(w)
      /\ \A v \in Waves : v # w => cur'[v] = cur[v] /\ hw'[v] = hw[v]
      /\ cachedHwReadIndex' \in {cachedHwReadIndex, hw[w]}
  BY DEF IInv, TypeOK, LoadWptr, CheckCachedIndex, LoadReadIndex, StoreReadIndex,
     Goto, Holding, ring, pointers, drain
<1>2. \A v \in Waves : v # w => /\ NewIndex(v)' = NewIndex(v)
                                /\ pc'[v] = pc[v] /\ Holding(v)' = Holding(v)
  BY <1>1 DEF IInv, TypeOK, NewIndex, Holding
<1>3. ~Holding(w)' /\ Holding(w) = FALSE
  BY <1>1 DEF IInv, TypeOK, Holding
<1>4. cachedHwReadIndex' <= rptr
  BY DEF IInv, Chain, Polled, LoadWptr, CheckCachedIndex, LoadReadIndex,
     StoreReadIndex, Goto
<1>5. Chain'
  BY <1>1, <1>4 DEF IInv, Chain, NoOverrun
<1>6. /\ pc'[w] = "refresh" => hw'[w] <= rptr
      /\ pc'[w] = "cas" => NewIndex(w)' - rptr < S
  <2>1. CASE LoadWptr(w)
    BY <2>1 DEF IInv, TypeOK, LoadWptr, Goto
  <2>2. CASE CheckCachedIndex(w)
    <3>1. NewIndex(w)' = NewIndex(w)
      BY <2>2 DEF CheckCachedIndex, NewIndex
    <3>2. pc'[w] = "cas" => NewIndex(w) - cachedHwReadIndex < S
      BY <2>2, Indices DEF IInv, TypeOK, CheckCachedIndex, Goto, Fits
    <3>3. pc'[w] # "refresh"
      BY <2>2 DEF IInv, TypeOK, CheckCachedIndex, Goto
    <3> QED
      BY <3>1, <3>2, <3>3, Indices DEF IInv, Chain
  <2>3. CASE LoadReadIndex(w)
    BY <2>3, Indices DEF IInv, TypeOK, LoadReadIndex, Goto
  <2>4. CASE StoreReadIndex(w)
    <3>1. NewIndex(w)' = NewIndex(w)
      BY <2>4 DEF StoreReadIndex, NewIndex
    <3>2. pc'[w] = "cas" => NewIndex(w) - hw[w] < S
      BY <2>4, Indices DEF IInv, TypeOK, StoreReadIndex, Goto, Fits
    <3>3. pc'[w] # "refresh" /\ hw[w] <= rptr
      BY <2>4 DEF IInv, TypeOK, Polled, StoreReadIndex, Goto
    <3> QED
      BY <3>1, <3>2, <3>3, Indices
  <2> QED
    BY <2>1, <2>2, <2>3, <2>4
<1>7. Polled'
  BY <1>1, <1>2, <1>6 DEF IInv, Polled
<1>8. Held' /\ Apart'
  BY <1>1, <1>2, <1>3 DEF IInv, Held, Apart
<1>9. Turns'
  <2>1. \A v \in Waves : pc'[v] = "commit" <=> pc[v] = "commit"
    BY <1>1, <1>2 DEF Holding
  <2>2. \A v \in Waves : pc'[v] \in {"ring", "commit"} => v # w /\ pc[v] = pc'[v]
    BY <1>1, <1>2
  <2> QED
    BY <1>1, <1>2, <2>1, <2>2 DEF IInv, Turns
<1>10. Written'
  BY <1>1, <1>2 DEF IInv, Written, Whole
<1> QED
  BY <1>5, <1>7, <1>8, <1>9, <1>10 DEF IInv

LEMMA ReserveIInv ==
  ASSUME IInv, TypeOK', NEW w \in Waves, Reserve(w)
  PROVE  IInv'
<1>1. /\ UNCHANGED <<queueBuf, rptr, doorbell, committedWptr, cachedHwReadIndex, cur, hw>>
      /\ pc[w] = "cas" /\ ~Holding(w)
      /\ pc' = [pc EXCEPT ![w] = pc'[w]]
      /\ \/ pc'[w] = "out" /\ cachedWptr' = cachedWptr
         \/ /\ pc'[w] = "place"
            /\ cachedWptr = cur[w] /\ cachedWptr' = NewIndex(w)
  BY DEF IInv, TypeOK, Reserve, Goto, Holding, ring, pointers, drain
<1>2. \A v \in Waves : /\ NewIndex(v)' = NewIndex(v)
                       /\ v # w => pc'[v] = pc[v] /\ (Holding(v)' <=> Holding(v))
  BY <1>1 DEF IInv, TypeOK, NewIndex, Holding
<1>3. cachedWptr <= cachedWptr' /\ NewIndex(w) - rptr < S /\ cachedWptr' \in Nat
  BY <1>1, Indices DEF IInv, Polled
<1>4. Chain' /\ Polled'
  BY <1>1, <1>2, <1>3, Indices DEF IInv, Chain, NoOverrun, Polled
<1>5. Held'
  <2>1. committedWptr <= cachedWptr
    <3>1. CASE \A v \in Waves : pc[v] # "commit"
      BY <3>1, Indices DEF IInv, Turns, Chain, NoOverrun
    <3>2. ASSUME NEW v \in Waves, pc[v] = "commit" PROVE committedWptr <= cachedWptr
      BY <3>2, Indices DEF IInv, Held, Holding
    <3> QED
      BY <3>1, <3>2
  <2>2. ASSUME NEW v \in Waves, Holding(v)'
        PROVE  committedWptr <= cur[v] /\ NewIndex(v) <= cachedWptr'
    <3>1. CASE v = w
      <4>1. pc'[w] = "place"
        BY <1>1, <2>2, <3>1 DEF Holding
      <4> QED
        BY <1>1, <2>1, <3>1, <4>1, Indices
    <3>2. CASE v # w
      <4>1. committedWptr <= cur[v] /\ NewIndex(v) <= cachedWptr
        BY <1>2, <2>2, <3>2 DEF IInv, Held
      <4> QED
        BY <1>3, <4>1, Indices
    <3> QED
      BY <3>1, <3>2
  <2> QED
    BY <1>1, <1>2, <2>2 DEF Held
<1>6. Apart'
  <2> SUFFICES ASSUME NEW u \in Waves, NEW v \in Waves, u # v, Holding(u)', Holding(v)'
               PROVE  NewIndex(u) <= cur[v] \/ NewIndex(v) <= cur[u]
    BY <1>1, <1>2 DEF Apart
  <2>1. CASE u = w
    <3>1. Holding(v) /\ pc'[w] = "place"
      BY <1>1, <1>2, <2>1 DEF Holding
    <3> QED
      BY <1>1, <2>1, <3>1 DEF IInv, Held
  <2>2. CASE v = w
    <3>1. Holding(u) /\ pc'[w] = "place"
      BY <1>1, <1>2, <2>2 DEF Holding
    <3> QED
      BY <1>1, <2>2, <3>1 DEF IInv, Held
  <2>3. CASE u # w /\ v # w
    BY <1>2, <2>3 DEF IInv, Apart
  <2> QED
    BY <2>1, <2>2, <2>3
<1>7. Turns'
  <2>1. \A v \in Waves : pc'[v] = "commit" <=> pc[v] = "commit"
    BY <1>1, <1>2
  <2>2. \A v \in Waves : pc'[v] \in {"ring", "commit"} => v # w /\ pc[v] = pc'[v]
    BY <1>1, <1>2
  <2> QED
    BY <1>1, <1>2, <2>1, <2>2 DEF IInv, Turns
<1>8. Written'
  <2>1. \A v \in Waves : pc'[v] \in {"turn", "ring"} => v # w /\ pc[v] = pc'[v]
    BY <1>1, <1>2
  <2> QED
    BY <1>1, <1>2, <2>1 DEF IInv, Written, Whole
<1> QED
  BY <1>4, <1>5, <1>6, <1>7, <1>8 DEF IInv

(* Units written now are neither exposed yet nor another reservation's. *)
LEMMA PlaceKeeps ==
  ASSUME IInv, NEW w \in Waves, PlacePacket(w),
         NEW i \in rptr .. cachedWptr - 1, i \notin cur[w] .. NewIndex(w) - 1
  PROVE  queueBuf'[WrapIntoRing(i)] = queueBuf[WrapIntoRing(i)]
<1>1. pc[w] = "place"
  BY DEF PlacePacket, Goto
<1>2. doorbell <= cur[w] /\ NewIndex(w) <= cachedWptr
  BY <1>1, DoorbellBehind DEF IInv, Held, Holding
<1>3. i \in Nat /\ WrapIntoRing(i) \in 0 .. S - 1
  BY WrapRange, Indices
<1>4. ASSUME NEW j \in cur[w] .. NewIndex(w) - 1 PROVE WrapIntoRing(j) # WrapIntoRing(i)
  <2>1. /\ rptr <= doorbell /\ cachedWptr - rptr < S
    BY DEF IInv, Chain, NoOverrun
  <2>2. j # i
    BY <1>4
  <2>3. cur[w] \in Nat /\ NewIndex(w) \in Nat /\ rptr \in Nat /\ cachedWptr \in Nat
    BY Indices
  <2>4. /\ j \in Nat /\ j # i /\ cur[w] <= j /\ j < NewIndex(w)
        /\ rptr <= i /\ i < cachedWptr
    BY <1>4, <2>2, <2>3
  <2>5. j < i + S /\ i < j + S
    BY <1>2, <1>3, <2>1, <2>4, Indices
  <2>6. CASE i < j
    BY <1>3, <2>4, <2>5, <2>6, UnitsApart
  <2>7. CASE j < i
    BY <1>3, <2>4, <2>5, <2>7, UnitsApart
  <2> QED
    BY <1>3, <2>4, <2>6, <2>7
<1> QED
  BY <1>3, <1>4, PlaceEffect DEF IInv

LEMMA PlaceWrites ==
  ASSUME IInv, NEW w \in Waves, PlacePacket(w), NEW i \in cur[w] .. NewIndex(w) - 1
  PROVE  queueBuf'[WrapIntoRing(i)] = Unit(w, i)
<1>1. pc[w] = "place"
  BY DEF PlacePacket, Goto
<1>2. doorbell <= cur[w] /\ NewIndex(w) <= cachedWptr
  BY <1>1, DoorbellBehind DEF IInv, Held, Holding
<1>3. i \in Nat /\ WrapIntoRing(i) \in 0 .. S - 1
  BY WrapRange, Indices
<1>4. PICK j \in cur[w] .. NewIndex(w) - 1 :
        WrapIntoRing(j) = WrapIntoRing(i) /\ queueBuf'[WrapIntoRing(i)] = Unit(w, j)
  BY <1>3, PlaceEffect DEF IInv
<1>5. j \in Nat /\ j < i + S /\ i < j + S
  BY <1>2, <1>3, Indices DEF IInv, Chain, NoOverrun
<1>6. j = i
  BY <1>3, <1>4, <1>5, UnitsApart
<1> QED
  BY <1>4, <1>6

LEMMA PlaceIInv ==
  ASSUME IInv, TypeOK', NEW w \in Waves, PlacePacket(w)
  PROVE  IInv'
<1>1. /\ UNCHANGED <<rptr, doorbell, cachedWptr, committedWptr, cachedHwReadIndex, cur, hw>>
      /\ pc[w] = "place" /\ pc'[w] = "turn" /\ pc' = [pc EXCEPT ![w] = "turn"]
  BY DEF IInv, TypeOK, PlacePacket, Goto, pointers, drain
<1>2. \A v \in Waves : /\ NewIndex(v)' = NewIndex(v)
                       /\ v # w => pc'[v] = pc[v]
                       /\ Holding(v)' <=> Holding(v)
  BY <1>1 DEF IInv, TypeOK, NewIndex, Holding
<1>3. Chain' /\ Polled' /\ Held' /\ Apart' /\ Turns'
  BY <1>1, <1>2 DEF IInv, Chain, NoOverrun, Polled, Held, Apart, Turns
<1>4. doorbell <= cur[w] /\ NewIndex(w) <= cachedWptr
  BY <1>1, DoorbellBehind DEF IInv, Held, Holding
<1>5. ASSUME NEW i \in cur[w] .. NewIndex(w) - 1 PROVE Whole(i, NewIndex(w))'
  BY <1>2, PlaceWrites, UnitType DEF IInv, Whole
<1>6. ASSUME NEW i \in rptr .. doorbell - 1 PROVE Whole(i, doorbell)'
  <2>1. Whole(i, doorbell) /\ i \in rptr .. cachedWptr - 1 /\ i \notin cur[w] .. NewIndex(w) - 1
    BY <1>4, Indices DEF IInv, Written, Chain, NoOverrun
  <2>2. queueBuf'[WrapIntoRing(i)] = queueBuf[WrapIntoRing(i)]
    BY <2>1, PlaceKeeps
  <2> QED
    BY <1>1, <2>1, <2>2 DEF Whole
<1>7. ASSUME NEW v \in Waves, pc'[v] \in {"turn", "ring"}, v # w,
             NEW i \in cur[v] .. NewIndex(v) - 1
      PROVE  Whole(i, NewIndex(v))'
  <2>1. pc[v] \in {"turn", "ring"} /\ Whole(i, NewIndex(v))
    BY <1>2, <1>7 DEF IInv, Written
  <2>2. doorbell <= cur[v] /\ NewIndex(v) <= cachedWptr
    BY <2>1, DoorbellBehind DEF IInv, Held, Holding
  <2>3. NewIndex(v) <= cur[w] \/ NewIndex(w) <= cur[v]
    BY <1>1, <1>7, <2>1 DEF IInv, Apart, Holding
  <2>4. i \in rptr .. cachedWptr - 1 /\ i \notin cur[w] .. NewIndex(w) - 1
    BY <2>2, <2>3, Indices DEF IInv, Chain, NoOverrun
  <2>5. queueBuf'[WrapIntoRing(i)] = queueBuf[WrapIntoRing(i)]
    BY <2>4, PlaceKeeps
  <2> QED
    BY <1>2, <2>1, <2>5 DEF Whole
<1>8. Written'
  BY <1>1, <1>2, <1>5, <1>6, <1>7 DEF Written
<1> QED
  BY <1>3, <1>8 DEF IInv

(* Steps that move the doorbell and the turn, and no reservation. *)
LEMMA TurnIInv ==
  ASSUME IInv, TypeOK', NEW w \in Waves, Turn(w)
  PROVE  IInv'
<1>1. /\ UNCHANGED <<queueBuf, rptr, doorbell, cachedWptr, committedWptr,
                     cachedHwReadIndex, cur, hw>>
      /\ pc[w] = "turn" /\ pc' = [pc EXCEPT ![w] = "ring"] /\ cur[w] = committedWptr
  BY DEF Turn, Goto, SubmitRest, ring
<1>2. \A v \in Waves : /\ NewIndex(v)' = NewIndex(v)
                       /\ v # w => pc'[v] = pc[v]
                       /\ Holding(v)' <=> Holding(v)
  BY <1>1 DEF IInv, TypeOK, NewIndex, Holding
<1>3. pc'[w] = "ring"
  BY <1>1 DEF IInv, TypeOK
<1>4. Chain' /\ Polled' /\ Held' /\ Apart'
  BY <1>1, <1>2, <1>3 DEF IInv, Chain, NoOverrun, Polled, Held, Apart
<1>5. Turns' /\ Written'
  BY <1>1, <1>2, <1>3 DEF IInv, Turns, Written, Whole
<1> QED
  BY <1>4, <1>5 DEF IInv

LEMMA DoorbellIInv ==
  ASSUME IInv, TypeOK', NEW w \in Waves, RingDoorbell(w)
  PROVE  IInv' /\ doorbell = cur[w] /\ doorbell' = NewIndex(w)
<1>1. /\ UNCHANGED <<queueBuf, rptr, cachedWptr, committedWptr,
                     cachedHwReadIndex, cur, hw>>
      /\ pc[w] = "ring" /\ pc' = [pc EXCEPT ![w] = "commit"] /\ doorbell' = NewIndex(w)
  BY DEF RingDoorbell, Goto, SubmitRest, ring
<1>2. \A v \in Waves : /\ NewIndex(v)' = NewIndex(v)
                       /\ v # w => pc'[v] = pc[v]
                       /\ Holding(v)' <=> Holding(v)
  BY <1>1 DEF IInv, TypeOK, NewIndex, Holding
<1>3. pc'[w] = "commit"
  BY <1>1 DEF IInv, TypeOK
<1>4. cur[w] = committedWptr /\ \A v \in Waves : pc[v] \in {"ring", "commit"} => v = w
  <2>1. cur[w] = committedWptr
    BY <1>1 DEF IInv, Turns
  <2> QED
    BY <1>1, <2>1, OneHasTurn DEF Holding
<1>5. doorbell = cur[w]
  BY <1>1, <1>4 DEF IInv, Turns
<1>6. cur[w] < NewIndex(w) /\ NewIndex(w) <= cachedWptr
  BY <1>1, Indices DEF IInv, Held, Holding
<1>7. Chain' /\ Polled' /\ Held' /\ Apart'
  BY <1>1, <1>2, <1>3, <1>5, <1>6, Indices
     DEF IInv, Chain, NoOverrun, Polled, Held, Apart
<1>8. Turns'
  BY <1>1, <1>2, <1>3, <1>4 DEF IInv, Turns
<1>9. ASSUME NEW i \in rptr .. doorbell' - 1 PROVE Whole(i, NewIndex(w))
  <2>1. CASE i \in cur[w] .. NewIndex(w) - 1
    BY <1>1, <2>1 DEF IInv, Written
  <2>2. CASE i \in rptr .. doorbell - 1
    <3>1. Whole(i, doorbell) /\ i \in Nat /\ WrapIntoRing(i) \in 0 .. S - 1
      BY <2>2, WrapRange, Indices DEF IInv, Written
    <3>2. queueBuf[WrapIntoRing(i)].len \in Nat
      BY <3>1 DEF IInv, TypeOK
    <3> QED
      BY <1>5, <1>6, <3>1, <3>2, Indices DEF Whole
  <2> QED
    BY <1>1, <1>5, <2>1, <2>2, Indices
<1>10. Written'
  <2>1. \A i \in rptr .. doorbell' - 1 : Whole(i, doorbell)'
    BY <1>1, <1>9 DEF Whole
  <2>2. \A v \in Waves : pc'[v] \in {"turn", "ring"} => v # w /\ pc[v] = pc'[v]
    BY <1>2, <1>3
  <2> QED
    BY <1>1, <1>2, <2>1, <2>2 DEF IInv, Written, Whole
<1> QED
  BY <1>1, <1>5, <1>7, <1>8, <1>10 DEF IInv

LEMMA CommitIInv ==
  ASSUME IInv, TypeOK', NEW w \in Waves, Commit(w)
  PROVE  IInv' /\ committedWptr = cur[w] /\ committedWptr' = NewIndex(w)
<1>1. /\ UNCHANGED <<queueBuf, rptr, doorbell, cachedWptr, cachedHwReadIndex, cur, hw>>
      /\ pc[w] = "commit" /\ pc' = [pc EXCEPT ![w] = "max"]
      /\ committedWptr' = NewIndex(w)
  BY DEF Commit, Goto, SubmitRest, ring
<1>2. \A v \in Waves : /\ NewIndex(v)' = NewIndex(v)
                       /\ v # w => pc'[v] = pc[v] /\ (Holding(v)' <=> Holding(v))
  BY <1>1 DEF IInv, TypeOK, NewIndex, Holding
<1>3. pc'[w] = "max" /\ ~Holding(w)'
  BY <1>1 DEF IInv, TypeOK, Holding
<1>4. cur[w] = committedWptr /\ doorbell = NewIndex(w)
      /\ \A v \in Waves : pc[v] \in {"ring", "commit"} => v = w
  <2>1. cur[w] = committedWptr /\ doorbell = NewIndex(w)
    BY <1>1 DEF IInv, Turns
  <2> QED
    BY <1>1, <2>1, OneHasTurn DEF Holding
<1>5. Chain' /\ Polled' /\ Apart'
  BY <1>1, <1>2, <1>3 DEF IInv, Chain, NoOverrun, Polled, Apart
<1>6. Held'
  <2>1. ASSUME NEW v \in Waves, Holding(v)'
        PROVE  NewIndex(w) <= cur[v] /\ NewIndex(v) <= cachedWptr
    <3>1. v # w /\ Holding(v) /\ pc[v] # "commit"
      BY <1>2, <1>3, <1>4, <2>1 DEF Holding
    <3> QED
      BY <1>4, <3>1, DoorbellBehind DEF IInv, Held
  <2> QED
    BY <1>1, <1>2, <2>1 DEF Held
<1>7. Turns'
  <2>1. \A v \in Waves : pc'[v] \notin {"ring", "commit"}
    BY <1>2, <1>3, <1>4
  <2> QED
    BY <1>1, <1>4, <2>1 DEF Turns
<1>8. Written'
  <2>1. \A v \in Waves : pc'[v] \in {"turn", "ring"} => v # w /\ pc[v] = pc'[v]
    BY <1>2, <1>3
  <2> QED
    BY <1>1, <1>2, <2>1 DEF IInv, Written, Whole
<1> QED
  BY <1>1, <1>4, <1>5, <1>6, <1>7, <1>8 DEF IInv

(* The engine stays behind the doorbell. *)
LEMMA ConsumeIInv ==
  ASSUME IInv, TypeOK', Consume
  PROVE  IInv' /\ rptr <= rptr'
<1>1. /\ UNCHANGED <<queueBuf, doorbell, cachedWptr, committedWptr, cachedHwReadIndex,
                     pc, cur, hw>>
      /\ rptr < doorbell /\ rptr' = rptr + queueBuf[WrapIntoRing(rptr)].len
  BY DEF Consume, pointers
<1>2. Whole(rptr, doorbell) /\ WrapIntoRing(rptr) \in 0 .. S - 1
  <2>1. rptr \in rptr .. doorbell - 1
    BY <1>1, Indices
  <2> QED
    BY <2>1, WrapRange, Indices DEF IInv, Written
<1>3. queueBuf[WrapIntoRing(rptr)].len \in Nat
  BY <1>2 DEF IInv, TypeOK
<1>4. rptr <= rptr' /\ rptr' <= doorbell /\ rptr' \in Nat
  BY <1>1, <1>2, <1>3, Indices DEF Whole
<1>5. \A v \in Waves : NewIndex(v)' = NewIndex(v) /\ (Holding(v)' <=> Holding(v))
  BY <1>1 DEF NewIndex, Holding
<1>6. Chain' /\ Polled'
  BY <1>1, <1>4, <1>5, Indices DEF IInv, Chain, NoOverrun, Polled
<1>7. Held' /\ Apart' /\ Turns'
  BY <1>1, <1>5 DEF IInv, Held, Apart, Turns
<1>8. Written'
  <2>1. \A i \in rptr' .. doorbell - 1 : i \in rptr .. doorbell - 1
    BY <1>4, Indices
  <2> QED
    BY <1>1, <1>5, <2>1 DEF IInv, Written, Whole
<1> QED
  BY <1>4, <1>6, <1>7, <1>8 DEF IInv

LEMMA NextIInv == IInv /\ [Next]_vars => IInv'
<1> SUFFICES ASSUME IInv, [Next]_vars PROVE IInv'
  OBVIOUS
<1>1. TypeOK'
  BY NextType DEF IInv
<1>2. ASSUME NEW w \in Waves, Submit(w) PROVE IInv'
  BY <1>1, <1>2, CheckIInv, ReserveIInv, PlaceIInv, TurnIInv, DoorbellIInv, CommitIInv,
     QuietIInv DEF Submit
<1>3. ASSUME NEW w \in Waves, Quiet(w) PROVE IInv'
  BY <1>1, <1>3, QuietIInv
<1>4. CASE Consume
  BY <1>1, <1>4, ConsumeIInv
<1>5. CASE UNCHANGED vars
  BY <1>1, <1>5 DEF IInv, Chain, NoOverrun, Polled, Held, Apart, Turns, Written, Whole,
     Holding, NewIndex, vars
<1> QED
  BY <1>2, <1>3, <1>4, <1>5 DEF Next, Spin

LEMMA Inductive == Spec => []IInv
  BY InitIInv, NextIInv, PTL DEF Spec

(* Reservations never run into units the engine has yet to read. *)
THEOREM NeverOverrun == Spec => []NoOverrun
<1>1. IInv => NoOverrun
  BY DEF IInv, Chain
<1> QED
  BY <1>1, Inductive, PTL

(* The doorbell exposes nothing but what was written for it. *)
THEOREM OnlyWholePackets == Spec => []Exposed
<1>1. IInv => Exposed
  BY DEF IInv, Written, Whole, Exposed
<1> QED
  BY <1>1, Inductive, PTL

----------------------------------------------------------------------------
(* The copies of a wavefront are made in the order it issued them, and     *)
(* none twice: the engine reads only what was written for it (above), and  *)
(* what it finds of a wavefront is sorted and newer than what it has done. *)
(* What the engine finds at index i. *)
Found(i) == queueBuf[WrapIntoRing(i)]
Window == rptr .. doorbell - 1

(* The calls of a wavefront that it may have exposed to the engine: those *)
(* that have returned and, past the doorbell, the present one.            *)
PastDoorbell == {"commit", "max", "mark", "take", "quiet", "poll"}
Exposures(w) == returned[w] + (IF pc[w] \in PastDoorbell THEN 1 ELSE 0)

(* A packet that is written and not exposed is what its wavefront wrote. *)
Filled == \A w \in Waves : pc[w] \in {"turn", "ring"} =>
  \A i \in cur[w] .. NewIndex(w) - 1 : Found(i) = Unit(w, i)

(* Units beyond a packet hold later calls of its wavefront. *)
Sorted == \A i, j \in Window :
  /\ Found(i).call # NoCall /\ Found(j).call # NoCall
  /\ Found(i).call[1] = Found(j).call[1]
  /\ i + Found(i).len <= j
  => Found(i).call[2] < Found(j).call[2]

(* What has been executed comes before what is still in the window. *)
Behind == \A a \in DOMAIN executed : \A j \in Window :
  Found(j).call # NoCall /\ executed[a][1] = Found(j).call[1]
  => executed[a][2] < Found(j).call[2]

Issued == \A v \in Waves :
  /\ \A j \in Window : Found(j).call # NoCall /\ Found(j).call[1] = v =>
       Found(j).call[2] <= Exposures(v)
  /\ \A a \in DOMAIN executed : executed[a][1] = v =>
       executed[a][2] <= Exposures(v)

OrderInv == Filled /\ Sorted /\ Behind /\ Issued /\ InOrder

LEMMA FoundType ==
  ASSUME TypeOK, NEW i \in Nat
  PROVE  /\ Found(i).len \in Nat
         /\ Found(i).call # NoCall =>
              Found(i).call[1] \in Waves /\ Found(i).call[2] \in Nat
<1>1. Found(i) \in UnitSet
  BY WrapRange DEF TypeOK, UnitSet, Found
<1> QED
  BY <1>1 DEF UnitSet, Calls

LEMMA ExecutedType ==
  ASSUME TypeOK, NEW a \in DOMAIN executed
  PROVE  executed[a][1] \in Waves /\ executed[a][2] \in Nat
<1>1. executed[a] \in Calls
  BY DEF TypeOK
<1> QED
  BY <1>1 DEF Calls

LEMMA ExposuresType ==
  ASSUME TypeOK, NEW w \in Waves
  PROVE  Exposures(w) \in Nat
  BY DEF TypeOK, Exposures

LEMMA InitOrder == Init => OrderInv
  BY DEF Init, OrderInv, Filled, Sorted, Behind, Issued, InOrder, Window

(* Steps that write no unit, move neither end of the window and leave a   *)
(* written packet to its wavefront.                                        *)
LEMMA KeepsOrder ==
  ASSUME IInv, IInv', OrderInv,
         UNCHANGED <<queueBuf, rptr, doorbell, executed>>,
         \A v \in Waves : Exposures(v) <= Exposures(v)',
         \A v \in Waves : pc'[v] \in {"turn", "ring"} =>
           pc[v] \in {"turn", "ring"} /\ cur'[v] = cur[v] /\ returned'[v] = returned[v]
  PROVE  OrderInv'
<1>1. Window' = Window /\ \A i : Found(i)' = Found(i)
  BY DEF Window, Found
<1>2. Filled'
  <2> SUFFICES ASSUME NEW v \in Waves, pc'[v] \in {"turn", "ring"},
                      NEW i \in (cur[v] .. NewIndex(v) - 1)'
               PROVE  Found(i)' = Unit(v, i)'
    BY DEF Filled
  <2>1. NewIndex(v)' = NewIndex(v) /\ Unit(v, i)' = Unit(v, i)
    BY DEF NewIndex, Unit, Call
  <2> QED
    BY <1>1, <2>1 DEF OrderInv, Filled
<1>3. Sorted' /\ Behind' /\ InOrder'
  BY <1>1 DEF OrderInv, Sorted, Behind, InOrder
<1>4. Issued'
  <2> SUFFICES ASSUME NEW v \in Waves
               PROVE  /\ \A j \in Window : Found(j).call # NoCall /\ Found(j).call[1] = v =>
                           Found(j).call[2] <= Exposures(v)'
                      /\ \A a \in DOMAIN executed : executed[a][1] = v =>
                           executed[a][2] <= Exposures(v)'
    BY <1>1 DEF Issued
  <2>1. /\ Exposures(v) \in Nat /\ Exposures(v)' \in Nat
        /\ Exposures(v) <= Exposures(v)'
    BY ExposuresType DEF IInv, Exposures, TypeOK
  <2>2. \A j \in Window : Found(j).call # NoCall => Found(j).call[2] \in Nat
    BY FoundType, Indices DEF Window, IInv
  <2>3. \A a \in DOMAIN executed : executed[a][2] \in Nat
    BY ExecutedType DEF IInv
  <2> QED
    BY <2>1, <2>2, <2>3 DEF OrderInv, Issued
<1> QED
  BY <1>2, <1>3, <1>4 DEF OrderInv

LEMMA WalkOrder ==
  ASSUME IInv, IInv', OrderInv, NEW w \in Waves,
         \/ LoadWptr(w) \/ CheckCachedIndex(w) \/ LoadReadIndex(w)
         \/ StoreReadIndex(w) \/ Reserve(w)
         \/ Turn(w) \/ Commit(w) \/ StoreMaxWrite(w) \/ MarkDirty(w) \/ Quiet(w)
  PROVE  OrderInv'
<1>1. UNCHANGED <<queueBuf, rptr, doorbell, executed>>
  BY DEF LoadWptr, CheckCachedIndex, LoadReadIndex, StoreReadIndex, Reserve, Turn,
     Commit, StoreMaxWrite, MarkDirty, Quiet, ReadDirty, TakeDirty, LoadTarget,
     ReachTarget, ring, pointers, SubmitRest, drain
<1>2. \A v \in Waves : v # w => /\ pc'[v] = pc[v] /\ cur'[v] = cur[v]
                                /\ returned'[v] = returned[v]
  BY DEF LoadWptr, CheckCachedIndex, LoadReadIndex, StoreReadIndex, Reserve, Turn,
     Commit, StoreMaxWrite, MarkDirty, Quiet, ReadDirty, TakeDirty, LoadTarget,
     ReachTarget, Goto, Returns, SubmitRest, IInv, TypeOK
<1>3. pc'[w] \in {"turn", "ring"} =>
        pc[w] \in {"turn", "ring"} /\ cur'[w] = cur[w] /\ returned'[w] = returned[w]
  BY DEF LoadWptr, CheckCachedIndex, LoadReadIndex, StoreReadIndex, Reserve, Turn,
     Commit, StoreMaxWrite, MarkDirty, Quiet, ReadDirty, TakeDirty, LoadTarget,
     ReachTarget, Goto, Returns, SubmitRest, IInv, TypeOK
<1>4. \/ returned'[w] = returned[w] + 1
      \/ /\ returned'[w] = returned[w]
         /\ pc[w] \in PastDoorbell => pc'[w] \in PastDoorbell
  BY DEF LoadWptr, CheckCachedIndex, LoadReadIndex, StoreReadIndex, Reserve, Turn,
     Commit, StoreMaxWrite, MarkDirty, Quiet, ReadDirty, TakeDirty, LoadTarget,
     ReachTarget, Goto, Returns, SubmitRest, IInv, TypeOK, PastDoorbell
<1>5. \A v \in Waves : Exposures(v) <= Exposures(v)'
  <2> TAKE v \in Waves
  <2>1. returned[v] \in Nat /\ returned'[v] \in Nat
    BY DEF IInv, TypeOK
  <2>2. CASE v = w
    BY <1>4, <2>1, <2>2 DEF Exposures
  <2>3. CASE v # w
    BY <1>2, <2>1, <2>3 DEF Exposures
  <2> QED
    BY <2>2, <2>3
<1> QED
  BY <1>1, <1>2, <1>3, <1>5, KeepsOrder

(* A packet is written outside the window and outside the other packets. *)
LEMMA PlaceOrder ==
  ASSUME IInv, IInv', OrderInv, NEW w \in Waves, PlacePacket(w)
  PROVE  OrderInv'
<1>1. /\ UNCHANGED <<rptr, doorbell, cachedWptr, committedWptr, cur, returned, executed>>
      /\ pc[w] = "place" /\ pc'[w] = "turn"
      /\ \A v \in Waves : v # w => pc'[v] = pc[v]
  BY DEF IInv, TypeOK, PlacePacket, Goto, pointers, drain
<1>2. \A v \in Waves : NewIndex(v)' = NewIndex(v) /\ \A i : Unit(v, i)' = Unit(v, i)
  BY <1>1 DEF NewIndex, Unit, Call
<1>3. doorbell <= cur[w] /\ NewIndex(w) <= cachedWptr
  BY <1>1, DoorbellBehind DEF IInv, Held, Holding
<1>4. Window' = Window /\ \A i \in Window : Found(i)' = Found(i)
  <2>1. \A i \in Window : i \in rptr .. cachedWptr - 1 /\ i \notin cur[w] .. NewIndex(w) - 1
    BY <1>3, Indices DEF IInv, Chain, NoOverrun, Window
  <2> QED
    BY <1>1, <2>1, PlaceKeeps DEF Window, Found
<1>5. Filled'
  <2> SUFFICES ASSUME NEW v \in Waves, pc'[v] \in {"turn", "ring"},
                      NEW i \in cur[v] .. NewIndex(v) - 1
               PROVE  Found(i)' = Unit(v, i)
    BY <1>1, <1>2 DEF Filled
  <2>1. CASE v = w
    BY <2>1, PlaceWrites DEF Found
  <2>2. CASE v # w
    <3>1. pc[v] \in {"turn", "ring"} /\ Found(i) = Unit(v, i)
      BY <1>1, <2>2 DEF OrderInv, Filled
    <3>2. doorbell <= cur[v] /\ NewIndex(v) <= cachedWptr
      BY <3>1, DoorbellBehind DEF IInv, Held, Holding
    <3>3. NewIndex(v) <= cur[w] \/ NewIndex(w) <= cur[v]
      BY <1>1, <2>2, <3>1 DEF IInv, Apart, Holding
    <3>4. i \in rptr .. cachedWptr - 1 /\ i \notin cur[w] .. NewIndex(w) - 1
      BY <3>2, <3>3, Indices DEF IInv, Chain, NoOverrun
    <3> QED
      BY <3>1, <3>4, PlaceKeeps DEF Found
  <2> QED
    BY <2>1, <2>2
<1>6. Sorted' /\ Behind' /\ InOrder'
  BY <1>1, <1>4 DEF OrderInv, Sorted, Behind, InOrder
<1>7. \A v \in Waves : Exposures(v)' = Exposures(v)
  BY <1>1 DEF Exposures, PastDoorbell
<1>8. Issued'
  BY <1>1, <1>4, <1>7 DEF OrderInv, Issued
<1> QED
  BY <1>5, <1>6, <1>8 DEF OrderInv

(* The doorbell exposes a call later than all of its wavefront so far. *)
LEMMA DoorbellOrder ==
  ASSUME IInv, IInv', OrderInv, NEW w \in Waves, RingDoorbell(w)
  PROVE  OrderInv'
<1>1. /\ UNCHANGED <<queueBuf, rptr, cur, returned, executed>>
      /\ pc[w] = "ring" /\ pc'[w] = "commit"
      /\ \A v \in Waves : v # w => pc'[v] = pc[v]
  BY DEF IInv, TypeOK, RingDoorbell, Goto, SubmitRest, ring
<1>2. doorbell = cur[w] /\ doorbell' = NewIndex(w)
  BY DoorbellIInv DEF IInv
<1>3. \A v \in Waves : NewIndex(v)' = NewIndex(v) /\ \A i : Unit(v, i)' = Unit(v, i)
  BY <1>1 DEF NewIndex, Unit, Call
<1>4. \A i : Found(i)' = Found(i)
  BY <1>1 DEF Found
<1>5. Filled'
  BY <1>1, <1>3, <1>4 DEF OrderInv, Filled
<1> DEFINE Mine == cur[w] .. NewIndex(w) - 1
<1>6. Window' = Window \cup Mine
  BY <1>1, <1>2, Indices DEF Window, IInv, Chain, NoOverrun
<1>7. ASSUME NEW i \in Mine, Found(i).call # NoCall
      PROVE  Found(i).call = Call(w) /\ i + Found(i).len = NewIndex(w)
  <2>1. Found(i) = Unit(w, i)
    BY <1>1, <1>7 DEF OrderInv, Filled
  <2>2. Found(i) = [idx |-> i, len |-> NewIndex(w) - i, call |-> Call(w)]
    BY <1>7, <2>1 DEF Unit
  <2> QED
    BY <2>2, Indices
<1>8. /\ Call(w)[1] = w /\ Call(w)[2] = returned[w] + 1 /\ returned[w] \in Nat
      /\ Exposures(w) = returned[w] /\ Exposures(w)' = returned[w] + 1
  BY <1>1 DEF Call, Exposures, PastDoorbell, IInv, TypeOK
<1>9. \A v \in Waves : v # w => Exposures(v)' = Exposures(v)
  BY <1>1 DEF Exposures
<1> HIDE DEF Mine
<1>10. ASSUME NEW j \in Window, Found(j).call # NoCall, Found(j).call[1] = w
       PROVE  Found(j).call[2] < Call(w)[2]
  <2>1. Found(j).call[2] <= Exposures(w) /\ Found(j).call[2] \in Nat
    BY <1>10, FoundType, Indices DEF OrderInv, Issued, Window, IInv
  <2> QED
    BY <1>8, <2>1
<1>11. ASSUME NEW a \in DOMAIN executed, executed[a][1] = w
       PROVE  executed[a][2] < Call(w)[2]
  <2>1. executed[a][2] <= Exposures(w) /\ executed[a][2] \in Nat
    BY <1>11, ExecutedType DEF OrderInv, Issued, IInv
  <2> QED
    BY <1>8, <2>1
<1>12. Sorted'
  <2> SUFFICES ASSUME NEW i \in Window \cup Mine, NEW j \in Window \cup Mine,
                      Found(i).call # NoCall, Found(j).call # NoCall,
                      Found(i).call[1] = Found(j).call[1],
                      i + Found(i).len <= j
               PROVE  Found(i).call[2] < Found(j).call[2]
    BY <1>4, <1>6 DEF Sorted
  <2>1. CASE i \in Window /\ j \in Window
    BY <2>1 DEF OrderInv, Sorted
  <2>2. CASE i \in Mine
    <3>1. j < NewIndex(w)
      BY <1>2, Indices DEF Mine, Window, IInv
    <3> QED
      BY <1>7, <2>2, <3>1, Indices DEF Mine, Window
  <2>3. CASE i \in Window /\ j \in Mine
    BY <1>7, <1>8, <1>10, <2>3
  <2> QED
    BY <2>1, <2>2, <2>3
<1>13. Behind'
  <2> SUFFICES ASSUME NEW a \in DOMAIN executed, NEW j \in Window \cup Mine,
                      Found(j).call # NoCall, executed[a][1] = Found(j).call[1]
               PROVE  executed[a][2] < Found(j).call[2]
    BY <1>1, <1>4, <1>6 DEF Behind
  <2>1. CASE j \in Window
    BY <2>1 DEF OrderInv, Behind
  <2>2. CASE j \in Mine
    BY <1>7, <1>8, <1>11, <2>2
  <2> QED
    BY <2>1, <2>2
<1>14. Issued'
  <2> SUFFICES ASSUME NEW v \in Waves
               PROVE  /\ \A j \in Window \cup Mine :
                           Found(j).call # NoCall /\ Found(j).call[1] = v =>
                             Found(j).call[2] <= Exposures(v)'
                      /\ \A a \in DOMAIN executed : executed[a][1] = v =>
                           executed[a][2] <= Exposures(v)'
    BY <1>1, <1>4, <1>6 DEF Issued
  <2>1. Exposures(v) \in Nat /\ Exposures(v)' \in Nat /\ Exposures(v) <= Exposures(v)'
    BY <1>8, <1>9, ExposuresType DEF IInv
  <2>2. \A j \in Window : Found(j).call # NoCall => Found(j).call[2] \in Nat
    BY FoundType, Indices DEF Window, IInv
  <2>3. \A a \in DOMAIN executed : executed[a][2] \in Nat
    BY ExecutedType DEF IInv
  <2>4. \A j \in Mine : Found(j).call # NoCall /\ Found(j).call[1] = v =>
           Found(j).call[2] <= Exposures(v)'
    BY <1>7, <1>8
  <2> QED
    BY <2>1, <2>2, <2>3, <2>4 DEF OrderInv, Issued
<1>15. InOrder'
  BY <1>1 DEF OrderInv, InOrder
<1> QED
  BY <1>5, <1>12, <1>13, <1>14, <1>15 DEF OrderInv

(* The engine goes past the packet it executes. *)
LEMMA ConsumeOrder ==
  ASSUME IInv, IInv', OrderInv, Consume
  PROVE  OrderInv'
<1> DEFINE u == Found(rptr)
<1>1. /\ UNCHANGED <<queueBuf, doorbell, cur, pc, returned>>
      /\ rptr < doorbell /\ rptr' = rptr + u.len
      /\ executed' = IF u.call = NoCall THEN executed ELSE Append(executed, u.call)
  BY DEF Consume, pointers, Found
<1>2. rptr \in Window /\ rptr \in Nat /\ rptr <= rptr' /\ rptr' \in Nat
  BY <1>1, ConsumeIInv, Indices DEF Window, IInv, TypeOK
<1>3. \A i : Found(i)' = Found(i)
  BY <1>1 DEF Found
<1>4. \A j \in Window' : j \in Window /\ rptr' <= j
  BY <1>1, <1>2, Indices DEF Window
<1>5. u.call # NoCall => u.call[1] \in Waves /\ u.call[2] \in Nat
  BY <1>2, FoundType DEF IInv
<1>6. \A v \in Waves : /\ NewIndex(v)' = NewIndex(v) /\ Exposures(v)' = Exposures(v)
                       /\ \A i : Unit(v, i)' = Unit(v, i)
  BY <1>1 DEF NewIndex, Unit, Call, Exposures
<1>7. Filled'
  BY <1>1, <1>3, <1>6 DEF OrderInv, Filled
<1>8. Sorted'
  BY <1>3, <1>4 DEF OrderInv, Sorted
<1>9. \A a \in DOMAIN executed : executed[a][1] \in Waves /\ executed[a][2] \in Nat
  BY ExecutedType DEF IInv
<1>10. executed \in Seq(Calls)
  BY DEF IInv, TypeOK
<1>11. CASE u.call = NoCall
  <2>1. executed' = executed
    BY <1>1, <1>11
  <2>2. Behind' /\ InOrder'
    BY <1>3, <1>4, <2>1 DEF OrderInv, Behind, InOrder
  <2>3. Issued'
    BY <1>3, <1>4, <1>6, <2>1 DEF OrderInv, Issued
  <2> QED
    BY <1>7, <1>8, <2>2, <2>3 DEF OrderInv
<1>12. CASE u.call # NoCall
  <2> DEFINE n == Len(executed)
  <2>1. executed' = Append(executed, u.call) /\ n \in Nat
    BY <1>1, <1>10, <1>12
  <2>2. /\ DOMAIN executed = 1 .. n
        /\ DOMAIN executed' = 1 .. n + 1
        /\ \A a \in 1 .. n : executed'[a] = executed[a]
        /\ executed'[n + 1] = u.call
    BY <1>10, <2>1
  <2>3. \A a \in 1 .. n + 1 : a = n + 1 \/ a \in 1 .. n
    BY <2>1
  <2>4. \A a, b \in 1 .. n + 1 : a < b => a \in 1 .. n
    BY <2>1
  <2> HIDE DEF u, n
  <2>5. Behind'
    <3> SUFFICES ASSUME NEW a \in 1 .. n + 1, NEW j \in Window',
                        Found(j).call # NoCall, executed'[a][1] = Found(j).call[1]
                 PROVE  executed'[a][2] < Found(j).call[2]
      BY <1>3, <2>2 DEF Behind
    <3>1. CASE a = n + 1
      BY <1>1, <1>2, <1>4, <1>12, <2>2, <3>1 DEF OrderInv, Sorted, u
    <3>2. CASE a \in 1 .. n
      BY <1>4, <2>2, <3>2 DEF OrderInv, Behind
    <3> QED
      BY <2>3, <3>1, <3>2
  <2>6. InOrder'
    <3> SUFFICES ASSUME NEW a \in 1 .. n + 1, NEW b \in 1 .. n + 1, a < b,
                        executed'[a][1] = executed'[b][1]
                 PROVE  executed'[a][2] < executed'[b][2]
      BY <2>2 DEF InOrder
    <3>1. a \in 1 .. n
      BY <2>4
    <3>2. CASE b = n + 1
      BY <1>2, <1>12, <2>2, <3>1, <3>2 DEF OrderInv, Behind, u
    <3>3. CASE b \in 1 .. n
      BY <2>2, <3>1, <3>3 DEF OrderInv, InOrder
    <3> QED
      BY <2>3, <3>2, <3>3
  <2>7. Issued'
    <3> SUFFICES ASSUME NEW v \in Waves
                 PROVE  /\ \A j \in Window' :
                             Found(j).call # NoCall /\ Found(j).call[1] = v =>
                               Found(j).call[2] <= Exposures(v)
                        /\ \A a \in 1 .. n + 1 : executed'[a][1] = v =>
                             executed'[a][2] <= Exposures(v)
      BY <1>3, <1>6, <2>2 DEF Issued
    <3>1. \A a \in 1 .. n : executed'[a][1] = v => executed'[a][2] <= Exposures(v)
      BY <2>2 DEF OrderInv, Issued
    <3>2. executed'[n + 1][1] = v => executed'[n + 1][2] <= Exposures(v)
      BY <1>2, <1>12, <2>2 DEF OrderInv, Issued, u
    <3> QED
      BY <1>4, <2>3, <3>1, <3>2 DEF OrderInv, Issued
  <2> QED
    BY <1>7, <1>8, <2>5, <2>6, <2>7 DEF OrderInv
<1> QED
  BY <1>11, <1>12

LEMMA NextOrder == IInv /\ OrderInv /\ [Next]_vars => OrderInv'
<1> SUFFICES ASSUME IInv, OrderInv, [Next]_vars PROVE OrderInv'
  OBVIOUS
<1>1. IInv'
  BY NextIInv
<1>2. ASSUME NEW w \in Waves, Submit(w) PROVE OrderInv'
  BY <1>1, <1>2, WalkOrder, PlaceOrder, DoorbellOrder DEF Submit
<1>3. ASSUME NEW w \in Waves, Quiet(w) PROVE OrderInv'
  BY <1>1, <1>3, WalkOrder
<1>4. CASE Consume
  BY <1>1, <1>4, ConsumeOrder
<1>5. CASE UNCHANGED vars
  BY <1>1, <1>5, KeepsOrder, ExposuresType DEF vars, Exposures, IInv
<1> QED
  BY <1>2, <1>3, <1>4, <1>5 DEF Next, Spin

(* The copies of a wavefront are made once each, in the order issued. *)
THEOREM CopiesInOrder == Spec => []InOrder
<1>1. OrderInv => InOrder
  BY DEF OrderInv
<1> QED
  BY <1>1, InitOrder, NextOrder, Inductive, PTL DEF Spec
=============================================================================
