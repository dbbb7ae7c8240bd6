-------------------------- MODULE DefaultCtxProofs --------------------------
(***************************************************************************)
(* Proofs about calls on the default context, for every number of waves,   *)
(* of buffers, of slots and of calls: the queue of flags neither loses nor *)
(* doubles one and implements a pool.                                      *)
(***************************************************************************)
EXTENDS DefaultCtx, FiniteSetTheorems, TLAPS

LEMMA Wrapped ==
  ASSUME NEW x \in 0 .. 2 * NumBuffers - 1
  PROVE  x % NumBuffers = IF x < NumBuffers THEN x ELSE x - NumBuffers
<1> DEFINE a == x \div NumBuffers
           m == x % NumBuffers
<1>1. /\ x = NumBuffers * a + m /\ a \in Int /\ m \in 0 .. NumBuffers - 1
      /\ NumBuffers \in Nat /\ NumBuffers > 0 /\ x \in Nat
  BY DefaultCtxAssumption
<1> SUFFICES m = IF x < NumBuffers THEN x ELSE x - NumBuffers
  OBVIOUS
<1> HIDE DEF a, m
<1>2. CASE a < 0
  <2>1. NumBuffers * (a + 1) <= 0 /\ NumBuffers * (a + 1) = NumBuffers * a + NumBuffers
    BY <1>1, <1>2
  <2> QED
    BY <1>1, <2>1
<1>3. CASE a = 0
  BY <1>1, <1>3
<1>4. CASE a = 1
  BY <1>1, <1>4
<1>5. CASE a > 1
  <2>1. NumBuffers * (a - 2) >= 0
        /\ NumBuffers * (a - 2) = NumBuffers * a - 2 * NumBuffers
    BY <1>1, <1>5
  <2> QED
    BY <1>1, <2>1
<1> QED
  BY <1>1, <1>2, <1>3, <1>4, <1>5

----------------------------------------------------------------------------
(* The queue of flags: who is inside which lock, and what the ring holds.  *)

Dequeuing == {"deq", "took", "deqdone"}
Enqueuing == {"enq", "wrote", "enqdone"}
Owning == {"took", "deqdone", "holds", "enqline", "enq", "wrote"}

Locks ==
  /\ \A w \in Waves : spc[w] \in Dequeuing => sdheld = TRUE
  /\ \A w \in Waves : spc[w] \in Enqueuing => seheld = TRUE
  /\ \A v, w \in Waves : spc[v] \in Dequeuing /\ spc[w] \in Dequeuing => v = w
  /\ \A v, w \in Waves : spc[v] \in Enqueuing /\ spc[w] \in Enqueuing => v = w

(* A dequeuer between its two steps, and an enqueuer. *)
Took == \E w \in Waves : spc[w] = "took"
Wrote == \E w \in Waves : spc[w] = "wrote"

(* The elements in the ring: curr_size_ lags behind both ends. *)
Occupied == ssize - (IF Took THEN 1 ELSE 0) + (IF Wrote THEN 1 ELSE 0)
Place(i) ==
  IF shead + i < NumBuffers THEN shead + i ELSE shead + i - NumBuffers
At(i) == squeue[Place(i)]

QueueTypes ==
  /\ squeue \in [0 .. NumBuffers - 1 -> Buffers]
  /\ shead \in 0 .. NumBuffers - 1 /\ stail \in 0 .. NumBuffers - 1
  /\ ssize \in Nat
  /\ sdheld \in BOOLEAN /\ seheld \in BOOLEAN
  /\ spc \in [Waves -> {"idle", "deqline", "deq", "took", "deqdone", "holds",
                        "enqline", "enq", "wrote", "enqdone"}]
  /\ sheld \in [Waves -> Buffers \cup {None}]

Sizes ==
  /\ Took => ssize >= 1
  /\ Occupied <= NumBuffers
  /\ stail = Place(Occupied) \/ (Occupied = NumBuffers /\ stail = shead)

Holders == \A w \in Waves : sheld[w] # None <=> spc[w] \in Owning

Distinct == \A i, j \in 0 .. Occupied - 1 : i # j => At(i) # At(j)

(* A wave holds a buffer that no other holds and that is not in the ring,  *)
(* unless it has just written it there: then it is the last one.           *)
Apart ==
  /\ \A v, w \in Waves : v # w /\ sheld[v] # None => sheld[v] # sheld[w]
  /\ \A w \in Waves : spc[w] # "wrote" =>
       \A i \in 0 .. Occupied - 1 : At(i) # sheld[w]
  /\ \A w \in Waves : spc[w] = "wrote" => At(Occupied - 1) = sheld[w]

Everywhere == \A b \in Buffers :
  (\E w \in Waves : sheld[w] = b) \/ (\E i \in 0 .. Occupied - 1 : At(i) = b)

QueueInv ==
  /\ QueueTypes /\ Locks /\ Sizes /\ Holders /\ Distinct /\ Apart /\ Everywhere

LEMMA NBType == NumBuffers \in Nat /\ NumBuffers >= 1 /\ None \notin Buffers
  BY DefaultCtxAssumption DEF Buffers

LEMMA SlotRange ==
  ASSUME QueueTypes, NEW i \in 0 .. NumBuffers - 1
  PROVE  Place(i) \in 0 .. NumBuffers - 1 /\ At(i) \in Buffers
<1>1. Place(i) \in 0 .. NumBuffers - 1
  BY NBType DEF QueueTypes, Place
<1> QED
  BY <1>1 DEF QueueTypes, At

LEMMA OccupiedType ==
  ASSUME QueueInv
  PROVE  /\ Occupied \in 0 .. NumBuffers
         /\ Wrote => Occupied >= 1
         /\ ssize = Occupied + (IF Took THEN 1 ELSE 0) - (IF Wrote THEN 1 ELSE 0)
  BY NBType DEF QueueInv, QueueTypes, Sizes, Occupied

(* While a wave holds a buffer the ring has room for it. *)
LEMMA Room ==
  ASSUME QueueInv, NEW w \in Waves, spc[w] \in Owning, spc[w] # "wrote"
  PROVE  Occupied < NumBuffers
<1> SUFFICES ASSUME Occupied = NumBuffers PROVE FALSE
  BY OccupiedType, NBType
<1> DEFINE I == 0 .. NumBuffers - 1
           T == Buffers \ {sheld[w]}
           f == [i \in I |-> At(i)]
<1>1. sheld[w] \in Buffers
  BY DEF QueueInv, QueueTypes, Holders
<1>2. f \in [I -> T]
  BY SlotRange DEF QueueInv, Apart
<1>3. IsFiniteSet(I) /\ Cardinality(I) = NumBuffers
  BY NBType, FS_Interval
<1>4. IsFiniteSet(Buffers) /\ Cardinality(Buffers) = NumBuffers
  BY NBType, FS_Interval DEF Buffers
<1>5. IsFiniteSet(T) /\ Cardinality(T) = NumBuffers - 1
  BY <1>1, <1>4, FS_RemoveElement
<1> HIDE DEF f, I, T
<1>6. PICK x, y \in I : x # y /\ f[x] = f[y]
  BY <1>2, <1>3, <1>5, NBType, FS_PigeonHole
<1>7. At(x) = At(y) /\ x \in 0 .. Occupied - 1 /\ y \in 0 .. Occupied - 1
  BY <1>6 DEF f, I
<1> QED
  BY <1>6, <1>7 DEF QueueInv, Distinct

LEMMA QueueInit == DefaultInit => QueueInv
<1> SUFFICES ASSUME DefaultInit PROVE QueueInv
  OBVIOUS
<1>1. /\ squeue = [i \in 0 .. NumBuffers - 1 |-> i + 1] /\ shead = 0 /\ stail = 0
      /\ ssize = NumBuffers /\ sdheld = FALSE /\ seheld = FALSE
      /\ spc = [w \in Waves |-> "idle"] /\ sheld = [w \in Waves |-> None]
  BY DEF DefaultInit, Status!Init, Status!DeqLock!Init, Status!EnqLock!Init
<1>2. ~Took /\ ~Wrote /\ Occupied = NumBuffers
  BY <1>1, NBType DEF Took, Wrote, Occupied
<1>3. \A i \in 0 .. NumBuffers - 1 : At(i) = i + 1
  BY <1>1, NBType DEF At, Place
<1>4. QueueTypes
  <2>1. squeue \in [0 .. NumBuffers - 1 -> Buffers]
    BY <1>1, NBType DEF Buffers
  <2>2. /\ shead \in 0 .. NumBuffers - 1 /\ stail \in 0 .. NumBuffers - 1
        /\ ssize \in Nat
    BY <1>1, NBType
  <2> QED
    BY <1>1, <2>1, <2>2 DEF QueueTypes
<1>5. Locks /\ Sizes
  BY <1>1, <1>2, NBType DEF Locks, Sizes, Dequeuing, Enqueuing
<1>6. Holders
  BY <1>1 DEF Holders, Owning
<1>7. Distinct /\ Apart
  BY <1>1, <1>2, <1>3, NBType DEF Distinct, Apart, Buffers
<1>8. Everywhere
  <2> SUFFICES ASSUME NEW b \in Buffers
               PROVE  \E i \in 0 .. NumBuffers - 1 : At(i) = b
    BY <1>2 DEF Everywhere
  <2>1. b - 1 \in 0 .. NumBuffers - 1 /\ (b - 1) + 1 = b
    BY NBType DEF Buffers
  <2> QED
    BY <1>3, <2>1
<1> QED
  BY <1>4, <1>5, <1>6, <1>7, <1>8 DEF QueueInv

----------------------------------------------------------------------------
(* The steps of the queue. *)

(* The steps that move no element: the calls begin, and the locks. *)
Walks(w) ==
  \/ Status!DequeueLine(w) \/ Status!DequeueLock(w) \/ Status!DequeueUnlock(w)
  \/ Status!EnqueueLine(w) \/ Status!EnqueueLock(w) \/ Status!EnqueueUnlock(w)

Moves(w) ==
  \/ Status!TakeHead(w) \/ Status!SubtractSize(w)
  \/ Status!WriteTail(w) \/ Status!AddSize(w)

LEMMA LocksKept ==
  ASSUME QueueTypes, Locks, NEW w \in Waves, Walks(w) \/ Moves(w)
  PROVE  Locks'
<1> USE DEF Status!Goto, Dequeuing, Enqueuing
<1>1. CASE Status!DequeueLine(w)
  BY <1>1 DEF Status!DequeueLine, Status!DeqLock!Join, QueueTypes, Locks
<1>2. CASE Status!DequeueLock(w)
  BY <1>2 DEF Status!DequeueLock, Status!DeqLock!Enter, QueueTypes, Locks
<1>3. CASE Status!DequeueUnlock(w)
  BY <1>3 DEF Status!DequeueUnlock, Status!DeqLock!Leave, QueueTypes, Locks
<1>4. CASE Status!EnqueueLine(w)
  BY <1>4 DEF Status!EnqueueLine, Status!EnqLock!Join, QueueTypes, Locks
<1>5. CASE Status!EnqueueLock(w)
  BY <1>5 DEF Status!EnqueueLock, Status!EnqLock!Enter, QueueTypes, Locks
<1>6. CASE Status!EnqueueUnlock(w)
  BY <1>6 DEF Status!EnqueueUnlock, Status!EnqLock!Leave, QueueTypes, Locks
<1>7. CASE Status!TakeHead(w)
  BY <1>7 DEF Status!TakeHead, QueueTypes, Locks
<1>8. CASE Status!SubtractSize(w)
  BY <1>8 DEF Status!SubtractSize, QueueTypes, Locks
<1>9. CASE Status!WriteTail(w)
  BY <1>9 DEF Status!WriteTail, QueueTypes, Locks
<1>10. CASE Status!AddSize(w)
  BY <1>10 DEF Status!AddSize, QueueTypes, Locks
<1> QED
  BY <1>1, <1>2, <1>3, <1>4, <1>5, <1>6, <1>7, <1>8, <1>9, <1>10 DEF Walks, Moves

LEMMA WalkQueue ==
  ASSUME QueueInv, NEW w \in Waves, Walks(w)
  PROVE  QueueInv'
<1>1. /\ UNCHANGED <<squeue, shead, stail, ssize, sheld>>
      /\ sdheld' \in BOOLEAN /\ seheld' \in BOOLEAN
      /\ spc[w] \notin {"took", "wrote"}
      /\ \E to \in {"deqline", "deq", "holds", "enqline", "enq", "idle"} :
           /\ spc' = [spc EXCEPT ![w] = to]
           /\ to \in Owning <=> spc[w] \in Owning
  BY DEF Walks, Status!DequeueLine, Status!DequeueLock, Status!DequeueUnlock,
     Status!EnqueueLine, Status!EnqueueLock, Status!EnqueueUnlock, Status!Goto,
     Status!ring, Status!DeqLock!Join, Status!DeqLock!Enter, Status!DeqLock!Leave,
     Status!EnqLock!Join, Status!EnqLock!Enter, Status!EnqLock!Leave,
     QueueInv, QueueTypes, Owning
<1>2. \A v \in Waves : /\ spc'[v] = "took" <=> spc[v] = "took"
                       /\ spc'[v] = "wrote" <=> spc[v] = "wrote"
                       /\ spc'[v] \in Owning <=> spc[v] \in Owning
  BY <1>1 DEF QueueInv, QueueTypes
<1>3. (Took' <=> Took) /\ (Wrote' <=> Wrote)
  BY <1>2 DEF Took, Wrote
<1>4. Occupied' = Occupied /\ \A i : At(i)' = At(i) /\ Place(i)' = Place(i)
  BY <1>1, <1>3 DEF Occupied, At, Place
<1>5. QueueTypes'
  BY <1>1 DEF QueueInv, QueueTypes
<1>6. Locks'
  BY LocksKept DEF QueueInv
<1>7. Sizes' /\ Holders' /\ Distinct' /\ Apart' /\ Everywhere'
  BY <1>1, <1>2, <1>3, <1>4
     DEF QueueInv, Sizes, Holders, Distinct, Apart, Everywhere
<1> QED
  BY <1>5, <1>6, <1>7 DEF QueueInv

LEMMA TakeQueue ==
  ASSUME QueueInv, NEW w \in Waves, Status!TakeHead(w)
  PROVE  QueueInv'
<1>1. /\ spc[w] = "deq" /\ spc' = [spc EXCEPT ![w] = "took"] /\ ssize # 0
      /\ sheld' = [sheld EXCEPT ![w] = squeue[shead]]
      /\ shead' = (shead + 1) % NumBuffers
      /\ UNCHANGED <<squeue, stail, ssize, sdheld, seheld>>
  BY DEF Status!TakeHead, Status!Goto, Status!IsEmpty
<1>2. ~Took /\ Took' /\ (Wrote' <=> Wrote)
  <2>1. ~Took
    BY <1>1 DEF QueueInv, Locks, Took, Dequeuing
  <2>2. Took' /\ (Wrote' <=> Wrote)
    BY <1>1 DEF QueueInv, QueueTypes, Took, Wrote
  <2> QED
    BY <2>1, <2>2
<1>3. /\ Occupied \in 1 .. NumBuffers /\ Occupied' = Occupied - 1
      /\ Wrote => Occupied >= 2
  BY <1>1, <1>2, OccupiedType, NBType DEF QueueInv, QueueTypes, Occupied
<1>4. shead \in 0 .. NumBuffers - 1 /\ NumBuffers \in Nat /\ NumBuffers >= 1
  BY NBType DEF QueueInv, QueueTypes
<1>5. shead' = IF shead + 1 < NumBuffers THEN shead + 1 ELSE shead + 1 - NumBuffers
  BY <1>1, <1>4, Wrapped
<1>6. \A i \in 0 .. NumBuffers - 1 : Place(i)' = Place(i + 1) \/ i + 1 = NumBuffers
  BY <1>4, <1>5 DEF Place
<1>7. \A i \in 0 .. Occupied - 2 : At(i)' = At(i + 1) /\ i + 1 \in 1 .. Occupied - 1
  BY <1>1, <1>3, <1>4, <1>6 DEF At
<1>8. sheld'[w] = At(0) /\ At(0) \in Buffers
      /\ \A v \in Waves : v # w => sheld'[v] = sheld[v] /\ spc'[v] = spc[v]
  BY <1>1, <1>4, SlotRange DEF QueueInv, QueueTypes, At, Place
<1>9. QueueTypes'
  BY <1>1, <1>4, <1>5, <1>8 DEF QueueInv, QueueTypes
<1>10. Locks'
  BY LocksKept DEF QueueInv, Moves
<1>11. Sizes'
  <2>1. ssize' >= 1 /\ Occupied' <= NumBuffers
    BY <1>1, <1>3, <1>4 DEF QueueInv, QueueTypes
  <2>2. PICK n \in 1 .. NumBuffers : n = Occupied
    BY <1>3
  <2>3. CASE n < NumBuffers
    <3>1. stail = Place(n)
      BY <2>2, <2>3 DEF QueueInv, Sizes
    <3>2. Place(n - 1)' = Place(n)
      BY <1>4, <1>5, <2>2, <2>3 DEF Place
    <3> QED
      BY <1>1, <1>3, <2>1, <2>2, <3>1, <3>2 DEF Sizes, Place
  <2>4. CASE n = NumBuffers
    <3>1. stail = shead
      BY <1>4, <2>2, <2>4 DEF QueueInv, Sizes, Place
    <3>2. Place(n - 1)' = shead
      BY <1>4, <1>5, <2>4 DEF Place
    <3> QED
      BY <1>1, <1>3, <2>1, <2>2, <3>1, <3>2 DEF Sizes, Place
  <2> QED
    BY <1>4, <2>2, <2>3, <2>4
<1>12. Holders'
  BY <1>1, <1>8, NBType DEF QueueInv, QueueTypes, Holders, Owning
<1>13. Distinct'
  <2>1. \A i, j \in 0 .. Occupied - 2 : i # j => At(i + 1) # At(j + 1)
    BY <1>3, <1>7 DEF QueueInv, Distinct
  <2> QED
    BY <1>3, <1>7, <2>1 DEF Distinct
<1>14. Apart'
  <2>1. ASSUME NEW v \in Waves, v # w PROVE sheld[v] # At(0)
    <3>1. CASE spc[v] = "wrote"
      <4>1. At(Occupied - 1) = sheld[v] /\ Occupied >= 2
        BY <1>3, <3>1 DEF QueueInv, Apart, Wrote
      <4> QED
        BY <1>3, <4>1 DEF QueueInv, Distinct
    <3>2. CASE spc[v] # "wrote"
      BY <1>3, <3>2 DEF QueueInv, Apart
    <3> QED
      BY <3>1, <3>2
  <2>2. \A u, v \in Waves : u # v /\ sheld'[u] # None => sheld'[u] # sheld'[v]
    BY <1>8, <2>1 DEF QueueInv, Apart
  <2>3. ASSUME NEW v \in Waves, spc'[v] # "wrote", NEW i \in 0 .. Occupied - 2
        PROVE  At(i + 1) # sheld'[v]
    <3>1. i + 1 \in 0 .. Occupied - 1 /\ i + 1 # 0 /\ 0 \in 0 .. Occupied - 1
      BY <1>3
    <3>2. CASE v = w
      BY <1>8, <3>1, <3>2 DEF QueueInv, Distinct
    <3>3. CASE v # w
      BY <1>8, <2>3, <3>1, <3>3 DEF QueueInv, Apart
    <3> QED
      BY <3>2, <3>3
  <2>4. ASSUME NEW v \in Waves, spc'[v] = "wrote"
        PROVE  \A i \in 0 .. Occupied - 2 : i = Occupied - 2 => At(i)' = sheld'[v]
    <3>1. v # w
      BY <1>1, <2>4 DEF QueueInv, QueueTypes
    <3>2. spc[v] = "wrote" /\ sheld'[v] = sheld[v]
      BY <1>8, <2>4, <3>1
    <3>3. At(Occupied - 1) = sheld[v]
      BY <3>2 DEF QueueInv, Apart
    <3>4. \A i \in 0 .. Occupied - 2 : i = Occupied - 2 => i + 1 = Occupied - 1
      BY <1>3
    <3> QED
      BY <1>7, <3>2, <3>3, <3>4
  <2>5. \A v \in Waves : spc'[v] = "wrote" => Occupied - 2 \in 0 .. Occupied - 2
    BY <1>2, <1>3 DEF Wrote
  <2>6. Occupied' - 1 = Occupied - 2
    BY <1>3
  <2>7. ASSUME NEW v \in Waves, spc'[v] = "wrote"
        PROVE  At(Occupied - 1)' = sheld'[v]
    <3>1. PICK n \in 0 .. Occupied - 2 : n = Occupied - 2
      BY <2>5, <2>7
    <3>2. At(n)' = sheld'[v]
      BY <2>4, <2>7, <3>1
    <3> QED
      BY <2>6, <3>1, <3>2 DEF At, Place
  <2>8. \A v \in Waves : spc'[v] # "wrote" =>
           \A i \in 0 .. Occupied' - 1 : At(i)' # sheld'[v]
    BY <1>7, <2>3, <2>6
  <2> QED
    BY <2>2, <2>7, <2>8 DEF Apart
<1>15. Everywhere'
  <2> SUFFICES ASSUME NEW b \in Buffers
               PROVE  \/ \E v \in Waves : sheld'[v] = b
                      \/ \E i \in 0 .. Occupied - 2 : At(i)' = b
    BY <1>3 DEF Everywhere
  <2>1. CASE \E v \in Waves : sheld[v] = b
    <3>1. PICK v \in Waves : sheld[v] = b
      BY <2>1
    <3>2. sheld[w] = None
      BY <1>1 DEF QueueInv, Holders, Owning
    <3>3. v # w
      BY <3>1, <3>2, NBType
    <3> QED
      BY <1>8, <3>1, <3>3
  <2>2. CASE \E i \in 0 .. Occupied - 1 : At(i) = b
    <3>1. PICK i \in 0 .. Occupied - 1 : At(i) = b
      BY <2>2
    <3>2. CASE i = 0
      BY <1>8, <3>1, <3>2
    <3>3. CASE i # 0
      <4>1. i - 1 \in 0 .. Occupied - 2 /\ (i - 1) + 1 = i
        BY <1>3, <3>3
      <4>2. At(i - 1)' = At((i - 1) + 1)
        BY <1>7, <4>1
      <4> QED
        BY <3>1, <4>1, <4>2
    <3> QED
      BY <3>2, <3>3
  <2> QED
    BY <2>1, <2>2 DEF QueueInv, Everywhere
<1> QED
  BY <1>9, <1>10, <1>11, <1>12, <1>13, <1>14, <1>15 DEF QueueInv

(* The enqueuer and the dequeuer bring curr_size_ up to date. *)
LEMMA SubtractQueue ==
  ASSUME QueueInv, NEW w \in Waves, Status!SubtractSize(w)
  PROVE  QueueInv'
<1>1. /\ spc[w] = "took" /\ spc' = [spc EXCEPT ![w] = "deqdone"]
      /\ ssize' = ssize - 1
      /\ UNCHANGED <<squeue, shead, stail, sheld, sdheld, seheld>>
  BY DEF Status!SubtractSize, Status!Goto
<1>2. Took /\ ~Took' /\ (Wrote' <=> Wrote) /\ ssize >= 1 /\ ssize \in Nat
  <2>1. \A v \in Waves : spc[v] = "took" => v = w
    BY <1>1 DEF QueueInv, Locks, Dequeuing
  <2>2. ~Took' /\ (Wrote' <=> Wrote)
    BY <1>1, <2>1 DEF QueueInv, QueueTypes, Took, Wrote
  <2> QED
    BY <1>1, <2>2 DEF QueueInv, QueueTypes, Sizes, Took
<1>3. Occupied' = Occupied
  BY <1>1, <1>2 DEF Occupied
<1>4. \A i : At(i)' = At(i) /\ Place(i)' = Place(i)
  BY <1>1 DEF At, Place
<1>5. \A v \in Waves : /\ spc'[v] = "wrote" <=> spc[v] = "wrote"
                       /\ spc'[v] \in Owning <=> spc[v] \in Owning
  BY <1>1 DEF QueueInv, QueueTypes, Owning
<1>6. QueueTypes'
  BY <1>1, <1>2 DEF QueueInv, QueueTypes
<1>7. Locks'
  BY LocksKept DEF QueueInv, Moves
<1>8. Sizes'
  BY <1>1, <1>2, <1>3, <1>4 DEF QueueInv, Sizes
<1>9. Holders' /\ Distinct' /\ Apart' /\ Everywhere'
  BY <1>1, <1>3, <1>4, <1>5 DEF QueueInv, Holders, Distinct, Apart, Everywhere
<1> QED
  BY <1>6, <1>7, <1>8, <1>9 DEF QueueInv

LEMMA AddQueue ==
  ASSUME QueueInv, NEW w \in Waves, Status!AddSize(w)
  PROVE  QueueInv'
<1>1. /\ spc[w] = "wrote" /\ spc' = [spc EXCEPT ![w] = "enqdone"]
      /\ ssize' = ssize + 1 /\ sheld' = [sheld EXCEPT ![w] = None]
      /\ UNCHANGED <<squeue, shead, stail, sdheld, seheld>>
  BY DEF Status!AddSize, Status!Goto
<1>2. Wrote /\ ~Wrote' /\ (Took' <=> Took) /\ ssize \in Nat
  <2>1. \A v \in Waves : spc[v] = "wrote" => v = w
    BY <1>1 DEF QueueInv, Locks, Enqueuing
  <2>2. ~Wrote' /\ (Took' <=> Took)
    BY <1>1, <2>1 DEF QueueInv, QueueTypes, Took, Wrote
  <2> QED
    BY <1>1, <2>2 DEF QueueInv, QueueTypes, Wrote
<1>3. Occupied' = Occupied /\ Occupied \in 1 .. NumBuffers
  BY <1>1, <1>2, OccupiedType DEF Occupied
<1>4. \A i : At(i)' = At(i) /\ Place(i)' = Place(i)
  BY <1>1 DEF At, Place
<1>5. \A v \in Waves : /\ spc'[v] # "wrote"
                       /\ v # w => spc'[v] = spc[v] /\ sheld'[v] = sheld[v]
  BY <1>1, <1>2 DEF QueueInv, QueueTypes, Wrote
<1>6. sheld'[w] = None /\ spc'[w] = "enqdone" /\ sheld[w] \in Buffers
  BY <1>1 DEF QueueInv, QueueTypes, Holders, Owning
<1>7. QueueTypes'
  BY <1>1, <1>2 DEF QueueInv, QueueTypes
<1>8. Locks'
  BY LocksKept DEF QueueInv, Moves
<1>9. Sizes'
  BY <1>1, <1>2, <1>3, <1>4 DEF QueueInv, Sizes
<1>10. Holders'
  BY <1>5, <1>6 DEF QueueInv, Holders, Owning
<1>11. Distinct'
  BY <1>3, <1>4 DEF QueueInv, Distinct
<1>12. \A i \in 0 .. Occupied - 1 : At(i) \in Buffers
  BY <1>3, NBType, SlotRange DEF QueueInv
<1>13. Apart'
  <2>1. \A u, v \in Waves : u # v /\ sheld'[u] # None => sheld'[u] # sheld'[v]
    BY <1>5, <1>6 DEF QueueInv, Apart
  <2>2. ASSUME NEW v \in Waves, NEW i \in 0 .. Occupied - 1 PROVE At(i) # sheld'[v]
    <3>1. CASE v = w
      BY <1>6, <1>12, <3>1, NBType
    <3>2. CASE v # w
      <4>1. spc[v] # "wrote"
        BY <1>1, <3>2 DEF QueueInv, Locks, Enqueuing
      <4> QED
        BY <1>5, <3>2, <4>1 DEF QueueInv, Apart
    <3> QED
      BY <3>1, <3>2
  <2> QED
    BY <1>3, <1>4, <1>5, <2>1, <2>2 DEF Apart
<1>14. Everywhere'
  <2>1. At(Occupied - 1) = sheld[w] /\ Occupied - 1 \in 0 .. Occupied - 1
    BY <1>1, <1>3 DEF QueueInv, Apart
  <2>2. ASSUME NEW b \in Buffers
        PROVE  (\E v \in Waves : sheld'[v] = b) \/ (\E i \in 0 .. Occupied - 1 : At(i) = b)
    BY <1>5, <2>1 DEF QueueInv, Everywhere
  <2> QED
    BY <1>3, <1>4, <2>2 DEF Everywhere
<1> QED
  BY <1>7, <1>8, <1>9, <1>10, <1>11, <1>13, <1>14 DEF QueueInv

(* The element goes behind the last one: the ring has room for it. *)
LEMMA WriteQueue ==
  ASSUME QueueInv, NEW w \in Waves, Status!WriteTail(w)
  PROVE  QueueInv'
<1>1. /\ spc[w] = "enq" /\ spc' = [spc EXCEPT ![w] = "wrote"]
      /\ squeue' = [squeue EXCEPT ![stail] = sheld[w]]
      /\ stail' = (stail + 1) % NumBuffers
      /\ UNCHANGED <<shead, ssize, sheld, sdheld, seheld>>
  BY DEF Status!WriteTail, Status!Goto
<1>2. ~Wrote /\ Wrote' /\ (Took' <=> Took) /\ ssize \in Nat
  <2>1. \A v \in Waves : spc[v] # "wrote"
    BY <1>1 DEF QueueInv, Locks, Enqueuing
  <2>2. Wrote' /\ (Took' <=> Took)
    BY <1>1, <2>1 DEF QueueInv, QueueTypes, Took, Wrote
  <2> QED
    BY <2>1, <2>2 DEF QueueInv, QueueTypes, Wrote
<1>3. Occupied < NumBuffers
  BY <1>1, Room DEF Owning
<1>4. PICK n \in 0 .. NumBuffers - 1 : n = Occupied
  BY <1>3, OccupiedType, NBType
<1>5. Occupied' = n + 1
  BY <1>1, <1>2, <1>4 DEF Occupied
<1>6. shead \in 0 .. NumBuffers - 1 /\ NumBuffers \in Nat /\ NumBuffers >= 1
  BY NBType DEF QueueInv, QueueTypes
<1>7. stail = Place(n) /\ stail \in 0 .. NumBuffers - 1
  BY <1>3, <1>4 DEF QueueInv, Sizes, QueueTypes
<1>8. \A i : Place(i)' = Place(i)
  BY <1>1 DEF Place
<1>9. \A i \in 0 .. n - 1 : Place(i) # Place(n)
  BY <1>6 DEF Place
<1>10. \A i \in 0 .. n - 1 : At(i)' = At(i) /\ At(i) \in Buffers
  <2> TAKE i \in 0 .. n - 1
  <2>1. Place(i) # stail /\ Place(i) \in 0 .. NumBuffers - 1
    BY <1>7, <1>9, <1>6, SlotRange DEF QueueInv
  <2>2. At(i) \in Buffers
    BY <1>6, SlotRange DEF QueueInv
  <2> QED
    BY <1>1, <1>8, <2>1, <2>2 DEF At, QueueInv, QueueTypes
<1>11. At(n)' = sheld[w]
  BY <1>1, <1>7, <1>8 DEF At, QueueInv, QueueTypes
<1>12. sheld[w] \in Buffers /\ sheld[w] # None
  BY <1>1 DEF QueueInv, QueueTypes, Holders, Owning
<1>13. \A v \in Waves : v # w => spc'[v] = spc[v] /\ spc[v] # "wrote"
  BY <1>1, <1>2 DEF QueueInv, QueueTypes, Wrote
<1>14. stail' = IF stail + 1 < NumBuffers THEN stail + 1 ELSE stail + 1 - NumBuffers
  BY <1>1, <1>6, <1>7, Wrapped
<1>15. QueueTypes'
  BY <1>1, <1>6, <1>7, <1>12, <1>14 DEF QueueInv, QueueTypes
<1>16. Locks'
  BY LocksKept DEF QueueInv, Moves
<1>17. Sizes'
  <2>1. stail' = Place(n + 1) \/ (n + 1 = NumBuffers /\ stail' = shead)
    BY <1>6, <1>7, <1>14 DEF Place
  <2>2. n + 1 <= NumBuffers
    BY <1>6
  <2>3. (Took => ssize >= 1)'
    BY <1>1, <1>2 DEF QueueInv, Sizes
  <2>4. Place(Occupied)' = Place(n + 1)
    BY <1>1, <1>5 DEF Place
  <2> QED
    BY <1>1, <1>5, <2>1, <2>2, <2>3, <2>4 DEF Sizes
<1>18. Holders'
  BY <1>1, <1>13 DEF QueueInv, QueueTypes, Holders, Owning
<1>19. \A i \in 0 .. n : i = n \/ i \in 0 .. n - 1
  OBVIOUS
<1>20. \A i \in 0 .. n - 1 : At(i) # sheld[w]
  BY <1>1, <1>4 DEF QueueInv, Apart
<1>21. Distinct'
  <2>1. \A i, j \in 0 .. n - 1 : i # j => At(i) # At(j)
    BY <1>4 DEF QueueInv, Distinct
  <2>2. \A i, j \in 0 .. n : i # j => At(i)' # At(j)'
    BY <1>10, <1>11, <1>19, <1>20, <2>1
  <2>3. Occupied' - 1 = n
    BY <1>5
  <2> QED
    BY <2>2, <2>3 DEF Distinct
<1>22. Apart'
  <2>1. \A v \in Waves : spc'[v] = "wrote" => v = w
    BY <1>13
  <2>2. Occupied' - 1 = n
    BY <1>5
  <2>3. At(Occupied - 1)' = sheld[w]
    BY <1>11, <2>2 DEF At, Place
  <2>4. ASSUME NEW v \in Waves, v # w, NEW i \in 0 .. n PROVE At(i)' # sheld[v]
    <3>1. CASE i = n
      BY <1>11, <1>12, <2>4, <3>1 DEF QueueInv, Apart
    <3>2. CASE i \in 0 .. n - 1
      BY <1>4, <1>10, <1>13, <2>4, <3>2 DEF QueueInv, Apart
    <3> QED
      BY <1>19, <3>1, <3>2
  <2>5. spc'[w] = "wrote"
    BY <1>1 DEF QueueInv, QueueTypes
  <2>6. \A u, v \in Waves : u # v /\ sheld[u] # None => sheld[u] # sheld[v]
    BY DEF QueueInv, Apart
  <2>7. \A v \in Waves : spc'[v] # "wrote" =>
           \A i \in 0 .. Occupied' - 1 : At(i)' # sheld'[v]
    BY <1>1, <2>2, <2>4, <2>5
  <2> QED
    BY <1>1, <2>1, <2>3, <2>6, <2>7 DEF Apart
<1>23. Everywhere'
  <2> SUFFICES ASSUME NEW b \in Buffers
               PROVE  \/ \E v \in Waves : sheld[v] = b
                      \/ \E i \in 0 .. n : At(i)' = b
    BY <1>1, <1>5 DEF Everywhere
  <2>1. (\E v \in Waves : sheld[v] = b) \/ (\E i \in 0 .. n - 1 : At(i) = b)
    BY <1>4 DEF QueueInv, Everywhere
  <2> QED
    BY <1>10, <2>1
<1> QED
  BY <1>15, <1>16, <1>17, <1>18, <1>21, <1>22, <1>23 DEF QueueInv

LEMMA StepQueue ==
  ASSUME QueueInv, NEW w \in Waves, Walks(w) \/ Moves(w)
  PROVE  QueueInv'
  BY WalkQueue, TakeQueue, SubtractQueue, WriteQueue, AddQueue DEF Moves

(* AtomicWfQueue counts with the same Cardinality. *)
LEMMA SameCardinality == \A X : Status!Cardinality(X) = Cardinality(X)
  BY DEF Status!Cardinality, Cardinality

(* The elements a dequeuer can still take: what is in the ring, but for    *)
(* one that is not counted yet.                                            *)
Ready == Occupied - (IF Wrote THEN 1 ELSE 0)

LEMMA FreeIs ==
  ASSUME QueueInv
  PROVE  /\ Ready \in 0 .. NumBuffers /\ Ready <= Occupied /\ Ready \in Nat
         /\ Ready = ssize - (IF Took THEN 1 ELSE 0)
         /\ DOMAIN Status!Free = 1 .. Ready
         /\ Status!Free = [i \in 1 .. Ready |-> At(i - 1)]
         /\ \A i \in 1 .. Ready : Status!Free[i] = At(i - 1) /\ At(i - 1) \in Buffers
<1>1. Status!Uncounted = IF Took THEN 1 ELSE 0
  <2> DEFINE T == {w \in Waves : spc[w] = "took"}
  <2>1. CASE Took
    <3>1. PICK w \in Waves : spc[w] = "took"
      BY <2>1 DEF Took
    <3>2. T = {w}
      BY <3>1 DEF QueueInv, Locks, Dequeuing
    <3> QED
      BY <2>1, <3>2, FS_Singleton, SameCardinality DEF Status!Uncounted
  <2>2. CASE ~Took
    <3>1. T = {}
      BY <2>2 DEF Took
    <3> QED
      BY <2>2, <3>1, FS_EmptySet, SameCardinality DEF Status!Uncounted
  <2> QED
    BY <2>1, <2>2
<1> DEFINE n == Ready
<1>2. /\ n \in 0 .. NumBuffers /\ n <= Occupied /\ n \in Nat
      /\ ssize - Status!Uncounted = n /\ n = ssize - (IF Took THEN 1 ELSE 0)
  BY <1>1, OccupiedType, NBType DEF Ready
<1> HIDE DEF n
<1>3. \A i \in 1 .. n : squeue[(shead + i - 1) % NumBuffers] = At(i - 1) /\ At(i - 1) \in Buffers
  <2> TAKE i \in 1 .. n
  <2>1. shead + (i - 1) \in 0 .. 2 * NumBuffers - 1 /\ shead + i - 1 = shead + (i - 1)
    BY <1>2, NBType DEF QueueInv, QueueTypes
  <2> DEFINE x == shead + (i - 1)
  <2>2. x \in 0 .. 2 * NumBuffers - 1 /\ Place(i - 1) = IF x < NumBuffers THEN x ELSE x - NumBuffers
    BY <1>2, <2>1, NBType DEF Place, QueueInv, QueueTypes
  <2> HIDE DEF x
  <2>3. x % NumBuffers = Place(i - 1)
    BY <2>2, Wrapped
  <2>4. (shead + i - 1) % NumBuffers = Place(i - 1)
    BY <2>1, <2>3 DEF x
  <2>5. i - 1 \in 0 .. NumBuffers - 1
    BY <1>2, NBType
  <2>6. At(i - 1) \in Buffers
    BY <2>5, SlotRange DEF QueueInv
  <2> QED
    BY <2>4, <2>6 DEF At
<1>4. Status!Free = [i \in 1 .. n |-> At(i - 1)]
  BY <1>2, <1>3 DEF Status!Free
<1> QED
  BY <1>2, <1>3, <1>4 DEF n

(* No flag is lost or lent twice. *)
LEMMA QueueOnePlace == QueueInv => OnePlace
<1> SUFFICES ASSUME QueueInv, NEW b \in Buffers
             PROVE  Cardinality({w \in Waves : sheld[w] = b})
                      + Cardinality({i \in DOMAIN Status!Free : Status!Free[i] = b}) = 1
  BY SameCardinality DEF OnePlace, Status!OnePlace, Status!Buffers, Buffers
<1> DEFINE n == Ready
<1>2. n \in 0 .. NumBuffers /\ n <= Occupied /\ Occupied \in 0 .. NumBuffers
      /\ n = Occupied - (IF Wrote THEN 1 ELSE 0)
  BY FreeIs, OccupiedType DEF Ready
<1>4. /\ DOMAIN Status!Free = 1 .. n
      /\ \A i \in 1 .. n : Status!Free[i] = At(i - 1)
  BY FreeIs
<1> HIDE DEF n
<1> DEFINE H == {w \in Waves : sheld[w] = b}
           F == {i \in 1 .. n : At(i - 1) = b}
<1>5. {i \in DOMAIN Status!Free : Status!Free[i] = b} = F
  BY <1>4
<1>6. b # None
  BY NBType
<1>7. CASE \E w \in Waves : sheld[w] = b
  <2>1. PICK w \in Waves : sheld[w] = b
    BY <1>7
  <2>2. H = {w}
    BY <1>6, <2>1 DEF QueueInv, Apart
  <2>3. ASSUME NEW i \in 1 .. n PROVE At(i - 1) # b
    <3>1. i - 1 \in 0 .. Occupied - 1
      BY <1>2
    <3>2. CASE spc[w] # "wrote"
      BY <2>1, <3>1, <3>2 DEF QueueInv, Apart
    <3>3. CASE spc[w] = "wrote"
      <4>1. Wrote /\ At(Occupied - 1) = b
        BY <2>1, <3>3 DEF QueueInv, Apart, Wrote
      <4>2. i - 1 # Occupied - 1 /\ Occupied - 1 \in 0 .. Occupied - 1
        BY <1>2, <4>1 DEF n
      <4> QED
        BY <3>1, <4>1, <4>2 DEF QueueInv, Distinct
    <3> QED
      BY <3>2, <3>3
  <2>4. F = {}
    BY <2>3
  <2> HIDE DEF H, F
  <2>5. Cardinality(H) = 1 /\ Cardinality(F) = 0
    BY <2>2, <2>4, FS_Singleton, FS_EmptySet
  <2> QED
    BY <1>5, <2>5 DEF H
<1>8. CASE ~(\E w \in Waves : sheld[w] = b)
  <2>1. PICK i \in 0 .. Occupied - 1 : At(i) = b
    BY <1>8 DEF QueueInv, Everywhere
  <2>2. i < n
    <3>1. CASE Wrote
      <4>1. PICK w \in Waves : spc[w] = "wrote"
        BY <3>1 DEF Wrote
      <4>2. At(Occupied - 1) = sheld[w]
        BY <4>1 DEF QueueInv, Apart
      <4>3. i # Occupied - 1
        BY <1>8, <2>1, <4>2
      <4> QED
        BY <1>2, <3>1, <4>3 DEF n
    <3>2. CASE ~Wrote
      BY <1>2, <3>2 DEF n
    <3> QED
      BY <3>1, <3>2
  <2>3. F = {i + 1}
    <3>1. i + 1 \in 1 .. n /\ (i + 1) - 1 = i
      BY <1>2, <2>2
    <3>2. \A j \in 1 .. n : At(j - 1) = b => j = i + 1
      <4> TAKE j \in 1 .. n
      <4>1. j - 1 \in 0 .. Occupied - 1
        BY <1>2
      <4>2. At(j - 1) = b => j - 1 = i
        BY <2>1, <4>1 DEF QueueInv, Distinct
      <4> QED
        BY <1>2, <4>2
    <3> QED
      BY <2>1, <3>1, <3>2
  <2>4. H = {}
    BY <1>8
  <2> HIDE DEF H, F
  <2>5. Cardinality(H) = 0 /\ Cardinality(F) = 1
    BY <2>3, <2>4, FS_Singleton, FS_EmptySet
  <2> QED
    BY <1>5, <2>5 DEF H
<1> QED
  BY <1>7, <1>8

----------------------------------------------------------------------------
(* The calls reach the queue of flags through its steps alone. *)

LEMMA SameQueue ==
  ASSUME QueueInv, UNCHANGED statusPool
  PROVE  QueueInv'
  BY DEF statusPool, QueueInv, QueueTypes, Locks, Sizes, Holders, Distinct, Apart,
     Everywhere, Took, Wrote, Occupied, Place, At, Buffers

LEMMA StatusCases ==
  ASSUME [DefaultNext \/ DefaultFinished]_defaultVars
  PROVE  UNCHANGED statusPool \/ \E w \in Waves : Walks(w) \/ Moves(w)
<1>1. ASSUME NEW w \in Waves, Begin(w) \/ Run(w) \/ Spin(w)
      PROVE  UNCHANGED statusPool \/ Walks(w) \/ Moves(w)
  BY <1>1 DEF Begin, Run, Spin, TakeRet, AskStatus, StatusStep, PublishNbi, Publish,
     SeeStatus, ResetStatus, GiveStatus, EndPut, GiveRet, Status!Step, Walks, Moves,
     defaultVars
<1>2. CASE Cpu
  BY <1>2 DEF Cpu, TakeCommand, Answer
<1> QED
  BY <1>1, <1>2 DEF DefaultNext, DefaultFinished, defaultVars

LEMMA QueueInductive == DefaultSpec => []QueueInv
<1>1. QueueInv /\ [DefaultNext \/ DefaultFinished]_defaultVars => QueueInv'
  BY StatusCases, SameQueue, StepQueue
<1> QED
  BY <1>1, QueueInit, PTL DEF DefaultSpec

(* No flag is lost or lent twice. *)
THEOREM FlagsInOnePlace == DefaultSpec => []OnePlace
  BY QueueOnePlace, QueueInductive, PTL

----------------------------------------------------------------------------
(* The queue of flags implements a pool.                                   *)

(* The dequeuer is first in the line of its lock. *)
LineInv ==
  /\ sdline \in Seq(Waves)
  /\ \A w \in Waves : spc[w] \in Dequeuing => sdline # <<>> /\ Head(sdline) = w

PoolInv == QueueInv /\ LineInv

LEMMA LineKept ==
  ASSUME PoolInv, NEW w \in Waves, Walks(w) \/ Moves(w)
  PROVE  LineInv'
<1> USE DEF PoolInv, QueueInv, QueueTypes, LineInv, Dequeuing
<1>1. CASE Status!DequeueLine(w)
  <2>1. /\ spc[w] = "idle" /\ spc' = [spc EXCEPT ![w] = "deqline"]
        /\ sdline' = Append(sdline, w)
    BY <1>1 DEF Status!DequeueLine, Status!Goto, Status!DeqLock!Join
  <2>2. sdline' \in Seq(Waves) /\ sdline' # <<>>
    BY <2>1
  <2>3. sdline # <<>> => Head(sdline') = Head(sdline)
    BY <2>1
  <2> QED
    BY <2>1, <2>2, <2>3
<1>2. CASE Status!DequeueLock(w)
  BY <1>2 DEF Status!DequeueLock, Status!Goto, Status!DeqLock!Enter, Locks
<1>3. CASE Status!DequeueUnlock(w)
  <2>1. /\ spc[w] = "deqdone" /\ spc' = [spc EXCEPT ![w] = "holds"]
        /\ sdline' = Tail(sdline)
    BY <1>3 DEF Status!DequeueUnlock, Status!Goto, Status!DeqLock!Leave
  <2>2. sdline' \in Seq(Waves)
    BY <2>1
  <2>3. \A v \in Waves : spc'[v] \notin Dequeuing
    BY <2>1 DEF Locks
  <2> QED
    BY <2>2, <2>3
<1>4. ASSUME NEW to \in {"took", "deqdone", "enqline", "enq", "wrote", "enqdone", "idle"},
             spc' = [spc EXCEPT ![w] = to], sdline' = sdline,
             to \in Dequeuing => spc[w] \in Dequeuing
      PROVE  LineInv'
  BY <1>4
<1>5. CASE \/ Status!EnqueueLine(w) \/ Status!EnqueueLock(w) \/ Status!EnqueueUnlock(w)
           \/ Moves(w)
  BY <1>4, <1>5 DEF Moves, Status!EnqueueLine, Status!EnqueueLock, Status!EnqueueUnlock,
     Status!TakeHead, Status!SubtractSize, Status!WriteTail, Status!AddSize, Status!Goto
<1> QED
  BY <1>1, <1>2, <1>3, <1>5 DEF Walks

(* What the dequeuer has taken, the others in the line wait for. *)
LEMMA UnservedKept ==
  ASSUME LineInv, sdline' = sdline,
         \A v \in Waves : spc'[v] \in {"took", "deqdone"} <=> spc[v] \in {"took", "deqdone"}
  PROVE  Status!Unserved' = Status!Unserved
<1>1. sdline # <<>> => Head(sdline) \in Waves
  BY DEF LineInv
<1> QED
  BY <1>1 DEF Status!Unserved

LEMMA FreeIsRing == QueueInv => Status!Free = [i \in 1 .. Ready |-> At(i - 1)]
  BY FreeIs

LEMMA FreeKept ==
  ASSUME QueueInv, QueueInv', Ready' = Ready, \A i \in 0 .. Ready - 1 : At(i)' = At(i)
  PROVE  Status!Free' = Status!Free
<1>1. Status!Free = [i \in 1 .. Ready |-> At(i - 1)] /\ Ready \in Nat
  BY FreeIs
<1>2. Status!Free' = [i \in 1 .. Ready' |-> At(i - 1)']
  <2>1. (QueueInv => Status!Free = [i \in 1 .. Ready |-> At(i - 1)])'
    BY FreeIsRing, PTL
  <2> QED
    BY <2>1
<1>3. \A i \in 1 .. Ready : i - 1 \in 0 .. Ready - 1
  BY <1>1
<1> QED
  BY <1>1, <1>2, <1>3

LEMMA WalkFree ==
  ASSUME PoolInv, NEW w \in Waves, Walks(w)
  PROVE  Status!Free' = Status!Free /\ sheld' = sheld
<1>1. /\ UNCHANGED <<squeue, shead, stail, ssize, sheld>>
      /\ spc[w] \notin {"took", "wrote"}
      /\ \E to \in {"deqline", "deq", "holds", "enqline", "enq", "idle"} :
           spc' = [spc EXCEPT ![w] = to]
  BY DEF Walks, Status!DequeueLine, Status!DequeueLock, Status!DequeueUnlock,
     Status!EnqueueLine, Status!EnqueueLock, Status!EnqueueUnlock, Status!Goto,
     Status!ring, Status!DeqLock!Join, Status!DeqLock!Enter, Status!DeqLock!Leave,
     Status!EnqLock!Join, Status!EnqLock!Enter, Status!EnqLock!Leave
<1>2. \A v \in Waves : /\ spc'[v] = "took" <=> spc[v] = "took"
                       /\ spc'[v] = "wrote" <=> spc[v] = "wrote"
  BY <1>1 DEF PoolInv, QueueInv, QueueTypes
<1>3. (Took' <=> Took) /\ (Wrote' <=> Wrote)
  BY <1>2 DEF Took, Wrote
<1>4. Ready' = Ready /\ \A i : At(i)' = At(i)
  BY <1>1, <1>3 DEF Ready, Occupied, At, Place
<1>5. QueueInv'
  BY WalkQueue DEF PoolInv
<1> QED
  BY <1>1, <1>4, <1>5, FreeKept DEF PoolInv

PoolVars == Status!Pool!vars

LEMMA PoolStutter ==
  ASSUME Status!Free' = Status!Free, Status!Unserved' = Status!Unserved, sheld' = sheld
  PROVE  [Status!Pool!Next]_PoolVars
  BY DEF PoolVars, Status!Pool!vars

(* Asking for the lock is asking for a flag. *)
LEMMA AskSteps ==
  ASSUME PoolInv, NEW w \in Waves, Status!DequeueLine(w)
  PROVE  Status!Pool!Ask(w)
<1>1. /\ spc[w] = "idle" /\ spc' = [spc EXCEPT ![w] = "deqline"]
      /\ sdline' = Append(sdline, w)
      /\ \A i \in 1 .. Len(sdline) : sdline[i] # w
  BY DEF Status!DequeueLine, Status!Goto, Status!DeqLock!Join, Status!DeqLock!Waiting,
     PoolInv, LineInv
<1>2. Status!Free' = Status!Free /\ sheld' = sheld
  BY WalkFree DEF Walks
<1>3. sheld[w] = None
  BY <1>1 DEF PoolInv, QueueInv, Holders, Owning
<1>4. sdline \in Seq(Waves) /\ Len(sdline) \in Nat
  BY DEF PoolInv, LineInv
<1>5. ASSUME NEW v \in Waves, v # w PROVE spc'[v] = spc[v]
  BY <1>1, <1>5 DEF PoolInv, QueueInv, QueueTypes
<1>6. CASE sdline = <<>>
  <2>1. sdline' = <<w>> /\ spc'[w] = "deqline"
    BY <1>1, <1>6 DEF PoolInv, QueueInv, QueueTypes
  <2>2. Head(sdline') = w
    BY <2>1
  <2>3. Status!Unserved = <<>> /\ Status!Unserved' = <<w>>
    BY <1>6, <2>1, <2>2 DEF Status!Unserved
  <2>4. Status!Unserved' = Append(Status!Unserved, w) /\ ~Status!Pool!Asked(w)
    BY <2>3 DEF Status!Pool!Asked
  <2> QED
    BY <1>2, <1>3, <2>4 DEF Status!Pool!Ask
<1>7. CASE sdline # <<>>
  <2> DEFINE h == Head(sdline)
  <2>1. h = sdline[1] /\ 1 \in 1 .. Len(sdline) /\ h \in Waves
    BY <1>4, <1>7
  <2>2. h # w
    BY <1>1, <2>1
  <2>3. sdline' # <<>> /\ Head(sdline') = h
    BY <1>1, <1>4, <1>7
  <2> HIDE DEF h
  <2>4. spc'[h] = spc[h]
    BY <1>5, <2>1, <2>2
  <2>5. CASE spc[h] \in {"took", "deqdone"}
    <3>1. Status!Unserved = Tail(sdline) /\ Status!Unserved' = Tail(sdline')
      BY <1>7, <2>3, <2>4, <2>5 DEF Status!Unserved, h
    <3>2. Tail(Append(sdline, w)) = Append(Tail(sdline), w)
      BY <1>4, <1>7
    <3>3. Status!Unserved' = Append(Status!Unserved, w)
      BY <1>1, <3>1, <3>2
    <3>4. \A i \in DOMAIN Tail(sdline) : Tail(sdline)[i] = sdline[i + 1] /\ i + 1 \in 1 .. Len(sdline)
      BY <1>4, <1>7
    <3>5. ~Status!Pool!Asked(w)
      BY <1>1, <3>1, <3>4 DEF Status!Pool!Asked
    <3> QED
      BY <1>2, <1>3, <3>3, <3>5 DEF Status!Pool!Ask
  <2>6. CASE spc[h] \notin {"took", "deqdone"}
    <3>1. Status!Unserved = sdline /\ Status!Unserved' = sdline'
      BY <1>7, <2>3, <2>4, <2>6 DEF Status!Unserved, h
    <3>2. ~Status!Pool!Asked(w)
      BY <1>1, <1>4, <3>1 DEF Status!Pool!Asked
    <3> QED
      BY <1>1, <1>2, <1>3, <3>1, <3>2 DEF Status!Pool!Ask
  <2> QED
    BY <2>5, <2>6
<1> QED
  BY <1>6, <1>7

(* The lock lets the first in line in, and the next when it leaves. *)
LEMMA WalkSteps ==
  ASSUME PoolInv, NEW w \in Waves, Walks(w)
  PROVE  [Status!Pool!Next]_PoolVars
<1>1. Status!Free' = Status!Free /\ sheld' = sheld
  BY WalkFree
<1>2. CASE Status!DequeueLine(w)
  BY <1>2, AskSteps DEF Status!Pool!Next
<1>3. CASE Status!DequeueUnlock(w)
  <2>1. /\ spc[w] = "deqdone" /\ spc' = [spc EXCEPT ![w] = "holds"]
        /\ sdline' = Tail(sdline)
    BY <1>3 DEF Status!DequeueUnlock, Status!Goto, Status!DeqLock!Leave
  <2>2. sdline \in Seq(Waves) /\ sdline # <<>> /\ Head(sdline) = w
    BY <2>1 DEF PoolInv, LineInv, Dequeuing
  <2>3. \A v \in Waves : spc'[v] \notin {"took", "deqdone"}
    BY <2>1 DEF PoolInv, QueueInv, QueueTypes, Locks, Dequeuing
  <2>4. sdline' # <<>> => Head(sdline') \in Waves
    BY <2>1, <2>2
  <2>5. Status!Unserved' = sdline'
    BY <2>3, <2>4 DEF Status!Unserved
  <2>6. Status!Unserved = Tail(sdline)
    BY <2>1, <2>2 DEF Status!Unserved
  <2> QED
    BY <1>1, <2>1, <2>5, <2>6, PoolStutter
<1>4. CASE \/ Status!DequeueLock(w) \/ Status!EnqueueLine(w) \/ Status!EnqueueLock(w)
           \/ Status!EnqueueUnlock(w)
  <2>1. /\ sdline' = sdline
        /\ spc[w] \in {"deqline", "holds", "enqline", "enqdone"}
        /\ \E to \in {"deq", "enqline", "enq", "idle"} : spc' = [spc EXCEPT ![w] = to]
    BY <1>4 DEF Status!DequeueLock, Status!EnqueueLine, Status!EnqueueLock,
       Status!EnqueueUnlock, Status!Goto, Status!DeqLock!Enter
  <2>2. \A v \in Waves : spc'[v] \in {"took", "deqdone"} <=> spc[v] \in {"took", "deqdone"}
    BY <2>1 DEF PoolInv, QueueInv, QueueTypes
  <2> QED
    BY <1>1, <2>1, <2>2, UnservedKept, PoolStutter DEF PoolInv
<1> QED
  BY <1>2, <1>3, <1>4 DEF Walks

(* The first in line takes the oldest. *)
LEMMA TakeSteps ==
  ASSUME PoolInv, NEW w \in Waves, Status!TakeHead(w)
  PROVE  Status!Pool!Take(w)
<1>1. /\ spc[w] = "deq" /\ spc' = [spc EXCEPT ![w] = "took"] /\ ssize # 0
      /\ sheld' = [sheld EXCEPT ![w] = squeue[shead]]
      /\ shead' = (shead + 1) % NumBuffers
      /\ UNCHANGED <<squeue, stail, ssize, sdheld, seheld, sdline>>
  BY DEF Status!TakeHead, Status!Goto, Status!IsEmpty
<1>2. ~Took /\ Took' /\ (Wrote' <=> Wrote)
  <2>1. ~Took
    BY <1>1 DEF PoolInv, QueueInv, Locks, Took, Dequeuing
  <2>2. Took' /\ (Wrote' <=> Wrote)
    BY <1>1 DEF PoolInv, QueueInv, QueueTypes, Took, Wrote
  <2> QED
    BY <2>1, <2>2
<1>3. /\ shead \in 0 .. NumBuffers - 1 /\ NumBuffers \in Nat /\ NumBuffers >= 1
      /\ ssize \in Nat
  BY NBType DEF PoolInv, QueueInv, QueueTypes
<1>4. Ready = ssize /\ Ready \in 1 .. NumBuffers
  BY <1>1, <1>2, <1>3, FreeIs DEF PoolInv
<1>5. Ready' = Ready - 1
  <2>1. QueueInv'
    BY TakeQueue DEF PoolInv
  <2>2. Ready' = ssize' - 1
    BY <1>1, <1>2, <1>3 DEF Ready, Occupied
  <2> QED
    BY <1>1, <1>4, <2>2
<1>6. shead' = IF shead + 1 < NumBuffers THEN shead + 1 ELSE shead + 1 - NumBuffers
  BY <1>1, <1>3, Wrapped
<1>7. \A i \in 0 .. Ready - 2 : At(i)' = At(i + 1)
  <2>1. \A i \in 0 .. NumBuffers - 1 : Place(i)' = Place(i + 1) \/ i + 1 = NumBuffers
    BY <1>3, <1>6 DEF Place
  <2>2. \A i \in 0 .. Ready - 2 : i \in 0 .. NumBuffers - 1 /\ i + 1 # NumBuffers
    BY <1>3, <1>4
  <2> QED
    BY <1>1, <2>1, <2>2 DEF At
<1>8. Status!Free = [i \in 1 .. Ready |-> At(i - 1)] /\ Ready \in Nat
  BY FreeIs DEF PoolInv
<1>9. Status!Free' = [i \in 1 .. Ready' |-> At(i - 1)']
  <2>1. (QueueInv => Status!Free = [i \in 1 .. Ready |-> At(i - 1)])'
    BY FreeIsRing, PTL
  <2> QED
    BY <2>1, TakeQueue DEF PoolInv
<1>10. Status!Free \in Seq(Buffers) /\ Len(Status!Free) = Ready
  <2>1. \A i \in 1 .. Ready : At(i - 1) \in Buffers
    BY FreeIs DEF PoolInv
  <2> QED
    BY <1>8, <2>1
<1>11. Status!Free # <<>> /\ Head(Status!Free) = squeue[shead]
  <2>1. Status!Free[1] = At(0)
    BY <1>4, <1>8
  <2>2. At(0) = squeue[shead]
    BY <1>3 DEF At, Place
  <2> QED
    BY <1>4, <1>10, <2>1, <2>2
<1>12. Status!Free' = Tail(Status!Free)
  <2> DEFINE F == Status!Free
             T == Tail(F)
  <2>1. T = [i \in 1 .. Ready - 1 |-> F[i + 1]]
    <3> HIDE DEF F
    <3>1. F \in Seq(Buffers) /\ F # <<>> /\ Len(F) = Ready /\ Ready \in Nat
      BY <1>4, <1>10, <1>11 DEF F
    <3>2. /\ T \in Seq(Buffers) /\ Len(T) = Ready - 1
          /\ \A i \in 1 .. Len(T) : T[i] = F[i + 1]
      BY <3>1
    <3> HIDE DEF T
    <3>3. T = [i \in 1 .. Len(T) |-> T[i]]
      BY <3>2
    <3> QED
      BY <3>2, <3>3
  <2>2. \A i \in 1 .. Ready - 1 : Status!Free[i + 1] = At(i - 1)'
    <3> TAKE i \in 1 .. Ready - 1
    <3>1. i + 1 \in 1 .. Ready /\ i - 1 \in 0 .. Ready - 2 /\ (i + 1) - 1 = (i - 1) + 1
      BY <1>4
    <3>2. Status!Free[i + 1] = At((i + 1) - 1)
      BY <1>8, <3>1
    <3> QED
      BY <1>7, <3>1, <3>2
  <2> QED
    BY <1>5, <1>9, <2>1, <2>2
<1>13. sdline \in Seq(Waves) /\ sdline # <<>> /\ Head(sdline) = w
  BY <1>1 DEF PoolInv, LineInv, Dequeuing
<1>14. Status!Unserved = sdline /\ Status!Unserved' = Tail(sdline)
  <2>1. spc'[w] = "took"
    BY <1>1 DEF PoolInv, QueueInv, QueueTypes
  <2> QED
    BY <1>1, <1>13, <2>1 DEF Status!Unserved
<1> QED
  BY <1>1, <1>11, <1>12, <1>13, <1>14 DEF Status!Pool!Take

(* A counter that lags behind hides what is not there any more, *)
LEMMA SubtractSteps ==
  ASSUME PoolInv, NEW w \in Waves, Status!SubtractSize(w)
  PROVE  [Status!Pool!Next]_PoolVars
<1>1. /\ spc[w] = "took" /\ spc' = [spc EXCEPT ![w] = "deqdone"]
      /\ ssize' = ssize - 1
      /\ UNCHANGED <<squeue, shead, stail, sheld, sdheld, seheld, sdline>>
  BY DEF Status!SubtractSize, Status!Goto
<1>2. Took /\ ~Took' /\ (Wrote' <=> Wrote) /\ ssize \in Nat
  <2>1. \A v \in Waves : spc[v] = "took" => v = w
    BY <1>1 DEF PoolInv, QueueInv, Locks, Dequeuing
  <2>2. ~Took' /\ (Wrote' <=> Wrote)
    BY <1>1, <2>1 DEF PoolInv, QueueInv, QueueTypes, Took, Wrote
  <2> QED
    BY <1>1, <2>2 DEF PoolInv, QueueInv, QueueTypes, Took
<1>3. Ready' = Ready /\ \A i : At(i)' = At(i)
  BY <1>1, <1>2 DEF Ready, Occupied, At, Place
<1>4. Status!Free' = Status!Free
  BY <1>3, SubtractQueue, FreeKept DEF PoolInv
<1>5. \A v \in Waves : spc'[v] \in {"took", "deqdone"} <=> spc[v] \in {"took", "deqdone"}
  BY <1>1 DEF PoolInv, QueueInv, QueueTypes
<1> QED
  BY <1>1, <1>4, <1>5, UnservedKept, PoolStutter DEF PoolInv

(* or is not there yet. *)
LEMMA WriteSteps ==
  ASSUME PoolInv, NEW w \in Waves, Status!WriteTail(w)
  PROVE  [Status!Pool!Next]_PoolVars
<1>1. /\ spc[w] = "enq" /\ spc' = [spc EXCEPT ![w] = "wrote"]
      /\ squeue' = [squeue EXCEPT ![stail] = sheld[w]]
      /\ UNCHANGED <<shead, ssize, sheld, sdheld, seheld, sdline>>
  BY DEF Status!WriteTail, Status!Goto
<1>2. ~Wrote /\ Wrote' /\ (Took' <=> Took) /\ ssize \in Nat
  <2>1. \A v \in Waves : spc[v] # "wrote"
    BY <1>1 DEF PoolInv, QueueInv, Locks, Enqueuing
  <2>2. Wrote' /\ (Took' <=> Took)
    BY <1>1, <2>1 DEF PoolInv, QueueInv, QueueTypes, Took, Wrote
  <2> QED
    BY <2>1, <2>2 DEF PoolInv, QueueInv, QueueTypes, Wrote
<1>3. PICK n \in 0 .. NumBuffers - 1 : n = Occupied
  BY <1>1, Room, OccupiedType, NBType DEF Owning, PoolInv
<1>4. Ready = n /\ Ready' = n
  BY <1>1, <1>2, <1>3 DEF Ready, Occupied
<1>5. shead \in 0 .. NumBuffers - 1 /\ NumBuffers \in Nat /\ NumBuffers >= 1
  BY NBType DEF PoolInv, QueueInv, QueueTypes
<1>6. stail = Place(n)
  BY <1>3, <1>5 DEF PoolInv, QueueInv, Sizes
<1>7. \A i \in 0 .. n - 1 : At(i)' = At(i)
  <2> TAKE i \in 0 .. n - 1
  <2>1. Place(i) # Place(n) /\ Place(i)' = Place(i)
    BY <1>1, <1>5 DEF Place
  <2>2. Place(i) \in 0 .. NumBuffers - 1
    BY <1>5, SlotRange DEF PoolInv, QueueInv
  <2> QED
    BY <1>1, <1>6, <2>1, <2>2 DEF At, PoolInv, QueueInv, QueueTypes
<1>8. Status!Free' = Status!Free
  BY <1>4, <1>7, WriteQueue, FreeKept DEF PoolInv
<1>9. \A v \in Waves : spc'[v] \in {"took", "deqdone"} <=> spc[v] \in {"took", "deqdone"}
  BY <1>1 DEF PoolInv, QueueInv, QueueTypes
<1> QED
  BY <1>1, <1>8, <1>9, UnservedKept, PoolStutter DEF PoolInv

(* Counting the element gives it back, as the youngest. *)
LEMMA AddSteps ==
  ASSUME PoolInv, NEW w \in Waves, Status!AddSize(w)
  PROVE  Status!Pool!Give(w)
<1>1. /\ spc[w] = "wrote" /\ spc' = [spc EXCEPT ![w] = "enqdone"]
      /\ ssize' = ssize + 1 /\ sheld' = [sheld EXCEPT ![w] = None]
      /\ UNCHANGED <<squeue, shead, stail, sdheld, seheld, sdline>>
  BY DEF Status!AddSize, Status!Goto
<1>2. Wrote /\ ~Wrote' /\ (Took' <=> Took) /\ ssize \in Nat
  <2>1. \A v \in Waves : spc[v] = "wrote" => v = w
    BY <1>1 DEF PoolInv, QueueInv, Locks, Enqueuing
  <2>2. ~Wrote' /\ (Took' <=> Took)
    BY <1>1, <2>1 DEF PoolInv, QueueInv, QueueTypes, Took, Wrote
  <2> QED
    BY <1>1, <2>2 DEF PoolInv, QueueInv, QueueTypes, Wrote
<1>3. PICK n \in Nat : n = Ready
  BY FreeIs DEF PoolInv
<1>4. Occupied = n + 1 /\ Ready' = n + 1
  BY <1>1, <1>2, <1>3, OccupiedType DEF Ready, Occupied, PoolInv
<1>5. \A i : At(i)' = At(i)
  BY <1>1 DEF At, Place
<1>6. At(n) = sheld[w] /\ sheld[w] \in Buffers /\ sheld[w] # None
  <2>1. At(Occupied - 1) = sheld[w]
    BY <1>1 DEF PoolInv, QueueInv, Apart
  <2>2. Occupied - 1 = n
    BY <1>3, <1>4
  <2>3. sheld[w] \in Buffers /\ sheld[w] # None
    BY <1>1 DEF PoolInv, QueueInv, QueueTypes, Holders, Owning
  <2> QED
    BY <2>1, <2>2, <2>3
<1> DEFINE F == Status!Free
<1>7. F = [i \in 1 .. n |-> At(i - 1)] /\ F \in Seq(Buffers) /\ Len(F) = n
  <2>1. F = [i \in 1 .. n |-> At(i - 1)] /\ \A i \in 1 .. n : At(i - 1) \in Buffers
    BY <1>3, FreeIs DEF PoolInv
  <2> HIDE DEF F
  <2> QED
    BY <2>1
<1>8. F' = [i \in 1 .. n + 1 |-> At(i - 1)']
  <2>1. (QueueInv => Status!Free = [i \in 1 .. Ready |-> At(i - 1)])'
    BY FreeIsRing, PTL
  <2> QED
    BY <1>4, <2>1, AddQueue DEF PoolInv
<1>9. Append(F, sheld[w]) = [i \in 1 .. n + 1 |-> IF i = n + 1 THEN sheld[w] ELSE F[i]]
  <2> HIDE DEF F
  <2> DEFINE A == Append(F, sheld[w])
  <2>1. /\ A \in Seq(Buffers) /\ Len(A) = n + 1
        /\ \A i \in 1 .. n + 1 : A[i] = IF i = n + 1 THEN sheld[w] ELSE F[i]
    BY <1>6, <1>7
  <2> HIDE DEF A
  <2>2. A = [i \in 1 .. Len(A) |-> A[i]]
    BY <2>1
  <2> QED
    BY <2>1, <2>2 DEF A
<1>10. F' = Append(F, sheld[w])
  <2>1. ASSUME NEW i \in 1 .. n + 1
        PROVE  At(i - 1)' = IF i = n + 1 THEN sheld[w] ELSE F[i]
    <3>1. CASE i = n + 1
      <4>1. i - 1 = n
        BY <3>1
      <4> QED
        BY <1>5, <1>6, <3>1, <4>1
    <3>2. CASE i # n + 1
      <4>1. i \in 1 .. n
        BY <3>2
      <4>2. F[i] = At(i - 1)
        BY <1>7, <4>1
      <4> QED
        BY <1>5, <3>2, <4>2
    <3> QED
      BY <3>1, <3>2
  <2> QED
    BY <1>8, <1>9, <2>1
<1>11. \A v \in Waves : spc'[v] \in {"took", "deqdone"} <=> spc[v] \in {"took", "deqdone"}
  BY <1>1 DEF PoolInv, QueueInv, QueueTypes
<1>12. Status!Unserved' = Status!Unserved
  BY <1>1, <1>11, UnservedKept DEF PoolInv
<1> QED
  BY <1>1, <1>6, <1>10, <1>12 DEF Status!Pool!Give

LEMMA PoolStep ==
  ASSUME PoolInv, NEW w \in Waves, Walks(w) \/ Moves(w)
  PROVE  [Status!Pool!Next]_PoolVars
  BY WalkSteps, TakeSteps, SubtractSteps, WriteSteps, AddSteps DEF Moves, Status!Pool!Next

LEMMA InitPool == DefaultInit => LineInv /\ Status!Pool!Holds([i \in 1 .. NumBuffers |-> i])
<1> SUFFICES ASSUME DefaultInit PROVE LineInv /\ Status!Pool!Holds([i \in 1 .. NumBuffers |-> i])
  OBVIOUS
<1>1. /\ sdline = <<>> /\ spc = [w \in Waves |-> "idle"] /\ sheld = [w \in Waves |-> None]
      /\ squeue = [i \in 0 .. NumBuffers - 1 |-> i + 1] /\ shead = 0 /\ ssize = NumBuffers
  BY DEF DefaultInit, Status!Init, Status!DeqLock!Init
<1>2. LineInv
  BY <1>1 DEF LineInv, Dequeuing
<1>3. QueueInv
  BY QueueInit
<1>4. Ready = NumBuffers /\ NumBuffers \in Nat
  <2>1. ~Took
    BY <1>1 DEF Took
  <2> QED
    BY <1>1, <1>3, <2>1, FreeIs, NBType
<1>5. \A i \in 1 .. NumBuffers : At(i - 1) = i
  BY <1>1, <1>4 DEF At, Place
<1>6. Status!Free = [i \in 1 .. NumBuffers |-> i]
  BY <1>3, <1>4, <1>5, FreeIs
<1>7. Status!Unserved = <<>>
  BY <1>1 DEF Status!Unserved
<1> QED
  BY <1>1, <1>2, <1>6, <1>7 DEF Status!Pool!Holds

(* The queue of flags implements BufferPool: what is free is what the ring *)
(* holds and the counter shows, a flag is taken when the first in line     *)
(* reads it and given back when it is counted.                             *)
THEOREM FlagsArePool == DefaultSpec => ActsAsPool
<1>1. DefaultInit => PoolInv /\ Status!Pool!Holds([i \in 1 .. NumBuffers |-> i])
  BY InitPool, QueueInit DEF PoolInv
<1>2. PoolInv /\ [DefaultNext \/ DefaultFinished]_defaultVars => PoolInv' /\ [Status!Pool!Next]_PoolVars
  <2> SUFFICES ASSUME PoolInv, [DefaultNext \/ DefaultFinished]_defaultVars
               PROVE  PoolInv' /\ [Status!Pool!Next]_PoolVars
    OBVIOUS
  <2>1. CASE UNCHANGED statusPool
    <3>1. QueueInv' /\ LineInv'
      BY <2>1, SameQueue DEF PoolInv, LineInv, statusPool
    <3>2. Status!Free' = Status!Free /\ Status!Unserved' = Status!Unserved /\ sheld' = sheld
      BY <2>1 DEF statusPool, Status!Free, Status!Unserved, Status!Uncounted
    <3> QED
      BY <3>1, <3>2, PoolStutter DEF PoolInv
  <2>2. ASSUME NEW w \in Waves, Walks(w) \/ Moves(w)
        PROVE  PoolInv' /\ [Status!Pool!Next]_PoolVars
    BY <2>2, StepQueue, LineKept, PoolStep DEF PoolInv
  <2> QED
    BY <2>1, <2>2, StatusCases
<1>3. DefaultSpec => Status!Pool!Holds([i \in 1 .. NumBuffers |-> i]) /\ [][Status!Pool!Next]_PoolVars
  BY <1>1, <1>2, PTL DEF DefaultSpec
<1> QED
  BY <1>3 DEF ActsAsPool, Status!ActsAsPool, PoolVars
=============================================================================
