------------------------- MODULE GdaQueuePairProofs -------------------------
(***************************************************************************)
(* The mlx5 queue pair, for any number of wavefronts, any depth and any    *)
(* programs: the NIC executes every WQE once and in order, and a quiet or  *)
(* a fetch returns when all its caller posted has completed.  The          *)
(* argument: the lock makes post the holder's own; a poll that succeeds    *)
(* has read a completion no further from post than the queue is deep, so   *)
(* the counters modulo W tell their distance exactly; the slots between    *)
(* what is done and post are then those of different positions.  A fetch   *)
(* finds its own answer unless the result words have gone round under it.  *)
(***************************************************************************)
EXTENDS GdaQueuePair, FiniteSetTheorems, TLAPS

Callers == Waves \X Nat \X Nat
Wqes == [idx : Nat, call : Callers,
         word : (0 .. FetchCnt - 1) \cup {NoWord}, sig : BOOLEAN]

Posting == {"write", "store", "advance", "ring", "release"}
Polling == {"poll", "cqe", "recheck"}

(* The wavefronts that hold the lock: who polls for a post does. *)
Holding(w) ==
  pc[w] \in Posting \/ (pc[w] \in Polling /\ requested[w] # Depth)

Types ==
  /\ start \in Nat /\ db \in Nat /\ reported \in Nat /\ post \in Nat
  /\ executed \in Seq(Wqes)
  /\ fetching_atomic_idx \in Nat
  /\ lock \in BOOLEAN
  /\ requested \in [Waves -> Nat] /\ returned \in [Waves -> Nat]
  /\ base \in [Waves -> Nat] /\ word \in [Waves -> Int]
  /\ sq_post \in [Waves -> Nat] /\ completed \in [Waves -> Int]
  /\ prog \in [Waves -> Seq(Posts \cup {Quiet})]
  /\ pc \in [Waves -> Posting \cup Polling \cup {"out", "fetch", "done"}]

(* Who is in a call, and for what it polls. *)
Where ==
  \A w \in Waves :
    /\ returned[w] <= Len(prog[w])
    /\ pc[w] # "out" => Calling(w)
    /\ pc[w] \in Posting => Op(w) # Quiet /\ requested[w] = Op(w).lanes
    /\ pc[w] \in Polling => \/ requested[w] = Depth /\ Op(w).op \in {"QUIET", "FETCH"}
                            \/ requested[w] = Op(w).lanes /\ Op(w) # Quiet
    /\ pc[w] = "fetch" => Op(w).op = "FETCH"
    /\ pc[w] = "done" => Op(w).op \in {"QUIET", "FETCH"} /\ requested[w] = Depth

Exclusive ==
  /\ \A w \in Waves : Holding(w) => lock
  /\ \A v, w \in Waves : Holding(v) /\ Holding(w) => v = w

Control == Types /\ Where /\ Exclusive

(* The positions: at most a queue of them has not been reported. *)
Order ==
  /\ start <= reported /\ reported <= Done /\ Done <= db /\ db <= post
  /\ post <= reported + Depth

Room(w) ==
  /\ pc[w] \in {"write", "store", "advance"} => post + Op(w).lanes <= reported + Depth
  /\ pc[w] \in {"store", "advance"} => base[w] = post

(* A poller has loaded a post and a completion r that has been reported;   *)
(* unless post has moved since, the queue is no longer than that behind r. *)
Seen(w) ==
  /\ pc[w] \in {"cqe", "recheck"} => sq_post[w] <= post
  /\ pc[w] = "recheck" =>
       \E r \in 0 .. reported :
          completed[w] = r % W /\ (sq_post[w] = post => post <= r + Depth)

Counters == Order /\ \A w \in Waves : Room(w) /\ Seen(w)

(* The slots from what is done to post hold the WQEs of their positions. *)
Filled ==
  /\ \A i \in Done .. post - 1 : sq[i % Depth] \in Wqes /\ sq[i % Depth].idx = i
  /\ \A w \in Waves : pc[w] = "advance" =>
       \A l \in 0 .. Op(w).lanes - 1 : sq[(post + l) % Depth] = Wqe(w, l)

IInv == Control /\ Counters /\ Filled /\ OnceInOrder

(* The WQE of a position, executed or not. *)
Entry(i) == IF i < Done THEN executed[i - start + 1] ELSE sq[i % Depth]
OfCall(i, w, k) == Entry(i).call[1] = w /\ Entry(i).call[2] = k

(* The calls of a wavefront that have posted, the one under way included. *)
Posted(w) ==
  returned[w] + (IF \/ pc[w] \in {"ring", "release", "fetch"}
                    \/ pc[w] \in Polling \cup {"done"} /\ requested[w] = Depth
                 THEN 1 ELSE 0)

(* A call's WQEs are at as many consecutive positions as it has lanes. *)
Block(w, k, b) ==
  /\ b + prog[w][k].lanes <= post
  /\ \A i \in start .. post - 1 : OfCall(i, w, k) <=> b <= i /\ i < b + prog[w][k].lanes

Placed ==
  \A w \in Waves :
    /\ \A k \in 1 .. Posted(w) : \E b \in start .. post : Block(w, k, b)
    /\ \A i \in start .. post - 1 : Entry(i).call[1] = w => Entry(i).call[2] \in 1 .. Posted(w)

(* What a wavefront posted is over when its quiet is. *)
Quieted(w) ==
  \/ pc[w] = "done"
  \/ /\ pc[w] = "out" /\ returned[w] > 0
     /\ prog[w][returned[w]].op \in {"QUIET", "FETCH"}
Covered ==
  \A w \in Waves : Quieted(w) =>
    \A i \in start .. post - 1 : Entry(i).call[1] = w => i < reported

QInv == IInv /\ Placed /\ Covered

----------------------------------------------------------------------------
(* Arithmetic.                                                             *)

LEMMA Monotone ==
  ASSUME NEW M \in Nat, NEW a \in Int, NEW b \in Int, a <= b
  PROVE  M * a <= M * b
  OBVIOUS

LEMMA DivMod ==
  ASSUME NEW M \in Nat \ {0}, NEW a \in Int
  PROVE  /\ a = M * (a \div M) + (a % M)
         /\ a \div M \in Int /\ a % M \in 0 .. M - 1
  OBVIOUS

(* Numbers with the same remainder are at least the modulus apart. *)
LEMMA ModApart ==
  ASSUME NEW M \in Nat \ {0}, NEW a \in Int, NEW b \in Int, a < b, b < a + M
  PROVE  a % M # b % M
<1> SUFFICES ASSUME a % M = b % M PROVE FALSE
  OBVIOUS
<1> DEFINE p == a \div M
           q == b \div M
<1>1. /\ a = M * p + (a % M) /\ b = M * q + (a % M)
      /\ p \in Int /\ q \in Int /\ a % M \in Int
  BY DivMod
<1> HIDE DEF p, q
<1>2. M * q - M * p > 0 /\ M * q - M * p < M
  BY <1>1
<1>3. CASE q <= p
  BY <1>1, <1>2, <1>3, Monotone
<1>4. CASE p + 1 <= q
  <2>1. M * (p + 1) <= M * q
    BY <1>1, <1>4, Monotone
  <2>2. M * (p + 1) = M * p + M
    BY <1>1
  <2> QED
    BY <1>1, <1>2, <2>1, <2>2
<1> QED
  BY <1>1, <1>3, <1>4

(* Adding a multiple of the modulus leaves the remainder. *)
LEMMA ModShift ==
  ASSUME NEW M \in Nat \ {0}, NEW x \in 0 .. M - 1, NEW q \in Int
  PROVE  (x + M * q) % M = x
<1> DEFINE y == x + M * q
           z == y % M
           d == y \div M
<1>1. M * q \in Int /\ y \in Int
  OBVIOUS
<1>2. y = M * d + z /\ d \in Int /\ z \in 0 .. M - 1
  BY <1>1, DivMod
<1>3. y = M * q + x
  BY <1>1
<1> HIDE DEF y, z, d
<1>4. M * q - M * d < M /\ M * d - M * q < M /\ M * d \in Int /\ M * q \in Int
  BY <1>1, <1>2, <1>3
<1>5. ~(q + 1 <= d)
  <2>1. M * (q + 1) = M * q + M
    BY <1>1
  <2> QED
    BY <1>2, <1>4, <2>1, Monotone
<1>6. ~(d + 1 <= q)
  <2>1. M * (d + 1) = M * d + M
    BY <1>2
  <2> QED
    BY <1>2, <1>4, <2>1, Monotone
<1>7. q = d
  BY <1>2, <1>5, <1>6
<1> QED
  BY <1>1, <1>2, <1>3, <1>7 DEF y, z

LEMMA ModSmall ==
  ASSUME NEW M \in Nat \ {0}, NEW x \in 0 .. M - 1
  PROVE  x % M = x
<1>1. (x + M * 0) % M = x
  BY ModShift
<1> QED
  BY <1>1

(* The slots a poller sees, from the low bits of a completion, are those   *)
(* the queue had behind that completion.                                   *)
LEMMA AvailableExact ==
  ASSUME NEW w \in Waves, NEW r \in Nat, sq_post[w] \in Nat,
         completed[w] = r % W, r <= sq_post[w], sq_post[w] <= r + Depth
  PROVE  Available(w) = Depth - (sq_post[w] - r)
<1> DEFINE x == Depth - (sq_post[w] - r)
           q == -(r \div W)
<1>1. W \in Nat \ {0} /\ Depth \in Nat /\ Depth < W
  BY QueuePairAssumption
<1>2. r = W * (r \div W) + (r % W) /\ r \div W \in Int /\ r % W \in Int
  BY <1>1, DivMod
<1>3. W * q = -(W * (r \div W)) /\ q \in Int
  BY <1>1, <1>2
<1>4. Depth - (sq_post[w] - completed[w]) = x + W * q
  BY <1>1, <1>2, <1>3
<1>5. x \in 0 .. W - 1
  BY <1>1
<1>6. (x + W * q) % W = x
  BY <1>1, <1>3, <1>5, ModShift
<1> QED
  BY <1>4, <1>6 DEF Available

----------------------------------------------------------------------------
(* Control: where the wavefronts are, and who holds the lock.              *)

LEMMA OpType ==
  ASSUME Types, NEW w \in Waves, Calling(w)
  PROVE  /\ Op(w) = Quiet => Op(w).op = "QUIET" /\ Op(w).lanes = 0
         /\ Op(w) # Quiet => /\ Op(w) \in Posts /\ Op(w).op # "QUIET"
                             /\ Op(w).lanes \in Nat /\ 0 < Op(w).lanes
                             /\ Op(w).lanes < Depth
<1>1. returned[w] + 1 \in 1 .. Len(prog[w])
  BY DEF Types, Calling
<1>2. Op(w) \in Posts \cup {Quiet}
  BY <1>1 DEF Types, Op
<1>3. ASSUME Op(w) # Quiet
      PROVE  Op(w) \in Posts /\ Op(w).op # "QUIET" /\ Op(w).lanes \in 1 .. WfSize
  BY <1>2, <1>3 DEF Posts
<1>4. WfSize \in Nat /\ Depth \in Nat /\ WfSize < Depth
  BY QueuePairAssumption
<1> QED
  BY <1>3, <1>4 DEF Quiet

LEMMA InitControl == Init /\ provider = "mlx5" => Control
<1> SUFFICES ASSUME Init, provider = "mlx5" PROVE Control
  OBVIOUS
<1>1. PICK s \in Starts : NicInit(s)
  BY DEF Init
<1>2. start \in Nat /\ start = s
  BY <1>1, QueuePairAssumption DEF NicInit
<1>4. prog \in [Waves -> Seq(Posts \cup {Quiet})]
  BY <1>1, QueuePairAssumption DEF NicInit
<1>5. executed \in Seq(Wqes)
  BY <1>1 DEF NicInit
<1>6. /\ requested \in [Waves -> Nat] /\ returned \in [Waves -> Nat]
      /\ base \in [Waves -> Nat] /\ word \in [Waves -> Int]
      /\ sq_post \in [Waves -> Nat] /\ completed \in [Waves -> Int]
  BY <1>1, <1>2 DEF Init, NicInit, Mlx5Init, NoWord
<1>7. Types
  BY <1>1, <1>2, <1>4, <1>5, <1>6
  DEF Init, NicInit, Mlx5Init, Types, Posting, Polling
<1>8. Where
  <2>1. \A w \in Waves : pc[w] = "out" /\ returned[w] = 0
    BY <1>1 DEF NicInit
  <2>2. ASSUME NEW w \in Waves PROVE returned[w] <= Len(prog[w])
    <3>1. prog[w] \in Seq(Posts \cup {Quiet}) /\ returned[w] = 0
      BY <1>4, <2>1
    <3>2. Len(prog[w]) \in Nat
      BY <3>1
    <3> QED
      BY <3>1, <3>2
  <2>4. \A w \in Waves : pc[w] \notin Posting \cup Polling \cup {"fetch", "done"}
    BY <2>1 DEF Posting, Polling
  <2> QED
    BY <2>1, <2>2, <2>4 DEF Where
<1>9. Exclusive
  BY <1>1 DEF NicInit, Exclusive, Holding, Posting, Polling
<1> QED
  BY <1>7, <1>8, <1>9 DEF Control

LEMMA TakeControl ==
  ASSUME Control, NEW w \in Waves, Mlx5Acquire(w) \/ Mlx5Quiet(w)
  PROVE  Control'
<1>1. CASE Mlx5Acquire(w)
  <2>1. Calling(w) /\ Op(w) # Quiet /\ Op(w).lanes \in Nat /\ Op(w).lanes < Depth
    BY <1>1, OpType DEF Control, Mlx5Acquire, IsPost
  <2>2. Types'
    BY <1>1, <2>1 DEF Control, Types, Mlx5Acquire, Goto, call, callVars, nicVars,
                      mlx5Vars, Posting, Polling
  <2>3. Where'
    BY <1>1, <2>1 DEF Control, Types, Where, Mlx5Acquire, Goto, call, callVars,
                      Posting, Polling, Op, Calling
  <2>4. Exclusive'
    BY <1>1, <2>1 DEF Control, Types, Exclusive, Holding, Mlx5Acquire, Goto,
                      Posting, Polling
  <2> QED
    BY <2>2, <2>3, <2>4 DEF Control
<1>2. CASE Mlx5Quiet(w)
  <2>1. Calling(w) /\ Op(w).op \in {"QUIET", "FETCH"} /\ Depth \in Nat
    BY <1>2, OpType, QueuePairAssumption DEF Control, Where, Mlx5Quiet, Goto
  <2>2. Types'
    BY <1>2, <2>1 DEF Control, Types, Mlx5Quiet, Goto, call, callVars, nicVars,
                      mlx5Vars, Posting, Polling
  <2>3. Where'
    BY <1>2, <2>1 DEF Control, Types, Where, Mlx5Quiet, Goto, call, callVars,
                      Posting, Polling, Op, Calling
  <2>4. Exclusive'
    <3>1. \A v \in Waves : Holding(v)' => Holding(v)
      BY <1>2, <2>1 DEF Control, Types, Holding, Mlx5Quiet, Goto, Posting, Polling
    <3> QED
      BY <1>2, <3>1 DEF Control, Exclusive, Mlx5Quiet
  <2> QED
    BY <2>2, <2>3, <2>4 DEF Control
<1> QED
  BY <1>1, <1>2

LEMMA PollControl ==
  ASSUME Control, NEW w \in Waves,
         Mlx5LoadPost(w) \/ Mlx5LoadCqe(w) \/ Mlx5Recheck(w)
  PROVE  Control'
<1>1. PICK to \in {"cqe", "recheck", "write", "done"} :
        /\ pc[w] \in Polling /\ pc' = [pc EXCEPT ![w] = to]
        /\ to \in {"write", "done"} => to = Polled(w)
        /\ UNCHANGED <<nicVars, call, sqVars, post>>
        /\ sq_post' \in [Waves -> Nat] /\ completed' \in [Waves -> Int]
  <2>1. reported % W \in Int
    BY QueuePairAssumption DEF Control, Types
  <2>2. CASE Mlx5LoadPost(w)
    BY <2>2 DEF Mlx5LoadPost, Control, Types, Goto, Polled, Polling
  <2>3. CASE Mlx5LoadCqe(w)
    BY <2>1, <2>3 DEF Mlx5LoadCqe, Control, Types, Goto, Polled, Polling
  <2>4. CASE Mlx5Recheck(w)
    BY <2>4 DEF Mlx5Recheck, Control, Types, Goto, Polled, Polling
  <2> QED
    BY <2>2, <2>3, <2>4
<1>2. Calling(w) /\ (Op(w) # Quiet => Op(w).lanes \in Nat /\ Op(w).lanes < Depth)
  BY <1>1, OpType DEF Control, Where, Polling
<1>3. to = "write" => requested[w] = Op(w).lanes /\ Op(w) # Quiet /\ requested[w] # Depth
  BY <1>1, <1>2, OpType, QueuePairAssumption DEF Control, Where, Polling, Polled
<1>4. to = "done" => requested[w] = Depth /\ Op(w).op \in {"QUIET", "FETCH"}
  BY <1>1, <1>2, OpType DEF Control, Where, Polling, Polled
<1>5. Types'
  BY <1>1 DEF Control, Types, nicVars, call, callVars, sqVars, Posting, Polling
<1>6. Where'
  BY <1>1, <1>2, <1>3, <1>4 DEF Control, Types, Where, call, callVars, sqVars,
                                Posting, Polling, Op, Calling
<1>7. Exclusive'
  <2>1. lock' = lock /\ requested' = requested
    BY <1>1 DEF sqVars
  <2>2. \A v \in Waves : Holding(v)' => Holding(v)
    BY <1>1, <1>3, <2>1 DEF Control, Types, Holding, Posting, Polling
  <2> QED
    BY <2>1, <2>2 DEF Control, Exclusive
<1> QED
  BY <1>5, <1>6, <1>7 DEF Control

(* What the WQEs of a post are. *)
LEMMA WqeType ==
  ASSUME Types, NEW w \in Waves, Calling(w), Op(w) # Quiet,
         NEW l \in 0 .. Op(w).lanes - 1
  PROVE  /\ Wqe(w, l) \in Wqes
         /\ Wqe(w, l).idx = base[w] + l
         /\ Wqe(w, l).call = <<w, returned[w] + 1, l>>
<1>1. Op(w).lanes \in Nat /\ l \in Nat
  BY OpType
<1>2. base[w] + l \in Nat /\ returned[w] + 1 \in Nat /\ word[w] + l \in Int
  BY <1>1 DEF Types
<1>3. (word[w] + l) % FetchCnt \in 0 .. FetchCnt - 1
  BY <1>2, QueuePairAssumption
<1> QED
  BY <1>1, <1>2, <1>3 DEF Wqe, Wqes, Callers

LEMMA PostControl ==
  ASSUME Control, NEW w \in Waves,
         Mlx5Place(w) \/ Mlx5Store(w) \/ Mlx5Advance(w) \/ Mlx5Ring(w)
  PROVE  Control'
<1>1. Calling(w) /\ Op(w) # Quiet /\ Op(w).lanes \in Nat /\ Op(w).lanes < Depth
  BY OpType DEF Control, Where, Mlx5Place, Mlx5Store, Mlx5Advance, Mlx5Ring,
                Goto, Posting
<1>2. Types'
  <2>1. CASE Mlx5Place(w)
    <3>1. base' \in [Waves -> Nat] /\ word' \in [Waves -> Int]
      BY <2>1 DEF Mlx5Place, Control, Types
    <3> QED
      BY <2>1, <3>1 DEF Mlx5Place, Control, Types, Goto, nicVars, callVars, sqVars,
                        mlx5Vars, Posting, Polling
  <2>2. CASE Mlx5Store(w)
    BY <2>2 DEF Mlx5Store, Control, Types, Goto, call, callVars, sqVars, mlx5Vars,
                Posting, Polling
  <2>3. CASE Mlx5Advance(w)
    <3>1. post' \in Nat /\ fetching_atomic_idx' \in Nat
      <4> DEFINE n == IF Op(w).op = "FETCH" THEN Op(w).lanes ELSE 0
      <4>1. n \in Nat
        BY <1>1
      <4>2. fetching_atomic_idx' = fetching_atomic_idx + n /\ post' = post + Op(w).lanes
        BY <2>3 DEF Mlx5Advance
      <4> HIDE DEF n
      <4> QED
        BY <1>1, <4>1, <4>2 DEF Control, Types
    <3> QED
      BY <2>3, <3>1 DEF Mlx5Advance, Control, Types, Goto, nicVars, call, callVars,
                        Posting, Polling
  <2>4. CASE Mlx5Ring(w)
    <3>1. db' \in Nat
      <4>1. Done \in Nat /\ post \in Nat /\ W \in Nat \ {0}
        BY QueuePairAssumption DEF Control, Types, Done
      <4>2. (post - Done) % W \in Nat
        BY <4>1
      <4> QED
        BY <2>4, <4>1, <4>2 DEF Mlx5Ring, DoorbellAt
    <3> QED
      BY <2>4, <3>1 DEF Mlx5Ring, Control, Types, Goto, call, callVars, sqVars,
                        mlx5Vars, Posting, Polling
  <2> QED
    BY <2>1, <2>2, <2>3, <2>4
<1>3. PICK to \in {"store", "advance", "ring", "release"} :
        /\ pc[w] \in Posting /\ pc' = [pc EXCEPT ![w] = to]
        /\ UNCHANGED <<callVars, lock, requested>>
  BY DEF Mlx5Place, Mlx5Store, Mlx5Advance, Mlx5Ring, Goto, call, sqVars, Posting
<1>4. Where'
  BY <1>1, <1>3 DEF Control, Types, Where, callVars, Posting, Polling, Op, Calling
<1>5. Exclusive'
  <2>1. \A v \in Waves : Holding(v)' => Holding(v)
    BY <1>3 DEF Control, Types, Holding, Posting
  <2> QED
    BY <1>3, <2>1 DEF Control, Exclusive
<1> QED
  BY <1>2, <1>4, <1>5 DEF Control

LEMMA LeaveControl ==
  ASSUME Control, NEW w \in Waves, Mlx5Release(w) \/ Mlx5Return(w)
  PROVE  Control'
<1>1. Calling(w) /\ returned[w] \in Nat /\ Len(prog[w]) \in Nat /\ returned[w] < Len(prog[w])
  <2>1. pc[w] # "out"
    BY DEF Mlx5Release, Mlx5Return, Goto
  <2>2. Calling(w)
    BY <2>1 DEF Control, Where
  <2>3. returned[w] \in Nat /\ prog[w] \in Seq(Posts \cup {Quiet})
    BY DEF Control, Types
  <2>4. Len(prog[w]) \in Nat
    BY <2>3
  <2>5. returned[w] < Len(prog[w])
    BY <2>2 DEF Calling
  <2> QED
    BY <2>2, <2>3, <2>4, <2>5
<1>2. PICK to \in {"out", "fetch"}, n \in {returned[w], returned[w] + 1} :
        /\ pc[w] \in {"release", "done"} /\ pc' = [pc EXCEPT ![w] = to]
        /\ returned' = [returned EXCEPT ![w] = n]
        /\ pc[w] = "done" => lock' = lock
        /\ to = "fetch" => Op(w).op = "FETCH" /\ n = returned[w]
        /\ lock' \in BOOLEAN
        /\ UNCHANGED <<nicVars, prog, base, word, fetching_atomic_idx, requested, mlx5Vars>>
  <2>1. CASE Mlx5Release(w)
    <3>1. CASE Op(w).op = "FETCH"
      <4>1. pc' = [pc EXCEPT ![w] = "fetch"]
        BY <2>1, <3>1 DEF Mlx5Release, Goto
      <4>2. returned' = [returned EXCEPT ![w] = returned[w]]
        <5>1. returned[w] + (IF Op(w).op # "FETCH" THEN 1 ELSE 0) = returned[w]
          BY <1>1, <3>1
        <5> QED
          BY <2>1, <5>1 DEF Mlx5Release, ReturnsIf
      <4> QED
        BY <1>1, <2>1, <3>1, <4>1, <4>2 DEF Mlx5Release, Goto
    <3>2. CASE Op(w).op # "FETCH"
      BY <1>1, <2>1, <3>2 DEF Mlx5Release, Goto, ReturnsIf
    <3> QED
      BY <3>1, <3>2
  <2>2. CASE Mlx5Return(w)
    BY <1>1, <2>2 DEF Control, Types, Mlx5Return, Goto, Returns, ReturnsIf, sqVars
  <2> QED
    BY <2>1, <2>2
<1>3. Types'
  BY <1>1, <1>2 DEF Control, Types, nicVars, mlx5Vars
<1>4. Where'
  <2>1. \A v \in Waves : v # w =>
          /\ returned'[v] = returned[v] /\ pc'[v] = pc[v] /\ prog'[v] = prog[v]
          /\ requested'[v] = requested[v] /\ Op(v)' = Op(v)
          /\ Calling(v)' = Calling(v)
    BY <1>2 DEF Control, Types, Op, Calling
  <2>2. /\ returned'[w] = n /\ n <= Len(prog[w]) /\ pc'[w] = to /\ prog' = prog
        /\ to = "fetch" => Op(w)' = Op(w) /\ Calling(w)'
    BY <1>1, <1>2 DEF Control, Types, Op, Calling
  <2> QED
    BY <1>2, <2>1, <2>2 DEF Control, Where, Posting, Polling
<1>5. Exclusive'
  <2>1. \A v \in Waves : Holding(v)' => v # w /\ Holding(v)
    BY <1>2 DEF Control, Types, Holding, Posting, Polling
  <2>2. Mlx5Return(w) => lock' = lock
    BY DEF Mlx5Return, sqVars
  <2>3. Mlx5Release(w) => Holding(w)
    BY DEF Mlx5Release, Goto, Holding, Posting
  <2> QED
    BY <2>1, <2>2, <2>3 DEF Control, Exclusive
<1> QED
  BY <1>3, <1>4, <1>5 DEF Control

LEMMA NicControl ==
  ASSUME Control, Filled, Order, Nic
  PROVE  Control'
<1>1. /\ UNCHANGED <<start, sq, db, sqVars, call, pc, vendorVars>>
      /\ executed' \in Seq(Wqes) /\ reported' \in Nat
  <2>1. CASE Execute
    <3>1. Done \in Done .. post - 1
      BY <2>1 DEF Execute, Control, Types, Order, Done
    <3>2. sq[Done % Depth] \in Wqes
      BY <3>1 DEF Filled
    <3> QED
      BY <2>1, <3>2 DEF Nic, Execute, Control, Types
  <2>2. CASE Report
    BY <2>2 DEF Nic, Report, Control, Types, Done
  <2> QED
    BY <2>1, <2>2 DEF Nic
<1>2. Types'
  BY <1>1 DEF Control, Types, sqVars, call, callVars, vendorVars, mlx5Vars
<1>3. Where'
  BY <1>1 DEF Control, Where, sqVars, call, callVars, Op, Calling
<1>4. Exclusive'
  BY <1>1 DEF Control, Exclusive, Holding, sqVars
<1> QED
  BY <1>2, <1>3, <1>4 DEF Control

----------------------------------------------------------------------------
(* Counters: nobody posts before the NIC has reported room.                *)

LEMMA CounterTypes ==
  ASSUME Types
  PROVE  /\ Done \in Nat /\ start \in Nat /\ db \in Nat /\ reported \in Nat
         /\ post \in Nat /\ Depth \in Nat /\ Depth > 0 /\ Len(executed) \in Nat
         /\ W \in Nat /\ Depth < W
  BY QueuePairAssumption DEF Types, Done

(* Between post and advance, one wavefront is alone. *)
LEMMA Alone ==
  ASSUME Control, NEW v \in Waves, NEW w \in Waves, pc[w] \in Posting, v # w
  PROVE  pc[v] \notin Posting
  BY DEF Control, Exclusive, Holding

LEMMA InitCounters == Init /\ provider = "mlx5" => Counters
<1> SUFFICES ASSUME Init, provider = "mlx5" PROVE Counters
  OBVIOUS
<1>1. PICK s \in Starts : NicInit(s)
  BY DEF Init
<1>2. /\ start = s /\ db = s /\ reported = s /\ post = s /\ s \in Nat
      /\ Done = s + 0 /\ Depth \in Nat
  BY <1>1, QueuePairAssumption DEF Init, NicInit, Mlx5Init, Done
<1>3. \A w \in Waves : pc[w] = "out"
  BY <1>1 DEF NicInit
<1>4. Order
  BY <1>2 DEF Order
<1>5. \A w \in Waves : Room(w) /\ Seen(w)
  BY <1>3 DEF Room, Seen
<1> QED
  BY <1>4, <1>5 DEF Counters

(* A step of a wavefront that moves no counter, to where none is relied on. *)
LEMMA StayCounters ==
  ASSUME Control, Counters, NEW w \in Waves, NEW to,
         to \notin {"write", "store", "advance", "cqe", "recheck"},
         pc' = [pc EXCEPT ![w] = to],
         UNCHANGED <<start, db, executed, reported, post, sq_post, completed, base, prog>>,
         \A v \in Waves : v # w => returned'[v] = returned[v]
  PROVE  Counters'
<1>1. Order'
  BY DEF Counters, Order, Done
<1>2. ASSUME NEW v \in Waves PROVE Room(v)' /\ Seen(v)'
  <2>1. CASE v = w
    BY <2>1 DEF Control, Types, Room, Seen
  <2>2. CASE v # w
    <3>1. pc'[v] = pc[v] /\ Op(v)' = Op(v)
      BY <2>2 DEF Control, Types, Op
    <3> QED
      BY <3>1 DEF Counters, Room, Seen
  <2> QED
    BY <2>1, <2>2
<1> QED
  BY <1>1, <1>2 DEF Counters

LEMMA CallCounters ==
  ASSUME Control, Counters, NEW w \in Waves,
         \/ Mlx5Acquire(w) \/ Mlx5Quiet(w) \/ Mlx5Release(w) \/ Mlx5Return(w)
  PROVE  Counters'
<1>1. CASE Mlx5Acquire(w)
  BY <1>1, StayCounters DEF Mlx5Acquire, Goto, nicVars, call, callVars, mlx5Vars
<1>2. CASE Mlx5Quiet(w)
  BY <1>2, StayCounters DEF Mlx5Quiet, Goto, nicVars, call, callVars, mlx5Vars
<1>3. CASE Mlx5Release(w)
  <2>1. \A v \in Waves : v # w => returned'[v] = returned[v]
    BY <1>3 DEF Mlx5Release, ReturnsIf, Control, Types
  <2> QED
    BY <1>3, <2>1, StayCounters DEF Mlx5Release, Goto, nicVars, mlx5Vars
<1>4. CASE Mlx5Return(w)
  <2>1. \A v \in Waves : v # w => returned'[v] = returned[v]
    BY <1>4 DEF Mlx5Return, Returns, ReturnsIf, Control, Types
  <2> QED
    BY <1>4, <2>1, StayCounters DEF Mlx5Return, Goto, nicVars, mlx5Vars
<1> QED
  BY <1>1, <1>2, <1>3, <1>4

(* A poll that ends has found the room it asked for. *)
LEMMA PollFinds ==
  ASSUME Control, Counters, NEW w \in Waves,
         \/ pc[w] = "poll" /\ post + requested[w] <= Depth
         \/ pc[w] = "recheck" /\ post = sq_post[w] /\ Available(w) >= requested[w]
  PROVE  post + requested[w] <= reported + Depth
<1>1. CASE pc[w] = "poll" /\ post + requested[w] <= Depth
  <2>1. requested[w] \in Nat
    BY DEF Control, Types
  <2> QED
    BY <1>1, <2>1, CounterTypes DEF Control
<1>2. CASE pc[w] = "recheck" /\ post = sq_post[w] /\ Available(w) >= requested[w]
  <2>1. PICK r \in 0 .. reported : completed[w] = r % W /\ post <= r + Depth
    BY <1>2 DEF Counters, Seen
  <2>2. r \in Nat /\ r <= post /\ r <= reported /\ sq_post[w] \in Nat /\ requested[w] \in Nat
    <3>1. reported <= post
      BY CounterTypes DEF Control, Counters, Order
    <3>2. sq_post[w] \in Nat /\ requested[w] \in Nat
      BY DEF Control, Types
    <3> QED
      BY <2>1, <3>1, <3>2, CounterTypes DEF Control
  <2>3. Available(w) = Depth - (sq_post[w] - r)
    BY <1>2, <2>1, <2>2, AvailableExact
  <2> QED
    BY <1>2, <2>2, <2>3, CounterTypes DEF Control
<1> QED
  BY <1>1, <1>2

LEMMA PollCounters ==
  ASSUME Control, Counters, NEW w \in Waves,
         Mlx5LoadPost(w) \/ Mlx5LoadCqe(w) \/ Mlx5Recheck(w)
  PROVE  Counters'
<1>1. /\ UNCHANGED <<start, db, executed, reported, post, base, prog, returned, requested>>
      /\ pc[w] \in Polling
      /\ \A v \in Waves : v # w => /\ pc'[v] = pc[v] /\ sq_post'[v] = sq_post[v]
                                   /\ completed'[v] = completed[v]
  BY DEF Mlx5LoadPost, Mlx5LoadCqe, Mlx5Recheck, Goto, Control, Types, nicVars, call,
         callVars, sqVars, Polling
<1>2. Order'
  BY <1>1 DEF Counters, Order, Done
<1>3. ASSUME NEW v \in Waves, v # w PROVE Room(v)' /\ Seen(v)'
  BY <1>1, <1>3 DEF Counters, Room, Seen, Op
<1>4. CASE Mlx5LoadPost(w)
  <2>1. sq_post'[w] = post /\ pc'[w] \in {"cqe", Polled(w)}
    BY <1>4 DEF Mlx5LoadPost, Goto, Control, Types
  <2>2. Room(w)'
    <3>1. ASSUME pc'[w] = "write" PROVE post + Op(w).lanes <= reported + Depth
      <4>1. post + requested[w] <= Depth /\ Polled(w) = "write" /\ pc[w] = "poll"
        BY <1>4, <3>1 DEF Mlx5LoadPost, Goto, Control, Types
      <4>2. requested[w] = Op(w).lanes
        BY <4>1, QueuePairAssumption DEF Control, Where, Polling, Polled
      <4> QED
        BY <4>1, <4>2, PollFinds
    <3>2. Polled(w) \in {"write", "done"}
      BY DEF Polled
    <3> QED
      BY <1>1, <2>1, <3>1, <3>2 DEF Room, Op
  <2>3. Seen(w)'
    BY <1>1, <2>1, CounterTypes DEF Seen, Polled, Control
  <2> QED
    BY <1>2, <1>3, <2>2, <2>3 DEF Counters
<1>5. CASE Mlx5LoadCqe(w)
  <2>1. /\ pc'[w] = "recheck" /\ completed'[w] = reported % W
        /\ sq_post' = sq_post /\ sq_post[w] <= post
    <3>1. pc[w] = "cqe" /\ pc' = [pc EXCEPT ![w] = "recheck"] /\ sq_post' = sq_post
      BY <1>5 DEF Mlx5LoadCqe, Goto
    <3>2. completed' = [completed EXCEPT ![w] = reported % W]
      BY <1>5 DEF Mlx5LoadCqe
    <3> QED
      BY <3>1, <3>2 DEF Control, Types, Counters, Seen
  <2>2. reported \in 0 .. reported /\ post <= reported + Depth
    BY CounterTypes DEF Control, Counters, Order
  <2>3. Room(w)' /\ Seen(w)'
    BY <1>1, <2>1, <2>2 DEF Room, Seen
  <2> QED
    BY <1>2, <1>3, <2>3 DEF Counters
<1>6. CASE Mlx5Recheck(w)
  <2>1. sq_post'[w] = post /\ pc'[w] \in {"cqe", Polled(w)}
    BY <1>6 DEF Mlx5Recheck, Goto, Control, Types
  <2>2. Room(w)'
    <3>1. ASSUME pc'[w] = "write" PROVE post + Op(w).lanes <= reported + Depth
      <4>1. /\ post = sq_post[w] /\ Available(w) >= requested[w]
            /\ Polled(w) = "write" /\ pc[w] = "recheck"
        BY <1>6, <3>1 DEF Mlx5Recheck, Goto, Control, Types
      <4>2. requested[w] = Op(w).lanes
        BY <4>1, QueuePairAssumption DEF Control, Where, Polling, Polled
      <4> QED
        BY <4>1, <4>2, PollFinds
    <3>2. Polled(w) \in {"write", "done"}
      BY DEF Polled
    <3> QED
      BY <1>1, <2>1, <3>1, <3>2 DEF Room, Op
  <2>3. Seen(w)'
    BY <1>1, <2>1, CounterTypes DEF Seen, Polled, Control
  <2> QED
    BY <1>2, <1>3, <2>2, <2>3 DEF Counters
<1> QED
  BY <1>4, <1>5, <1>6

LEMMA PostCounters ==
  ASSUME Control, Counters, NEW w \in Waves,
         Mlx5Place(w) \/ Mlx5Store(w) \/ Mlx5Advance(w) \/ Mlx5Ring(w)
  PROVE  Counters'
<1>1. Calling(w) /\ Op(w) # Quiet /\ Op(w).lanes \in Nat /\ 0 < Op(w).lanes
  BY OpType DEF Control, Where, Mlx5Place, Mlx5Store, Mlx5Advance, Mlx5Ring,
                Goto, Posting
<1>2. /\ UNCHANGED <<start, executed, reported, prog, returned, sq_post, completed>>
      /\ pc[w] \in Posting /\ Op(w)' = Op(w)
      /\ \A v \in Waves : v # w => pc'[v] = pc[v] /\ base'[v] = base[v]
  BY DEF Mlx5Place, Mlx5Store, Mlx5Advance, Mlx5Ring, Goto, Control, Types, nicVars, call,
         callVars, mlx5Vars, Posting, Op
<1>3. ASSUME NEW v \in Waves, v # w PROVE Room(v)'
  <2>1. pc'[v] \notin Posting
    BY <1>2, <1>3, Alone
  <2> QED
    BY <2>1 DEF Room, Posting
<1>4. ASSUME NEW v \in Waves, v # w, post <= post', post' \in Nat PROVE Seen(v)'
  <2>1. sq_post[v] \in Nat /\ post \in Nat
    BY DEF Control, Types
  <2>2. pc'[v] = pc[v] /\ sq_post'[v] = sq_post[v] /\ completed'[v] = completed[v]
    BY <1>2, <1>4
  <2>3. pc[v] \in {"cqe", "recheck"} => sq_post[v] <= post
    BY DEF Counters, Seen
  <2>4. sq_post[v] <= post /\ sq_post[v] = post' => sq_post[v] = post
    BY <1>4, <2>1
  <2>5. CASE pc[v] = "recheck"
    <3>1. PICK r \in 0 .. reported :
            completed[v] = r % W /\ (sq_post[v] = post => post <= r + Depth)
      BY <2>5 DEF Counters, Seen
    <3>2. sq_post[v] = post' => post' <= r + Depth
      BY <2>3, <2>4, <2>5, <3>1
    <3> QED
      BY <1>2, <1>4, <2>1, <2>2, <2>3, <2>5, <3>1, <3>2 DEF Seen
  <2> QED
    BY <1>4, <2>1, <2>2, <2>3, <2>5 DEF Seen
<1>5. CASE Mlx5Place(w)
  <2>1. /\ UNCHANGED <<db, post>> /\ pc[w] = "write" /\ pc'[w] = "store"
        /\ base'[w] = post
    BY <1>5 DEF Mlx5Place, Goto, Control, Types, nicVars, mlx5Vars
  <2>2. Order'
    BY <1>2, <2>1 DEF Counters, Order, Done
  <2>3. Room(w)' /\ Seen(w)'
    BY <1>2, <2>1 DEF Counters, Room, Seen
  <2> QED
    BY <1>3, <1>4, <2>1, <2>2, <2>3, CounterTypes DEF Counters, Control
<1>6. CASE Mlx5Store(w)
  <2>1. UNCHANGED <<db, post, base>> /\ pc[w] = "store" /\ pc'[w] = "advance"
    BY <1>6 DEF Mlx5Store, Goto, Control, Types, call, mlx5Vars
  <2>2. Order'
    BY <1>2, <2>1 DEF Counters, Order, Done
  <2>3. Room(w)' /\ Seen(w)'
    BY <1>2, <2>1 DEF Counters, Room, Seen
  <2> QED
    BY <1>3, <1>4, <2>1, <2>2, <2>3, CounterTypes DEF Counters, Control
<1>7. CASE Mlx5Advance(w)
  <2>1. /\ UNCHANGED <<db, base>> /\ pc[w] = "advance" /\ pc'[w] \in {"ring", "release"}
        /\ post' = post + Op(w).lanes
    BY <1>7 DEF Mlx5Advance, Goto, Control, Types, nicVars, call
  <2>2. post + Op(w).lanes <= reported + Depth
    BY <2>1 DEF Counters, Room
  <2>3. Order'
    BY <1>1, <1>2, <2>1, <2>2, CounterTypes DEF Control, Counters, Order, Done
  <2>4. Room(w)' /\ Seen(w)'
    BY <1>2, <2>1 DEF Room, Seen
  <2> QED
    BY <1>1, <1>3, <1>4, <2>1, <2>3, <2>4, CounterTypes DEF Counters, Control
<1>8. CASE Mlx5Ring(w)
  <2>1. /\ UNCHANGED <<base, post>> /\ pc[w] = "ring" /\ pc'[w] = "release"
        /\ db' = DoorbellAt(post, W)
    BY <1>8 DEF Mlx5Ring, Goto, Control, Types, call, mlx5Vars
  <2>2. db' = post
    <3>1. /\ Done <= post /\ post <= Done + Depth /\ Done \in Nat /\ post \in Nat
          /\ Depth < W /\ W \in Nat /\ Depth \in Nat
      BY CounterTypes DEF Control, Counters, Order
    <3>2. W \in Nat \ {0} /\ post - Done \in 0 .. W - 1
      BY <3>1
    <3>3. (post - Done) % W = post - Done
      BY <3>2, ModSmall
    <3> QED
      BY <2>1, <3>1, <3>3 DEF DoorbellAt
  <2>3. Order'
    BY <1>2, <2>1, <2>2, CounterTypes DEF Control, Counters, Order, Done
  <2>4. Room(w)' /\ Seen(w)'
    BY <1>2, <2>1 DEF Room, Seen
  <2> QED
    BY <1>3, <1>4, <2>1, <2>3, <2>4, CounterTypes DEF Counters, Control
<1> QED
  BY <1>5, <1>6, <1>7, <1>8

(* The WQE the NIC comes to is that of its position. *)
LEMMA NextWqe ==
  ASSUME Control, Counters, Filled, Done < db
  PROVE  sq[Done % Depth] \in Wqes /\ sq[Done % Depth].idx = Done
<1>1. Done \in Done .. post - 1
  BY CounterTypes DEF Control, Counters, Order
<1> QED
  BY <1>1 DEF Filled

LEMMA NicCounters ==
  ASSUME Control, Counters, Filled, Nic
  PROVE  Counters'
<1>1. /\ UNCHANGED <<start, db, post, sq_post, completed, base, prog, returned, pc>>
      /\ reported <= reported' /\ reported' <= Done' /\ Done <= Done' /\ Done' <= db
      /\ reported' \in Nat /\ Done' \in Nat
  <2>1. CASE Execute
    <3>1. executed' = Append(executed, sq[Done % Depth]) /\ Done < db
      BY <2>1 DEF Execute
    <3>2. Done' = Done + 1
      <4>1. Len(executed') = Len(executed) + 1
        BY <3>1, NextWqe DEF Control, Types
      <4> QED
        BY <2>1, <4>1, CounterTypes DEF Execute, Done, Control
    <3> QED
      BY <2>1, <3>1, <3>2, CounterTypes DEF Control, Counters, Order, Nic, Execute, call,
                                            callVars, vendorVars, mlx5Vars
  <2>2. CASE Report
    <3>1. PICK i \in reported + 1 .. Done : reported' = i
      BY <2>2 DEF Report
    <3>2. Done' = Done
      BY <2>2 DEF Report, Done
    <3> QED
      BY <2>2, <3>1, <3>2, CounterTypes DEF Control, Counters, Order, Nic, Report, call,
                                            callVars, vendorVars, mlx5Vars
  <2> QED
    BY <2>1, <2>2 DEF Nic
<1>2. Order'
  BY <1>1, CounterTypes DEF Control, Counters, Order
<1>3. ASSUME NEW v \in Waves PROVE Room(v)' /\ Seen(v)'
  <2>1. Room(v)'
    <3>1. ASSUME pc[v] \in {"write", "store", "advance"} PROVE Op(v).lanes \in Nat
      BY <3>1, OpType DEF Control, Where, Posting
    <3>2. Op(v)' = Op(v) /\ pc'[v] = pc[v] /\ base'[v] = base[v] /\ post' = post
      BY <1>1 DEF Op
    <3>3. ASSUME pc[v] \in {"write", "store", "advance"}
          PROVE  post + Op(v).lanes <= reported' + Depth
      <4>1. post + Op(v).lanes <= reported + Depth
        BY <3>3 DEF Counters, Room
      <4> QED
        BY <1>1, <3>1, <3>3, <4>1, CounterTypes DEF Control
    <3> QED
      BY <3>2, <3>3 DEF Counters, Room
  <2>2. Seen(v)'
    <3>1. 0 .. reported \subseteq 0 .. reported'
      BY <1>1, CounterTypes DEF Control
    <3> QED
      BY <1>1, <3>1 DEF Counters, Seen
  <2> QED
    BY <2>1, <2>2
<1> QED
  BY <1>2, <1>3 DEF Counters

----------------------------------------------------------------------------
(* The slots.                                                              *)

(* A store writes its positions' slots, and no other. *)
LEMMA WrittenOwn ==
  ASSUME Types, NEW w \in Waves, Calling(w), Op(w) # Quiet,
         NEW l \in 0 .. Op(w).lanes - 1
  PROVE  Written(w)[(base[w] + l) % Depth] = Wqe(w, l)
<1>1. /\ Op(w).lanes \in Nat /\ Op(w).lanes < Depth /\ l \in Nat /\ base[w] \in Nat
      /\ Depth \in Nat \ {0}
  <2>1. Op(w).lanes \in Nat /\ Op(w).lanes < Depth
    BY OpType
  <2>2. base[w] \in Nat /\ Depth \in Nat \ {0}
    BY QueuePairAssumption DEF Types
  <2> QED
    BY <2>1, <2>2
<1> DEFINE k == (base[w] + l) % Depth
<1>2. k \in 0 .. Depth - 1
  <2>1. base[w] + l \in Int /\ Depth \in Nat \ {0}
    BY <1>1
  <2> QED
    BY <2>1, DivMod
<1>3. ASSUME NEW m \in 0 .. Op(w).lanes - 1, (base[w] + m) % Depth = k PROVE m = l
  <2>1. m \in Nat /\ base[w] + m \in Int /\ base[w] + l \in Int
    BY <1>1
  <2>2. CASE m < l
    <3>1. base[w] + m < base[w] + l /\ base[w] + l < base[w] + m + Depth
      BY <1>1, <2>1, <2>2
    <3> QED
      BY <1>1, <1>3, <2>1, <3>1, ModApart
  <2>3. CASE l < m
    <3>1. base[w] + l < base[w] + m /\ base[w] + m < base[w] + l + Depth
      BY <1>1, <2>1, <2>3
    <3> QED
      BY <1>1, <1>3, <2>1, <3>1, ModApart
  <2> QED
    BY <1>1, <2>1, <2>2, <2>3
<1>4. (CHOOSE m \in 0 .. Op(w).lanes - 1 : (base[w] + m) % Depth = k) = l
  BY <1>3
<1> HIDE DEF k
<1>5. \E m \in 0 .. Op(w).lanes - 1 : (base[w] + m) % Depth = k
  BY DEF k
<1>6. Written(w)[k] =
        Wqe(w, CHOOSE m \in 0 .. Op(w).lanes - 1 : (base[w] + m) % Depth = k)
  BY <1>2, <1>5 DEF Written
<1> QED
  BY <1>4, <1>6 DEF k

LEMMA WrittenElse ==
  ASSUME Types, NEW w \in Waves, Calling(w), Op(w) # Quiet, NEW i \in Int,
         i < base[w], base[w] + Op(w).lanes <= i + Depth
  PROVE  Written(w)[i % Depth] = sq[i % Depth]
<1>1. /\ Op(w).lanes \in Nat /\ base[w] \in Nat /\ Depth \in Nat \ {0}
  BY OpType, QueuePairAssumption DEF Types
<1>2. i % Depth \in 0 .. Depth - 1
  BY <1>1, DivMod
<1>3. ASSUME NEW l \in 0 .. Op(w).lanes - 1 PROVE (base[w] + l) % Depth # i % Depth
  <2>1. base[w] + l \in Int /\ i < base[w] + l /\ base[w] + l < i + Depth
    BY <1>1
  <2> QED
    BY <1>1, <2>1, ModApart
<1> QED
  BY <1>2, <1>3 DEF Written

LEMMA InitFilled == Init /\ provider = "mlx5" => Filled /\ OnceInOrder
<1> SUFFICES ASSUME Init, provider = "mlx5" PROVE Filled /\ OnceInOrder
  OBVIOUS
<1>1. PICK s \in Starts : NicInit(s)
  BY DEF Init
<1>2. executed = <<>> /\ Len(executed) = 0
  BY <1>1 DEF NicInit
<1>3. Done = post /\ post \in Int
  BY <1>1, <1>2, QueuePairAssumption DEF Init, NicInit, Mlx5Init, Done
<1>4. \A w \in Waves : pc[w] = "out"
  BY <1>1 DEF NicInit
<1>5. Filled
  BY <1>3, <1>4 DEF Filled
<1>6. OnceInOrder
  BY <1>2 DEF OnceInOrder
<1> QED
  BY <1>5, <1>6

(* A step of a wavefront that stores nothing and does not move post. *)
LEMMA StayFilled ==
  ASSUME Control, Filled, OnceInOrder, NEW w \in Waves, NEW to, to # "advance",
         pc' = [pc EXCEPT ![w] = to],
         UNCHANGED <<start, sq, executed, post, provider, prog>>,
         \A v \in Waves : v # w => /\ returned'[v] = returned[v] /\ base'[v] = base[v]
                                   /\ word'[v] = word[v]
  PROVE  Filled' /\ OnceInOrder'
<1>1. OnceInOrder'
  BY DEF OnceInOrder
<1>2. ASSUME NEW v \in Waves, pc'[v] = "advance"
      PROVE  \A l \in 0 .. Op(v)'.lanes - 1 : sq'[(post' + l) % Depth] = Wqe(v, l)'
  <2>1. v # w /\ pc[v] = "advance"
    BY <1>2 DEF Control, Types
  <2>2. Op(v)' = Op(v) /\ \A l : Wqe(v, l)' = Wqe(v, l)
    BY <2>1 DEF Op, Wqe
  <2> QED
    BY <2>1, <2>2 DEF Filled
<1>3. Filled'
  BY <1>2 DEF Filled, Done
<1> QED
  BY <1>1, <1>3

LEMMA CallFilled ==
  ASSUME Control, Filled, OnceInOrder, provider = "mlx5", NEW w \in Waves,
         \/ Mlx5Acquire(w) \/ Mlx5Quiet(w) \/ Mlx5LoadPost(w) \/ Mlx5LoadCqe(w)
         \/ Mlx5Recheck(w) \/ Mlx5Place(w) \/ Mlx5Ring(w)
         \/ Mlx5Release(w) \/ Mlx5Return(w)
  PROVE  Filled' /\ OnceInOrder'
<1>1. PICK to \in {"poll", "cqe", "recheck", "write", "done", "store", "release",
                   "fetch", "out"} :
        pc' = [pc EXCEPT ![w] = to]
  BY DEF Mlx5Acquire, Mlx5Quiet, Mlx5LoadPost, Mlx5LoadCqe, Mlx5Recheck, Mlx5Place,
         Mlx5Ring, Mlx5Release, Mlx5Return, Goto, Polled
<1>2. UNCHANGED <<start, sq, executed, post, provider, prog>>
  BY DEF Mlx5Acquire, Mlx5Quiet, Mlx5LoadPost, Mlx5LoadCqe, Mlx5Recheck, Mlx5Place,
         Mlx5Ring, Mlx5Release, Mlx5Return, nicVars, call, callVars, mlx5Vars
<1>3. \A v \in Waves : v # w => base'[v] = base[v] /\ word'[v] = word[v]
  BY DEF Mlx5Acquire, Mlx5Quiet, Mlx5LoadPost, Mlx5LoadCqe, Mlx5Recheck, Mlx5Place,
         Mlx5Ring, Mlx5Release, Mlx5Return, call, Control, Types
<1>4. \A v \in Waves : v # w => returned'[v] = returned[v]
  BY DEF Mlx5Acquire, Mlx5Quiet, Mlx5LoadPost, Mlx5LoadCqe, Mlx5Recheck, Mlx5Place,
         Mlx5Ring, Mlx5Release, Mlx5Return, call, callVars, Returns, ReturnsIf,
         Control, Types
<1> QED
  BY <1>1, <1>2, <1>3, <1>4, StayFilled

LEMMA StoreFilled ==
  ASSUME Control, Counters, Filled, OnceInOrder, NEW w \in Waves, Mlx5Store(w)
  PROVE  Filled' /\ OnceInOrder'
<1>1. /\ UNCHANGED <<start, executed, post, provider, prog, returned, base, word>>
      /\ pc[w] = "store" /\ pc' = [pc EXCEPT ![w] = "advance"] /\ sq' = Written(w)
  BY DEF Mlx5Store, Goto, call, callVars, mlx5Vars
<1>2. Calling(w) /\ Op(w) # Quiet /\ Op(w).lanes \in Nat /\ base[w] = post
  BY <1>1, OpType DEF Control, Where, Posting, Counters, Room
<1>3. Done' = Done /\ \A v, l : Wqe(v, l)' = Wqe(v, l) /\ Op(v)' = Op(v)
  BY <1>1 DEF Done, Wqe, Op
<1>4. ASSUME NEW i \in Done .. post - 1
      PROVE  sq'[i % Depth] \in Wqes /\ sq'[i % Depth].idx = i
  <2>1. post + Op(w).lanes <= reported + Depth /\ reported <= Done
    BY <1>1 DEF Counters, Order, Room
  <2>2. i \in Int /\ i < base[w] /\ base[w] + Op(w).lanes <= i + Depth
    BY <1>2, <2>1, CounterTypes DEF Control
  <2>3. sq'[i % Depth] = sq[i % Depth]
    BY <1>1, <1>2, <2>2, WrittenElse DEF Control
  <2> QED
    BY <2>3 DEF Filled
<1>5. ASSUME NEW v \in Waves, pc'[v] = "advance"
      PROVE  \A l \in 0 .. Op(v).lanes - 1 : sq'[(post + l) % Depth] = Wqe(v, l)
  <2>1. v = w
    <3>1. v # w => pc[v] = "advance"
      BY <1>1, <1>5 DEF Control, Types
    <3> QED
      BY <1>1, <3>1, Alone DEF Posting
  <2> QED
    BY <1>1, <1>2, <2>1, WrittenOwn DEF Control
<1>6. Filled'
  BY <1>1, <1>3, <1>4, <1>5 DEF Filled
<1> QED
  BY <1>1, <1>6 DEF OnceInOrder

LEMMA AdvanceFilled ==
  ASSUME Control, Counters, Filled, OnceInOrder, NEW w \in Waves, Mlx5Advance(w)
  PROVE  Filled' /\ OnceInOrder'
<1>1. /\ UNCHANGED <<start, executed, sq>>
      /\ pc[w] = "advance" /\ pc'[w] # "advance" /\ post' = post + Op(w).lanes
      /\ \A v \in Waves : v # w => pc'[v] = pc[v]
  BY DEF Mlx5Advance, Goto, nicVars, Control, Types
<1>2. Calling(w) /\ Op(w) # Quiet /\ Op(w).lanes \in Nat /\ base[w] = post
  BY <1>1, OpType DEF Control, Where, Posting, Counters, Room
<1>3. ASSUME NEW i \in Done .. post' - 1
      PROVE  sq[i % Depth] \in Wqes /\ sq[i % Depth].idx = i
  <2>1. CASE i < post
    <3>1. i \in Done .. post - 1
      BY <2>1, CounterTypes DEF Control
    <3> QED
      BY <3>1 DEF Filled
  <2>2. CASE ~(i < post)
    <3> DEFINE l == i - post
    <3>1. l \in 0 .. Op(w).lanes - 1 /\ i = post + l
      <4>1. i \in Int /\ i < post + Op(w).lanes /\ post \in Nat /\ Op(w).lanes \in Nat
        BY <1>1, <1>2, CounterTypes DEF Control
      <4> HIDE DEF Op
      <4> QED
        BY <2>2, <4>1
    <3> HIDE DEF l
    <3>2. sq[i % Depth] = Wqe(w, l)
      BY <1>1, <3>1 DEF Filled
    <3> QED
      BY <1>2, <3>1, <3>2, WqeType DEF Control
  <2> QED
    BY <2>1, <2>2
<1>4. \A v \in Waves : pc'[v] # "advance"
  BY <1>1, Alone DEF Posting
<1>5. Filled'
  BY <1>1, <1>3, <1>4 DEF Filled, Done
<1> QED
  BY <1>1, <1>5 DEF OnceInOrder

LEMMA NicFilled ==
  ASSUME Control, Counters, Filled, OnceInOrder, Nic
  PROVE  Filled' /\ OnceInOrder'
<1>1. UNCHANGED <<start, sq, post, pc, provider, prog, returned, base, word>>
  BY DEF Nic, Execute, Report, call, callVars, vendorVars, mlx5Vars
<1>2. \A v, l : Wqe(v, l)' = Wqe(v, l) /\ Op(v)' = Op(v)
  BY <1>1 DEF Wqe, Op
<1>3. CASE Execute
  <2> DEFINE e == sq[Done % Depth]
  <2>1. executed' = Append(executed, e) /\ Done < db
    BY <1>3 DEF Execute
  <2>2. e \in Wqes /\ e.idx = Done
    BY <2>1, NextWqe
  <2> HIDE DEF e
  <2>3. /\ Len(executed') = Len(executed) + 1 /\ executed'[Len(executed) + 1] = e
        /\ \A i \in 1 .. Len(executed) : executed'[i] = executed[i]
    BY <2>1, <2>2 DEF Control, Types
  <2>4. Done' = Done + 1
    BY <1>1, <2>3, CounterTypes DEF Control, Done
  <2>5. Done' .. post - 1 \subseteq Done .. post - 1
    BY <2>4, CounterTypes DEF Control
  <2>6. Filled'
    BY <1>1, <1>2, <2>5 DEF Filled
  <2>7. e.call # NoCall
    BY <2>2 DEF Wqes, Callers, NoCall
  <2>8. OnceInOrder'
    <3> SUFFICES ASSUME NEW i \in 1 .. Len(executed) + 1
                 PROVE  executed'[i].idx = start + i - 1 /\ executed'[i].call # NoCall
      BY <1>1, <2>3 DEF OnceInOrder
    <3>1. CASE i \in 1 .. Len(executed)
      BY <2>3, <3>1 DEF OnceInOrder
    <3>2. CASE i = Len(executed) + 1
      BY <2>2, <2>3, <2>7, <3>2, CounterTypes DEF Control, Done
    <3> QED
      BY <3>1, <3>2, CounterTypes DEF Control
  <2> QED
    BY <2>6, <2>8
<1>4. CASE Report
  <2>1. UNCHANGED <<executed, start>>
    BY <1>4 DEF Report
  <2> QED
    BY <1>1, <1>2, <2>1 DEF Filled, OnceInOrder, Done
<1> QED
  BY <1>3, <1>4 DEF Nic

----------------------------------------------------------------------------
(* The steps of an mlx5 queue pair.                                        *)

LEMMA ProviderStays == [Next]_vars => provider' = provider
<1>1. Nic \/ UNCHANGED vars => provider' = provider
  BY DEF Nic, Execute, Report, vars, call, callVars
<1>2. ASSUME NEW w \in Waves, Step(w) PROVE provider' = provider
  <2>1. Mlx5Step(w) => provider' = provider
    BY DEF Mlx5Step, Mlx5Acquire, Mlx5Quiet, Mlx5LoadPost, Mlx5LoadCqe, Mlx5Recheck,
           Mlx5Place, Mlx5Store, Mlx5Advance, Mlx5Ring, Mlx5Release, Mlx5Return, call,
           callVars
  <2>2. IonicStep(w) => provider' = provider
    BY DEF IonicStep, IonicReserve, IonicQuiet, IonicWaited, IonicPopBuffer, IonicStore,
           IonicLock, IonicRing, IonicUnlock, IonicReturn, call, callVars
  <2>3. BnxtStep(w) => provider' = provider
    BY DEF BnxtStep, BnxtAcquire, BnxtQuiet, BnxtLoadHead, BnxtLoadTail, BnxtWrite,
           BnxtRing, BnxtRelease, BnxtReturn, call, callVars
  <2> QED
    BY <1>2, <2>1, <2>2, <2>3 DEF Step
<1>3. ASSUME NEW w \in Waves, Spin(w) PROVE provider' = provider
  BY <1>3 DEF Spin, Mlx5Spin, IonicSpin, BnxtSpin, vars, call, callVars
<1> QED
  BY <1>1, <1>2, <1>3 DEF Next

Mlx5Vars == <<nicVars, sqVars, call, pc, mlx5Vars>>

LEMMA Mlx5Cases ==
  ASSUME [Next]_vars, provider = "mlx5"
  PROVE  \/ \E w \in Waves : Mlx5Step(w)
         \/ Nic
         \/ UNCHANGED Mlx5Vars
<1>1. ASSUME NEW w \in Waves, Step(w) PROVE Mlx5Step(w)
  BY <1>1 DEF Step
<1>2. ASSUME NEW w \in Waves, Spin(w) PROVE UNCHANGED Mlx5Vars
  BY <1>2 DEF Spin, Mlx5Spin, Mlx5Vars, vars, vendorVars
<1>3. UNCHANGED vars => UNCHANGED Mlx5Vars
  BY DEF vars, vendorVars, Mlx5Vars
<1> QED
  BY <1>1, <1>2, <1>3 DEF Next

LEMMA StutterInv ==
  ASSUME IInv, UNCHANGED Mlx5Vars
  PROVE  IInv'
<1>1. /\ UNCHANGED <<start, sq, db, executed, reported, lock, fetching_atomic_idx>>
      /\ UNCHANGED <<requested, provider, prog, returned, base, word, pc, post>>
      /\ UNCHANGED <<sq_post, completed>>
  BY DEF Mlx5Vars, nicVars, sqVars, call, callVars, mlx5Vars
<1>2. Control'
  BY <1>1 DEF IInv, Control, Types, Where, Exclusive, Holding, Op, Calling
<1>3. Counters'
  BY <1>1 DEF IInv, Counters, Order, Room, Seen, Done, Op
<1>4. Filled' /\ OnceInOrder'
  <2>1. \A v, l : Wqe(v, l)' = Wqe(v, l) /\ Op(v)' = Op(v)
    BY <1>1 DEF Wqe, Op
  <2> QED
    BY <1>1, <2>1 DEF IInv, Filled, OnceInOrder, Done
<1> QED
  BY <1>2, <1>3, <1>4 DEF IInv

LEMMA StepInv ==
  ASSUME IInv, provider = "mlx5", [Next]_vars
  PROVE  IInv'
<1>1. ASSUME NEW w \in Waves, Mlx5Step(w) PROVE IInv'
  <2>1. Control'
    BY <1>1, TakeControl, PollControl, PostControl, LeaveControl DEF IInv, Mlx5Step
  <2>2. Counters'
    BY <1>1, CallCounters, PollCounters, PostCounters DEF IInv, Mlx5Step
  <2>3. Filled' /\ OnceInOrder'
    BY <1>1, CallFilled, StoreFilled, AdvanceFilled DEF IInv, Mlx5Step
  <2> QED
    BY <2>1, <2>2, <2>3 DEF IInv
<1>2. CASE Nic
  <2>1. Control'
    BY <1>2, NicControl DEF IInv, Counters
  <2>2. Counters'
    BY <1>2, NicCounters DEF IInv
  <2>3. Filled' /\ OnceInOrder'
    BY <1>2, NicFilled DEF IInv
  <2> QED
    BY <2>1, <2>2, <2>3 DEF IInv
<1> QED
  BY <1>1, <1>2, Mlx5Cases, StutterInv

LEMMA Mlx5Invariant == Spec => [](provider = "mlx5" => IInv)
<1> DEFINE I == provider = "mlx5" => IInv
<1>1. Init => I
  BY InitControl, InitCounters, InitFilled DEF IInv
<1>2. I /\ [Next]_vars => I'
  BY ProviderStays, StepInv
<1> QED
  BY <1>1, <1>2, PTL DEF Spec

(* The NIC executes the WQE of every position once, in order; no slot is   *)
(* overwritten before it was read, none read before it was written, and no *)
(* doorbell goes back or too far (mlx5_ring_doorbell, mlx5_poll_cq_until). *)
THEOREM Mlx5InOrder == Spec => [](provider = "mlx5" => OnceInOrder)
<1>1. (provider = "mlx5" => IInv) => (provider = "mlx5" => OnceInOrder)
  BY DEF IInv
<1> QED
  BY <1>1, Mlx5Invariant, PTL

----------------------------------------------------------------------------
(* A quiet waits for all its caller has posted.                            *)

LEMMA EntryType ==
  ASSUME IInv, NEW i \in start .. post - 1
  PROVE  Entry(i).call \in Callers /\ Entry(i).call[1] \in Waves /\ Entry(i).call[2] \in Nat
<1>1. Entry(i) \in Wqes
  <2>1. CASE i < Done
    <3>1. i - start + 1 \in 1 .. Len(executed)
      BY <2>1, CounterTypes DEF IInv, Control, Done
    <3> QED
      BY <2>1, <3>1 DEF IInv, Control, Types, Entry
  <2>2. CASE ~(i < Done)
    <3>1. i \in Done .. post - 1
      BY <2>2, CounterTypes DEF IInv, Control
    <3> QED
      BY <2>2, <3>1 DEF IInv, Filled, Entry
  <2> QED
    BY <2>1, <2>2
<1> QED
  BY <1>1 DEF Wqes, Callers

(* Neither a store nor the NIC changes the WQE of a posted position. *)
LEMMA EntryStays ==
  ASSUME IInv, provider = "mlx5", [Next]_vars, NEW i \in start .. post - 1
  PROVE  Entry(i)' = Entry(i)
<1>1. CASE Nic
  <2>1. CASE Execute
    <3> DEFINE e == sq[Done % Depth]
    <3>1. executed' = Append(executed, e) /\ Done < db /\ sq' = sq /\ start' = start
      BY <2>1 DEF Execute
    <3>2. e \in Wqes
      BY <3>1, NextWqe DEF IInv
    <3> HIDE DEF e
    <3>3. /\ Len(executed') = Len(executed) + 1 /\ executed'[Len(executed) + 1] = e
          /\ \A j \in 1 .. Len(executed) : executed'[j] = executed[j]
      BY <3>1, <3>2 DEF IInv, Control, Types
    <3>4. Done' = Done + 1 /\ Done = start + Len(executed)
      BY <3>1, <3>3, CounterTypes DEF IInv, Control, Done
    <3>5. CASE i < Done
      <4>1. i - start + 1 \in 1 .. Len(executed) /\ i < Done'
        BY <3>4, <3>5, CounterTypes DEF IInv, Control
      <4> QED
        BY <3>1, <3>3, <3>5, <4>1 DEF Entry
    <3>6. CASE i = Done
      <4>1. i - start + 1 = Len(executed) + 1 /\ i < Done' /\ ~(i < Done)
        BY <3>4, <3>6, CounterTypes DEF IInv, Control
      <4> QED
        BY <3>1, <3>3, <3>6, <4>1 DEF Entry, e
    <3>7. CASE i > Done
      <4>1. ~(i < Done') /\ ~(i < Done)
        BY <3>4, <3>7, CounterTypes DEF IInv, Control
      <4> QED
        BY <3>1, <4>1 DEF Entry
    <3> QED
      BY <3>5, <3>6, <3>7, CounterTypes DEF IInv, Control
  <2>2. CASE Report
    BY <2>2 DEF Report, Entry, Done
  <2> QED
    BY <1>1, <2>1, <2>2 DEF Nic
<1>2. ASSUME NEW w \in Waves, Mlx5Store(w) PROVE Entry(i)' = Entry(i)
  <2>1. UNCHANGED <<start, executed>> /\ sq' = Written(w) /\ pc[w] = "store"
    BY <1>2 DEF Mlx5Store, Goto
  <2>2. CASE i < Done
    BY <2>1, <2>2 DEF Entry, Done
  <2>3. CASE ~(i < Done)
    <3>1. Calling(w) /\ Op(w) # Quiet /\ Op(w).lanes \in Nat /\ base[w] = post
      BY <2>1, OpType DEF IInv, Control, Where, Posting, Counters, Room
    <3>2. post + Op(w).lanes <= reported + Depth /\ reported <= Done
      BY <2>1 DEF IInv, Counters, Order, Room
    <3>3. i \in Int /\ i < base[w] /\ base[w] + Op(w).lanes <= i + Depth
      BY <2>3, <3>1, <3>2, CounterTypes DEF IInv, Control
    <3>4. sq'[i % Depth] = sq[i % Depth]
      BY <2>1, <3>1, <3>3, WrittenElse DEF IInv, Control
    <3> QED
      BY <2>1, <2>3, <3>4 DEF Entry, Done
  <2> QED
    BY <2>2, <2>3
<1>3. ASSUME NEW w \in Waves, Mlx5Step(w), ~Mlx5Store(w) PROVE Entry(i)' = Entry(i)
  <2>1. UNCHANGED <<start, executed, sq>>
    BY <1>3 DEF Mlx5Step, Mlx5Acquire, Mlx5Quiet, Mlx5LoadPost, Mlx5LoadCqe,
         Mlx5Recheck, Mlx5Place, Mlx5Advance, Mlx5Ring, Mlx5Release, Mlx5Return, nicVars
  <2> QED
    BY <2>1 DEF Entry, Done
<1>4. CASE UNCHANGED Mlx5Vars
  BY <1>4 DEF Mlx5Vars, nicVars, Entry, Done
<1> QED
  BY <1>1, <1>2, <1>3, <1>4, Mlx5Cases

(* A step that posts nothing. *)
LEMMA KeepPlaced ==
  ASSUME IInv, Placed, UNCHANGED <<start, post, prog>>,
         \A i \in start .. post - 1 : Entry(i)' = Entry(i),
         \A v \in Waves : Posted(v)' = Posted(v)
  PROVE  Placed'
<1>1. ASSUME NEW v \in Waves, NEW k \in 1 .. Posted(v)
      PROVE  \E b \in start .. post : Block(v, k, b)'
  <2>1. PICK b \in start .. post : Block(v, k, b)
    BY DEF Placed
  <2>2. Block(v, k, b)'
    BY <2>1 DEF Block, OfCall
  <2> QED
    BY <2>2
<1> QED
  BY <1>1 DEF Placed

LEMMA KeepCovered ==
  ASSUME IInv, Covered, UNCHANGED <<start, post>>, reported' \in Nat, reported <= reported',
         \A i \in start .. post - 1 : Entry(i)' = Entry(i),
         \A v \in Waves : Quieted(v)' => Quieted(v) \/ post <= reported
  PROVE  Covered'
<1> SUFFICES ASSUME NEW v \in Waves, Quieted(v)', NEW i \in start .. post - 1,
                    Entry(i).call[1] = v
             PROVE  i < reported'
  BY DEF Covered
<1>1. i < reported
  BY CounterTypes DEF Covered, IInv, Control
<1> QED
  BY <1>1, CounterTypes DEF IInv, Control

(* The steps of a call that post nothing, a quiet's first step apart. *)
LEMMA CallQuiet ==
  ASSUME QInv, provider = "mlx5", [Next]_vars, NEW w \in Waves, Mlx5Step(w),
         ~Mlx5Advance(w), Mlx5Quiet(w) => pc[w] = "fetch"
  PROVE  Placed' /\ Covered'
<1> USE DEF QInv
<1>1. \A i \in start .. post - 1 : Entry(i)' = Entry(i)
  BY EntryStays
<1>2. UNCHANGED <<start, post, prog, reported>>
  BY DEF Mlx5Step, Mlx5Acquire, Mlx5Quiet, Mlx5LoadPost, Mlx5LoadCqe, Mlx5Recheck,
         Mlx5Place, Mlx5Store, Mlx5Ring, Mlx5Release, Mlx5Return, nicVars, call,
         callVars, mlx5Vars
<1>3. ASSUME NEW v \in Waves, v # w
      PROVE  Posted(v)' = Posted(v) /\ Quieted(v)' = Quieted(v)
  <2>1. returned'[v] = returned[v]
    BY <1>3 DEF Mlx5Step, Mlx5Acquire, Mlx5Quiet, Mlx5LoadPost, Mlx5LoadCqe, Mlx5Recheck,
         Mlx5Place, Mlx5Store, Mlx5Ring, Mlx5Release, Mlx5Return, call, callVars,
         Returns, ReturnsIf, IInv, Control, Types
  <2>2. pc'[v] = pc[v] /\ requested'[v] = requested[v]
    BY <1>3 DEF Mlx5Step, Mlx5Acquire, Mlx5Quiet, Mlx5LoadPost, Mlx5LoadCqe, Mlx5Recheck,
         Mlx5Place, Mlx5Store, Mlx5Ring, Mlx5Release, Mlx5Return, Goto, sqVars,
         IInv, Control, Types
  <2> QED
    BY <1>2, <2>1, <2>2 DEF Posted, Quieted
<1>4. Calling(w) /\ (Op(w) # Quiet => Op(w).lanes < Depth /\ Op(w).lanes \in Nat /\ Op(w).op # "QUIET")
  BY OpType DEF IInv, Control, Where, Mlx5Step, Mlx5Acquire, Mlx5Quiet, Mlx5LoadPost,
         Mlx5LoadCqe, Mlx5Recheck, Mlx5Place, Mlx5Store, Mlx5Ring, Mlx5Release, Mlx5Return,
         Goto, IsPost
<1>5. Depth \in Nat /\ returned[w] \in Nat /\ requested[w] \in Nat
  BY QueuePairAssumption DEF IInv, Control, Types
<1>6. Posted(w)' = Posted(w) /\ (Quieted(w)' => Quieted(w) \/ post <= reported)
  <2>1. CASE Mlx5Acquire(w)
    <3>1. /\ pc[w] = "out" /\ pc'[w] = "poll" /\ requested'[w] = Op(w).lanes
          /\ returned'[w] = returned[w] /\ Op(w) # Quiet
      BY <2>1 DEF Mlx5Acquire, Goto, IInv, Control, Types, call, callVars, IsPost
    <3> QED
      BY <1>4, <1>5, <3>1 DEF Posted, Quieted, Polling
  <2>2. CASE Mlx5Quiet(w)
    <3>1. /\ pc[w] = "fetch" /\ pc'[w] = "poll" /\ requested'[w] = Depth
          /\ returned'[w] = returned[w]
      BY <2>2 DEF Mlx5Quiet, Goto, IInv, Control, Types, call, callVars
    <3> QED
      BY <3>1 DEF Posted, Quieted, Polling
  <2>3. CASE Mlx5LoadPost(w) \/ Mlx5LoadCqe(w) \/ Mlx5Recheck(w)
    <3>1. /\ pc[w] \in Polling /\ requested'[w] = requested[w] /\ returned'[w] = returned[w]
          /\ pc'[w] \in Polling \cup {Polled(w)}
      BY <2>3 DEF Mlx5LoadPost, Mlx5LoadCqe, Mlx5Recheck, Goto, IInv, Control, Types, call,
                  callVars, sqVars, Polling
    <3>2. requested[w] = Depth \/ requested[w] < Depth
      BY <1>4, <1>5, <3>1 DEF IInv, Control, Where
    <3>3. Posted(w)' = Posted(w)
      BY <1>5, <3>1, <3>2 DEF Posted, Polled, Polling
    <3>4. ASSUME pc'[w] = "done" PROVE post <= reported
      <4>1. \/ pc[w] = "poll" /\ post + requested[w] <= Depth
            \/ pc[w] = "recheck" /\ post = sq_post[w] /\ Available(w) >= requested[w]
        BY <2>3, <3>4 DEF Mlx5LoadPost, Mlx5LoadCqe, Mlx5Recheck, Goto, IInv, Control, Types
      <4>2. post + requested[w] <= reported + Depth
        BY <4>1, PollFinds DEF IInv
      <4>3. requested[w] = Depth
        BY <1>5, <3>1, <3>2, <3>4 DEF Polled, Polling
      <4> QED
        BY <1>5, <4>2, <4>3, CounterTypes DEF IInv, Control
    <3>5. pc'[w] # "out"
      BY <3>1 DEF Polled, Polling
    <3> QED
      BY <3>3, <3>4, <3>5 DEF Quieted
  <2>4. CASE Mlx5Place(w) \/ Mlx5Store(w) \/ Mlx5Ring(w)
    <3>1. /\ returned'[w] = returned[w]
          /\ \/ pc[w] = "write" /\ pc'[w] = "store"
             \/ pc[w] = "store" /\ pc'[w] = "advance"
             \/ pc[w] = "ring" /\ pc'[w] = "release"
      BY <2>4 DEF Mlx5Place, Mlx5Store, Mlx5Ring, Goto, IInv, Control, Types, call, callVars
    <3> QED
      BY <3>1 DEF Posted, Quieted, Polling
  <2>5. CASE Mlx5Release(w)
    <3>1. pc[w] = "release" /\ Op(w) # Quiet
      BY <2>5 DEF Mlx5Release, Goto, IInv, Control, Where, Posting
    <3>2. CASE Op(w).op = "FETCH"
      <4>1. returned[w] + (IF Op(w).op # "FETCH" THEN 1 ELSE 0) = returned[w]
        BY <1>5, <3>2
      <4>2. returned'[w] = returned[w] /\ pc'[w] = "fetch"
        BY <2>5, <3>2, <4>1 DEF Mlx5Release, Goto, ReturnsIf, IInv, Control, Types
      <4> QED
        BY <3>1, <4>2 DEF Posted, Quieted, Polling
    <3>3. CASE Op(w).op # "FETCH"
      <4>1. returned[w] + (IF Op(w).op # "FETCH" THEN 1 ELSE 0) = returned[w] + 1
        BY <3>3
      <4>2. returned'[w] = returned[w] + 1 /\ pc'[w] = "out"
        BY <2>5, <3>3, <4>1 DEF Mlx5Release, Goto, ReturnsIf, IInv, Control, Types
      <4>3. Posted(w)' = Posted(w)
        BY <1>5, <3>1, <4>2 DEF Posted, Polling
      <4>4. prog'[w][returned'[w]] = Op(w)
        BY <1>2, <4>2 DEF Op
      <4> QED
        BY <1>4, <3>1, <3>3, <4>2, <4>3, <4>4 DEF Quieted
    <3> QED
      BY <3>2, <3>3
  <2>6. CASE Mlx5Return(w)
    <3>1. pc[w] = "done" /\ requested[w] = Depth /\ pc'[w] = "out"
      BY <2>6 DEF Mlx5Return, Goto, IInv, Control, Where, Types
    <3>2. returned'[w] = returned[w] + 1
      BY <2>6 DEF Mlx5Return, Returns, ReturnsIf, IInv, Control, Types
    <3> QED
      BY <1>5, <3>1, <3>2 DEF Posted, Quieted, Polling
  <2> QED
    BY <2>1, <2>2, <2>3, <2>4, <2>5, <2>6 DEF Mlx5Step
<1>7. Placed'
  BY <1>1, <1>2, <1>3, <1>6, KeepPlaced
<1>8. Covered'
  BY <1>1, <1>2, <1>3, <1>6, CounterTypes, KeepCovered DEF IInv, Control
<1> QED
  BY <1>7, <1>8

(* A quiet is a call without WQEs. *)
LEMMA TakeQuiet ==
  ASSUME QInv, provider = "mlx5", [Next]_vars, NEW w \in Waves, Mlx5Quiet(w), pc[w] = "out"
  PROVE  Placed' /\ Covered'
<1> USE DEF QInv
<1>1. \A i \in start .. post - 1 : Entry(i)' = Entry(i)
  BY EntryStays
<1>2. /\ UNCHANGED <<start, post, prog, reported, returned>>
      /\ pc'[w] = "poll" /\ requested'[w] = Depth /\ Calling(w) /\ Op(w) = Quiet
      /\ \A v \in Waves : v # w => pc'[v] = pc[v] /\ requested'[v] = requested[v]
  BY DEF Mlx5Quiet, Goto, nicVars, call, callVars, mlx5Vars, IInv, Control, Types
<1>3. \A v \in Waves : v # w => Posted(v)' = Posted(v) /\ Quieted(v)' = Quieted(v)
  BY <1>2 DEF Posted, Quieted
<1>4. /\ Posted(w)' = returned[w] + 1 /\ Posted(w) = returned[w] /\ returned[w] \in Nat
      /\ ~Quieted(w)'
  BY <1>2 DEF Posted, Quieted, Polling, IInv, Control, Types
<1>5. Covered'
  BY <1>1, <1>2, <1>3, <1>4, CounterTypes, KeepCovered DEF IInv, Control
<1>6. ASSUME NEW v \in Waves, NEW k \in 1 .. Posted(v)'
      PROVE  \E b \in start .. post : Block(v, k, b)'
  <2>1. CASE k \in 1 .. Posted(v)
    <3>1. PICK b \in start .. post : Block(v, k, b)
      BY <2>1 DEF Placed
    <3>2. Block(v, k, b)'
      BY <1>1, <1>2, <3>1 DEF Block, OfCall
    <3> QED
      BY <3>2
  <2>2. CASE k \notin 1 .. Posted(v)
    <3>1. v = w /\ k = returned[w] + 1
      BY <1>3, <1>4, <2>2
    <3>2. prog[w][k].lanes = 0
      BY <1>2, <3>1 DEF Op, Quiet
    <3>3. \A i \in start .. post - 1 : ~OfCall(i, w, k)
      BY <1>4, <3>1 DEF Placed, OfCall
    <3>4. start <= post /\ post \in Nat /\ start \in Nat
      BY CounterTypes DEF IInv, Control, Counters, Order
    <3>5. PICK b \in start .. post : b = post
      BY <3>4
    <3>6. Block(w, k, b)'
      BY <1>1, <1>2, <3>2, <3>3, <3>4, <3>5 DEF Block, OfCall
    <3> QED
      BY <3>1, <3>6
  <2> QED
    BY <2>1, <2>2
<1>7. ASSUME NEW v \in Waves, NEW i \in start .. post - 1, Entry(i)'.call[1] = v
      PROVE  Entry(i)'.call[2] \in 1 .. Posted(v)'
  <2>1. Entry(i).call[2] \in 1 .. Posted(v) /\ Entry(i)' = Entry(i)
    BY <1>1, <1>7 DEF Placed
  <2> QED
    BY <1>3, <1>4, <2>1
<1> QED
  BY <1>2, <1>5, <1>6, <1>7 DEF Placed

LEMMA PostedRange ==
  ASSUME Control, NEW w \in Waves
  PROVE  Posted(w) \in Nat /\ Posted(w) <= Len(prog[w]) /\ Len(prog[w]) \in Nat
<1>1. /\ returned[w] \in Nat /\ Len(prog[w]) \in Nat /\ returned[w] <= Len(prog[w])
      /\ pc[w] # "out" => returned[w] < Len(prog[w])
  BY DEF Control, Types, Where, Calling
<1>2. Posted(w) = returned[w] \/ (Posted(w) = returned[w] + 1 /\ pc[w] # "out")
  BY <1>1 DEF Posted, Polling
<1> QED
  BY <1>1, <1>2

(* A post appends a block of its own. *)
LEMMA AdvancePlaced ==
  ASSUME QInv, provider = "mlx5", [Next]_vars, NEW w \in Waves, Mlx5Advance(w)
  PROVE  Placed' /\ Covered'
<1> USE DEF QInv
<1>1. \A i \in start .. post - 1 : Entry(i)' = Entry(i)
  BY EntryStays
<1>2. /\ UNCHANGED <<start, executed, sq, prog, reported, returned>>
      /\ pc[w] = "advance" /\ pc'[w] \in {"ring", "release"} /\ post' = post + Op(w).lanes
      /\ \A v \in Waves : v # w => pc'[v] = pc[v] /\ requested'[v] = requested[v]
  BY DEF Mlx5Advance, Goto, nicVars, call, callVars, IInv, Control, Types
<1>3. Calling(w) /\ Op(w) # Quiet /\ Op(w).lanes \in Nat /\ base[w] = post
  BY <1>2, OpType DEF IInv, Control, Where, Posting, Counters, Room
<1>4. \A v \in Waves : v # w => Posted(v)' = Posted(v) /\ Quieted(v)' = Quieted(v)
  BY <1>2 DEF Posted, Quieted
<1>5. /\ Posted(w)' = returned[w] + 1 /\ Posted(w) = returned[w] /\ returned[w] \in Nat
      /\ ~Quieted(w)'
  BY <1>2 DEF Posted, Quieted, Polling, IInv, Control, Types
<1>6. /\ start \in Nat /\ post \in Nat /\ start <= post /\ Done <= post /\ Done \in Nat
      /\ post' \in Nat /\ post <= post'
  BY <1>2, <1>3, CounterTypes DEF IInv, Control, Counters, Order
<1>7. ASSUME NEW i \in post .. post' - 1
      PROVE  Entry(i)'.call[1] = w /\ Entry(i)'.call[2] = returned[w] + 1
  <2> DEFINE l == i - post
  <2>1. l \in 0 .. Op(w).lanes - 1 /\ i = post + l /\ ~(i < Done)
    <3>1. i \in Int /\ post <= i /\ i < post + Op(w).lanes
      BY <1>2, <1>6, <1>3
    <3> QED
      BY <1>3, <1>6, <3>1
  <2> HIDE DEF l
  <2>2. sq[i % Depth] = Wqe(w, l)
    BY <1>2, <2>1 DEF IInv, Filled
  <2>3. Entry(i)' = sq[i % Depth]
    BY <1>2, <2>1 DEF Entry, Done
  <2> QED
    BY <1>3, <2>1, <2>2, <2>3, WqeType DEF IInv, Control
<1>8. ASSUME NEW i \in start .. post' - 1
      PROVE  i \in start .. post - 1 \/ i \in post .. post' - 1
  <2>1. PICK a \in Nat, b \in Nat, c \in Nat : a = start /\ b = post /\ c = post'
    BY <1>6
  <2>2. i \in a .. c - 1
    BY <2>1
  <2>3. i \in a .. b - 1 \/ i \in b .. c - 1
    BY <2>2
  <2> QED
    BY <2>1, <2>3
<1>9. ASSUME NEW v \in Waves, NEW k \in 1 .. Posted(v)'
      PROVE  \E b \in start .. post' : Block(v, k, b)'
  <2>1. CASE k \in 1 .. Posted(v)
    <3>1. PICK b \in start .. post : Block(v, k, b)
      BY <2>1 DEF Placed
    <3>2. b + prog[v][k].lanes <= post /\ b \in Nat /\ b \in start .. post'
      BY <1>6, <3>1 DEF Block
    <3>3. prog[v][k].lanes \in Int
      <4>1. k \in 1 .. Len(prog[v])
        BY <2>1, PostedRange DEF IInv
      <4>2. prog[v][k] \in Posts \cup {Quiet}
        BY <4>1 DEF IInv, Control, Types
      <4> QED
        BY <4>2 DEF Posts, Quiet
    <3>4. ASSUME NEW i \in start .. post' - 1
          PROVE  OfCall(i, v, k)' <=> b <= i /\ i < b + prog[v][k].lanes
      <4>1. CASE i \in start .. post - 1
        BY <1>1, <3>1, <4>1 DEF Block, OfCall
      <4>2. CASE i \in post .. post' - 1
        <5>1. ~OfCall(i, v, k)'
          BY <1>5, <1>7, <2>1, <4>2 DEF OfCall
        <5>2. ~(i < b + prog[v][k].lanes)
          BY <1>6, <3>2, <3>3, <4>2
        <5> QED
          BY <5>1, <5>2
      <4> QED
        BY <1>8, <4>1, <4>2
    <3>5. Block(v, k, b)'
      BY <1>2, <1>6, <3>2, <3>3, <3>4 DEF Block
    <3> QED
      BY <3>2, <3>5
  <2>2. CASE k \notin 1 .. Posted(v)
    <3>1. v = w /\ k = returned[w] + 1 /\ prog[v][k] = Op(w)
      BY <1>4, <1>5, <2>2 DEF Op
    <3>2. ASSUME NEW i \in start .. post' - 1
          PROVE  OfCall(i, v, k)' <=> post <= i /\ i < post + Op(w).lanes
      <4>1. CASE i \in start .. post - 1
        <5>1. ~OfCall(i, v, k)
          BY <1>5, <3>1, <4>1 DEF Placed, OfCall
        <5> QED
          BY <1>1, <1>6, <4>1, <5>1 DEF OfCall
      <4>2. CASE i \in post .. post' - 1
        BY <1>2, <1>3, <1>6, <1>7, <3>1, <4>2 DEF OfCall
      <4> QED
        BY <1>8, <4>1, <4>2
    <3>3. PICK b \in start .. post' : b = post
      BY <1>6
    <3>4. prog'[v][k].lanes = Op(w).lanes /\ post' = b + Op(w).lanes /\ start' = start
      BY <1>2, <3>1, <3>3
    <3>5. Block(v, k, b)'
      BY <3>2, <3>3, <3>4, <1>3, <1>6 DEF Block
    <3> QED
      BY <3>5
  <2> QED
    BY <2>1, <2>2
<1>10. ASSUME NEW v \in Waves, NEW i \in start .. post' - 1, Entry(i)'.call[1] = v
       PROVE  Entry(i)'.call[2] \in 1 .. Posted(v)'
  <2>1. CASE i \in start .. post - 1
    <3>1. Entry(i).call[2] \in 1 .. Posted(v) /\ Entry(i)' = Entry(i)
      BY <1>1, <1>10, <2>1 DEF Placed
    <3> QED
      BY <1>4, <1>5, <3>1
  <2>2. CASE i \in post .. post' - 1
    BY <1>5, <1>7, <1>10, <2>2
  <2> QED
    BY <1>8, <2>1, <2>2
<1>11. Covered'
  <2> SUFFICES ASSUME NEW v \in Waves, Quieted(v)', NEW i \in start .. post' - 1,
                      Entry(i)'.call[1] = v
               PROVE  i < reported
    BY <1>2 DEF Covered
  <2>1. v # w /\ Quieted(v)
    BY <1>4, <1>5
  <2>2. i \in start .. post - 1
    BY <1>7, <1>8, <2>1
  <2> QED
    BY <1>1, <2>1, <2>2 DEF Covered
<1>12. start' = start
  BY <1>2
<1> QED
  BY <1>9, <1>10, <1>11, <1>12 DEF Placed

LEMMA OtherPlaced ==
  ASSUME QInv, provider = "mlx5", [Next]_vars, Nic \/ UNCHANGED Mlx5Vars
  PROVE  Placed' /\ Covered'
<1> USE DEF QInv
<1>1. \A i \in start .. post - 1 : Entry(i)' = Entry(i)
  BY EntryStays
<1>2. UNCHANGED <<start, post, prog, returned, pc, requested>>
  BY DEF Nic, Execute, Report, call, callVars, sqVars, vendorVars, mlx5Vars, Mlx5Vars,
         nicVars
<1>3. reported' \in Nat /\ reported <= reported'
  BY CounterTypes DEF Nic, Execute, Report, Mlx5Vars, nicVars, IInv, Control
<1>4. \A v \in Waves : Posted(v)' = Posted(v) /\ Quieted(v)' = Quieted(v)
  BY <1>2 DEF Posted, Quieted
<1> QED
  BY <1>1, <1>2, <1>3, <1>4, KeepPlaced, KeepCovered

LEMMA InitPlaced == Init /\ provider = "mlx5" => Placed /\ Covered
<1> SUFFICES ASSUME Init, provider = "mlx5" PROVE Placed /\ Covered
  OBVIOUS
<1>1. PICK s \in Starts : NicInit(s)
  BY DEF Init
<1>2. start = post /\ post \in Int
  BY <1>1, QueuePairAssumption DEF Init, NicInit, Mlx5Init
<1>3. \A w \in Waves : pc[w] = "out" /\ returned[w] = 0
  BY <1>1 DEF NicInit
<1>4. ASSUME NEW w \in Waves PROVE Posted(w) = 0 /\ ~Quieted(w)
  <2>1. pc[w] = "out" /\ returned[w] = 0
    BY <1>3
  <2> QED
    BY <2>1 DEF Posted, Quieted, Polling
<1> QED
  BY <1>2, <1>4 DEF Placed, Covered

LEMMA StepQuiet ==
  ASSUME QInv, provider = "mlx5", [Next]_vars
  PROVE  QInv'
<1>1. ASSUME NEW w \in Waves, Mlx5Step(w) PROVE Placed' /\ Covered'
  <2>1. Mlx5Quiet(w) => pc[w] \in {"out", "fetch"}
    BY DEF Mlx5Quiet, Goto
  <2> QED
    BY <1>1, <2>1, CallQuiet, TakeQuiet, AdvancePlaced
<1> QED
  BY <1>1, StepInv, OtherPlaced, Mlx5Cases DEF QInv

LEMMA Mlx5QuietInvariant == Spec => [](provider = "mlx5" => QInv)
<1> DEFINE I == provider = "mlx5" => QInv
<1>1. Init => I
  BY InitControl, InitCounters, InitFilled, InitPlaced DEF IInv, QInv
<1>2. I /\ [Next]_vars => I'
  BY ProviderStays, StepQuiet
<1> QED
  BY <1>1, <1>2, PTL DEF Spec

(* When a quiet or a fetch of a wavefront has returned, every WQE of every *)
(* call it has made has completed (quiet, and the end of mlx5's fetching   *)
(* atomics: mlx5_quiet).                                                   *)
THEOREM Mlx5QuietMeansDone == Spec => [](provider = "mlx5" => QuietMeansDone)
<1>1. ASSUME QInv PROVE QuietMeansDone
  <2> SUFFICES ASSUME NEW w \in Waves, pc[w] = "out", returned[w] > 0,
                      prog[w][returned[w]].op \in {"QUIET", "FETCH"},
                      NEW k \in 1 .. returned[w]
               PROVE  Finished(w, k)
    BY DEF QuietMeansDone
  <2> DEFINE mine == {i \in 1 .. Len(executed) :
                        executed[i].call[1] = w /\ executed[i].call[2] = k}
             n == prog[w][k].lanes
  <2>1. k \in 1 .. Posted(w) /\ Quieted(w) /\ k \in 1 .. Len(prog[w])
    <3>1. Posted(w) = returned[w] /\ returned[w] \in Nat
      BY <1>1 DEF Posted, Polling, QInv, IInv, Control, Types
    <3>2. Posted(w) <= Len(prog[w]) /\ Len(prog[w]) \in Nat
      BY <1>1, PostedRange DEF QInv, IInv
    <3> QED
      BY <3>1, <3>2 DEF Quieted
  <2>2. PICK b \in start .. post : Block(w, k, b)
    BY <1>1, <2>1 DEF QInv, Placed
  <2>3. n \in Nat
    <3>1. prog[w][k] \in Posts \cup {Quiet}
      BY <1>1, <2>1 DEF QInv, IInv, Control, Types
    <3>2. \A m \in 1 .. WfSize : m \in Nat
      BY QueuePairAssumption
    <3> QED
      BY <3>1, <3>2 DEF Posts, Quiet
  <2> HIDE DEF n
  <2>4. /\ start \in Nat /\ post \in Nat /\ reported \in Nat /\ Len(executed) \in Nat
        /\ reported <= Done /\ Done = start + Len(executed) /\ Done <= post
    BY <1>1, CounterTypes DEF QInv, IInv, Control, Counters, Order, Done
  <2>5. b \in Nat /\ start <= b /\ b + n <= post
    BY <2>2, <2>4 DEF Block, n
  <2>6. ASSUME NEW i \in start .. post - 1
        PROVE  OfCall(i, w, k) <=> b <= i /\ i < b + n
    BY <2>2 DEF Block, n
  <2>7. ASSUME NEW i \in start .. post - 1, OfCall(i, w, k) PROVE i < Done
    <3>1. i < reported
      BY <1>1, <2>1, <2>7 DEF QInv, Covered, OfCall
    <3> QED
      BY <2>4, <3>1 DEF Done
  <2>8. b + n <= Done \/ n = 0
    <3>1. CASE n > 0
      <4>1. b + n - 1 \in start .. post - 1 /\ b <= b + n - 1 /\ b + n - 1 < b + n
        BY <2>3, <2>4, <2>5, <3>1
      <4>2. b + n - 1 < Done
        BY <2>6, <2>7, <4>1
      <4> QED
        BY <2>3, <2>4, <2>5, <4>2
    <3> QED
      BY <2>3, <3>1
  <2>9. ASSUME NEW i \in 1 .. Len(executed)
        PROVE  i \in mine <=> b <= start + i - 1 /\ start + i - 1 < b + n
    <3>1. start + i - 1 \in start .. post - 1 /\ start + i - 1 < Done
          /\ (start + i - 1) - start + 1 = i
      BY <2>4
    <3>2. Entry(start + i - 1) = executed[i]
      BY <3>1 DEF Entry
    <3> QED
      BY <2>6, <3>1, <3>2 DEF OfCall
  <2> DEFINE first == b - start + 1
             last == b - start + n
  <2>10. mine = first .. last
    <3>1. ASSUME NEW i \in mine PROVE i \in first .. last
      <4>1. i \in 1 .. Len(executed)
        OBVIOUS
      <4>2. b <= start + i - 1 /\ start + i - 1 < b + n
        BY <2>9, <4>1
      <4> QED
        BY <2>3, <2>4, <2>5, <4>1, <4>2
    <3>2. ASSUME NEW i \in first .. last PROVE i \in mine
      <4>1. i \in Int /\ b - start + 1 <= i /\ i <= b - start + n
        BY <2>3, <2>4, <2>5
      <4>2. i \in 1 .. Len(executed) /\ b <= start + i - 1 /\ start + i - 1 < b + n
        BY <2>3, <2>4, <2>5, <2>8, <4>1
      <4> HIDE DEF mine
      <4> QED
        BY <2>9, <4>2
    <3> QED
      BY <3>1, <3>2
  <2>11. Cardinality(first .. last) = n
    <3>1. first \in Int /\ last \in Int /\ last - first + 1 = n /\ (first > last <=> n = 0)
      BY <2>3, <2>4, <2>5
    <3> HIDE DEF first, last
    <3>2. Cardinality(first .. last) = IF first > last THEN 0 ELSE last - first + 1
      BY <3>1, FS_Interval
    <3> QED
      BY <3>1, <3>2
  <2> QED
    BY <2>10, <2>11 DEF Finished, n
<1>2. (provider = "mlx5" => QInv) => (provider = "mlx5" => QuietMeansDone)
  BY <1>1
<1> QED
  BY <1>2, Mlx5QuietInvariant, PTL

----------------------------------------------------------------------------
(* The results of a fetch.                                                 *)

(* A fetch that has been posted and not returned. *)
Fetching(w) ==
  /\ Calling(w) /\ Op(w).op = "FETCH"
  /\ Posted(w) = returned[w] + 1

(* Result words are given out in a circle, and nothing keeps a fetch's own *)
(* from being given out again before it has read them.                     *)
Lapped(w) == ~(fetching_atomic_idx <= word[w] + FetchCnt)

(* The words given out before the fetch's post is over. *)
Given ==
  /\ \A w \in Waves : pc[w] \in {"store", "advance"} => word[w] = fetching_atomic_idx
  /\ words \in [0 .. FetchCnt - 1 -> Callers \cup {NoCall}]

(* Its WQEs are where it stored them; those posted later use later words;  *)
(* a WQE that has been executed has left its result, which stays until the *)
(* words have been given out again.                                        *)
Kept(w) ==
  /\ word[w] \in Nat /\ word[w] + Op(w).lanes <= fetching_atomic_idx
  /\ start <= base[w] /\ base[w] + Op(w).lanes <= post
  /\ \A l \in 0 .. Op(w).lanes - 1 : \A i \in start .. post - 1 :
       i = base[w] + l => Entry(i) = Wqe(w, l)
  /\ \A i \in base[w] + Op(w).lanes .. post - 1 :
       \/ Entry(i).word = NoWord
       \/ \E a \in word[w] + Op(w).lanes .. fetching_atomic_idx - 1 :
            Entry(i).word = a % FetchCnt
  /\ ~Lapped(w) => \A l \in 0 .. Op(w).lanes - 1 : base[w] + l < Done =>
       words[(word[w] + l) % FetchCnt] = <<w, returned[w] + 1, l>>

FInv == QInv /\ Given /\ \A w \in Waves : Fetching(w) => Kept(w)

(* A fetch keeps its place and its words until it returns. *)
LEMMA FetchKeeps ==
  ASSUME QInv, provider = "mlx5", [Next]_vars, NEW v \in Waves, ~Mlx5Advance(v), Fetching(v)'
  PROVE  /\ Fetching(v) /\ Op(v)' = Op(v) /\ Op(v).lanes \in Nat
         /\ word'[v] = word[v] /\ base'[v] = base[v] /\ returned'[v] = returned[v]
         /\ \A l : Wqe(v, l)' = Wqe(v, l)
<1> USE DEF QInv
<1>1. /\ returned[v] \in Nat /\ requested[v] \in Nat /\ Depth \in Nat
      /\ Len(prog[v]) \in Nat
  BY QueuePairAssumption DEF IInv, Control, Types
<1>2. /\ Fetching(v) /\ word'[v] = word[v] /\ base'[v] = base[v]
      /\ returned'[v] = returned[v] /\ prog' = prog
  <2>1. ASSUME NEW w \in Waves, w # v, Mlx5Step(w)
        PROVE  /\ word'[v] = word[v] /\ base'[v] = base[v] /\ returned'[v] = returned[v]
               /\ prog' = prog /\ pc'[v] = pc[v] /\ requested'[v] = requested[v]
    <3>1. prog' = prog
      BY <2>1 DEF Mlx5Step, Mlx5Acquire, Mlx5Quiet, Mlx5LoadPost, Mlx5LoadCqe,
           Mlx5Recheck, Mlx5Place, Mlx5Store, Mlx5Advance, Mlx5Ring, Mlx5Release,
           Mlx5Return, call, callVars
    <3>2. returned'[v] = returned[v]
      BY <2>1 DEF Mlx5Step, Mlx5Acquire, Mlx5Quiet, Mlx5LoadPost, Mlx5LoadCqe,
           Mlx5Recheck, Mlx5Place, Mlx5Store, Mlx5Advance, Mlx5Ring, Mlx5Release,
           Mlx5Return, call, callVars, Returns, ReturnsIf, IInv, Control, Types
    <3>3. word'[v] = word[v] /\ base'[v] = base[v]
      BY <2>1 DEF Mlx5Step, Mlx5Acquire, Mlx5Quiet, Mlx5LoadPost, Mlx5LoadCqe,
           Mlx5Recheck, Mlx5Place, Mlx5Store, Mlx5Advance, Mlx5Ring, Mlx5Release,
           Mlx5Return, call, IInv, Control, Types
    <3>4. pc'[v] = pc[v] /\ requested'[v] = requested[v]
      BY <2>1 DEF Mlx5Step, Mlx5Acquire, Mlx5Quiet, Mlx5LoadPost, Mlx5LoadCqe,
           Mlx5Recheck, Mlx5Place, Mlx5Store, Mlx5Advance, Mlx5Ring, Mlx5Release,
           Mlx5Return, sqVars, Goto, IInv, Control, Types
    <3> QED
      BY <3>1, <3>2, <3>3, <3>4
  <2>2. CASE \E w \in Waves : w # v /\ Mlx5Step(w)
    BY <2>1, <2>2 DEF Fetching, Calling, Op, Posted
  <2>3. CASE Nic \/ UNCHANGED Mlx5Vars
    <3>1. UNCHANGED <<word, base, returned, prog, pc, requested>>
      BY <2>3 DEF Nic, Execute, Report, call, callVars, sqVars, Mlx5Vars
    <3> QED
      BY <3>1 DEF Fetching, Calling, Op, Posted
  <2>4. CASE Mlx5Acquire(v)
    <3>1. /\ Calling(v) /\ Op(v) # Quiet /\ pc'[v] = "poll"
          /\ requested'[v] = Op(v).lanes /\ returned' = returned
      BY <2>4 DEF Mlx5Acquire, IsPost, Goto, IInv, Control, Types, call, callVars
    <3>2. Op(v).lanes < Depth /\ Op(v).lanes \in Nat
      BY <3>1, OpType DEF IInv, Control
    <3>3. Posted(v)' = returned[v]
      BY <1>1, <3>1, <3>2 DEF Posted, Polling
    <3> QED
      BY <1>1, <3>1, <3>3 DEF Fetching
  <2>5. CASE Mlx5Quiet(v)
    <3>1. /\ UNCHANGED <<word, base, returned, prog>>
          /\ pc[v] = "fetch" \/ (pc[v] = "out" /\ Op(v) = Quiet)
      BY <2>5 DEF Mlx5Quiet, Goto, call, callVars
    <3>2. Op(v)' = Op(v) /\ Calling(v)' = Calling(v)
      BY <3>1 DEF Op, Calling
    <3> QED
      BY <1>1, <3>1, <3>2 DEF Fetching, Posted, Quiet
  <2>6. CASE Mlx5LoadPost(v) \/ Mlx5LoadCqe(v) \/ Mlx5Recheck(v)
    <3>1. /\ UNCHANGED <<word, base, returned, prog, requested>> /\ pc[v] \in Polling
          /\ pc'[v] \in Polling \cup {Polled(v)}
      BY <2>6 DEF Mlx5LoadPost, Mlx5LoadCqe, Mlx5Recheck, Goto, IInv, Control, Types, call,
                  callVars, sqVars, Polling
    <3>2. Op(v)' = Op(v) /\ Calling(v)' = Calling(v)
      BY <3>1 DEF Op, Calling
    <3>3. Posted(v)' = returned[v] + 1 => requested[v] = Depth
      BY <1>1, <3>1 DEF Posted, Polling, Polled
    <3> QED
      BY <1>1, <3>1, <3>2, <3>3 DEF Fetching, Posted
  <2>7. CASE Mlx5Place(v) \/ Mlx5Store(v)
    <3>1. pc'[v] \in {"store", "advance"}
      BY <2>7 DEF Mlx5Place, Mlx5Store, Goto, IInv, Control, Types
    <3>2. returned' = returned
      BY <2>7 DEF Mlx5Place, Mlx5Store, call, callVars
    <3> QED
      BY <1>1, <3>1, <3>2 DEF Fetching, Posted, Polling
  <2>8. CASE Mlx5Ring(v)
    <3>1. UNCHANGED <<word, base, returned, prog>> /\ pc[v] = "ring"
      BY <2>8 DEF Mlx5Ring, Goto, call, callVars
    <3>2. Op(v)' = Op(v) /\ Calling(v)' = Calling(v)
      BY <3>1 DEF Op, Calling
    <3> QED
      BY <1>1, <3>1, <3>2 DEF Fetching, Posted
  <2>9. CASE Mlx5Release(v) \/ Mlx5Return(v)
    <3>1. UNCHANGED <<word, base, prog>> /\ pc'[v] \in {"out", "fetch"} /\ pc[v] \in {"release", "done"}
      BY <2>9 DEF Mlx5Release, Mlx5Return, Goto, IInv, Control, Types
    <3>2. returned'[v] \in Nat
      BY <2>9, LeaveControl DEF IInv, Control, Types
    <3>3. pc'[v] = "fetch"
      BY <3>1, <3>2 DEF Fetching, Posted, Polling
    <3>4. Op(v).op = "FETCH" /\ pc[v] = "release"
      BY <2>9, <3>3 DEF Mlx5Release, Mlx5Return, Goto, IInv, Control, Types
    <3>5. returned[v] + (IF Op(v).op # "FETCH" THEN 1 ELSE 0) = returned[v]
      BY <1>1, <3>4
    <3>6. returned'[v] = returned[v]
      BY <2>9, <3>4, <3>5 DEF Mlx5Release, Mlx5Return, Goto, ReturnsIf, IInv, Control, Types
    <3>7. Calling(v)
      BY <3>4 DEF IInv, Control, Where
    <3> QED
      BY <1>1, <3>1, <3>4, <3>6, <3>7 DEF Fetching, Posted
  <2> QED
    BY <2>2, <2>3, <2>4, <2>5, <2>6, <2>7, <2>8, <2>9, Mlx5Cases DEF Mlx5Step
<1>3. Op(v)' = Op(v)
  BY <1>2 DEF Op
<1>4. Op(v).lanes \in Nat
  <2>1. Op(v) # Quiet
    BY <1>2 DEF Fetching, Quiet
  <2> QED
    BY <1>2, <2>1, OpType DEF Fetching, IInv, Control
<1>5. \A l : Wqe(v, l)' = Wqe(v, l)
  BY <1>2, <1>3, ProviderStays DEF Wqe
<1> QED
  BY <1>2, <1>3, <1>4, <1>5

LEMMA WordSlots ==
  FetchCnt \in Nat \ {0} /\ WfSize \in Nat /\ WfSize <= FetchCnt
<1>1. FetchCnt \in Nat \ {0} /\ WfSize \in Nat \ {0} /\ FetchCnt % WfSize = 0
  BY QueuePairAssumption
<1>2. CASE FetchCnt < WfSize
  <2>1. FetchCnt \in 0 .. WfSize - 1
    BY <1>1, <1>2
  <2> QED
    BY <1>1, <2>1, ModSmall
<1> QED
  BY <1>1, <1>2

(* A step that posts and executes nothing. *)
LEMMA StayKept ==
  ASSUME FInv, provider = "mlx5", [Next]_vars, NEW v \in Waves, ~Mlx5Advance(v),
         Fetching(v)', UNCHANGED <<start, executed, post, words, fetching_atomic_idx>>
  PROVE  Kept(v)'
<1>1. \A i \in start .. post - 1 : Entry(i)' = Entry(i)
  BY EntryStays DEF FInv, QInv
<1>2. /\ Fetching(v) /\ Op(v)' = Op(v) /\ Op(v).lanes \in Nat
      /\ word'[v] = word[v] /\ base'[v] = base[v] /\ returned'[v] = returned[v]
      /\ \A l : Wqe(v, l)' = Wqe(v, l)
  BY FetchKeeps DEF FInv
<1>3. Kept(v)
  BY <1>2 DEF FInv
<1>4. start \in Nat /\ post \in Nat /\ base[v] \in Nat
  BY CounterTypes DEF FInv, QInv, IInv, Control, Types
<1>5. \A i \in base[v] + Op(v).lanes .. post - 1 : i \in start .. post - 1
  BY <1>2, <1>3, <1>4 DEF Kept
<1>6. \A l \in 0 .. Op(v)'.lanes - 1 : \A i \in start' .. post' - 1 :
        i = base'[v] + l => Entry(i)' = Wqe(v, l)'
  BY <1>1, <1>2, <1>3 DEF Kept
<1>7. \A i \in base'[v] + Op(v)'.lanes .. post' - 1 :
         \/ Entry(i)'.word = NoWord
         \/ \E a \in word'[v] + Op(v)'.lanes .. fetching_atomic_idx' - 1 :
              Entry(i)'.word = a % FetchCnt
  BY <1>1, <1>2, <1>3, <1>5 DEF Kept
<1>8. Done' = Done
  BY DEF Done
<1>9. /\ word'[v] \in Nat /\ word'[v] + Op(v)'.lanes <= fetching_atomic_idx'
      /\ start' <= base'[v] /\ base'[v] + Op(v)'.lanes <= post'
  BY <1>2, <1>3 DEF Kept
<1>10. ~Lapped(v)' => \A l \in 0 .. Op(v)'.lanes - 1 : base'[v] + l < Done' =>
          words'[(word'[v] + l) % FetchCnt] = <<v, returned'[v] + 1, l>>
  BY <1>2, <1>3, <1>8 DEF Kept, Lapped
<1> QED
  BY <1>6, <1>7, <1>9, <1>10 DEF Kept

(* A post appends WQEs whose words follow all those given out before. *)
LEMMA AppendKept ==
  ASSUME FInv, provider = "mlx5", [Next]_vars, NEW w \in Waves, Mlx5Advance(w),
         NEW v \in Waves, Fetching(v)'
  PROVE  Kept(v)'
<1> USE DEF FInv, QInv
<1>1. \A i \in start .. post - 1 : Entry(i)' = Entry(i)
  BY EntryStays
<1>2. /\ UNCHANGED <<provider, start, executed, sq, prog, returned, words, base, word>>
      /\ pc[w] = "advance" /\ post' = post + Op(w).lanes
      /\ fetching_atomic_idx' =
           fetching_atomic_idx + (IF Op(w).op = "FETCH" THEN Op(w).lanes ELSE 0)
  BY DEF Mlx5Advance, Goto, nicVars, call, callVars
<1>3. /\ Calling(w) /\ Op(w) # Quiet /\ Op(w).lanes \in Nat /\ base[w] = post
      /\ word[w] = fetching_atomic_idx
  BY <1>2, OpType DEF IInv, Control, Where, Posting, Counters, Room, Given
<1>4. /\ start \in Nat /\ post \in Nat /\ start <= post /\ Done <= post /\ Done \in Nat
      /\ fetching_atomic_idx \in Nat /\ Done' = Done
  <2>1. start <= post /\ Done <= post
    BY CounterTypes DEF IInv, Control, Counters, Order
  <2>2. fetching_atomic_idx \in Nat
    BY DEF IInv, Control, Types
  <2>3. Done' = Done
    BY <1>2 DEF Done
  <2> QED
    BY <2>1, <2>2, <2>3, CounterTypes DEF IInv, Control
<1>5. ASSUME NEW l \in 0 .. Op(w).lanes - 1, NEW i \in Int, i = post + l
      PROVE  Entry(i)' = Wqe(w, l)
  <2>1. ~(i < Done)
    BY <1>3, <1>4, <1>5
  <2>2. sq[i % Depth] = Wqe(w, l)
    BY <1>2, <1>5 DEF IInv, Filled
  <2> QED
    BY <1>2, <1>4, <2>1, <2>2 DEF Entry
<1>6. /\ \A u \in Waves : \A l : Wqe(u, l)' = Wqe(u, l)
      /\ \A u \in Waves : Op(u)' = Op(u)
  BY <1>2 DEF Wqe, Op
<1>7. CASE v = w
  <2>1. Op(w).op = "FETCH"
    BY <1>6, <1>7 DEF Fetching
  <2>2. fetching_atomic_idx' = fetching_atomic_idx + Op(w).lanes
    BY <1>2, <1>3, <1>4, <2>1
  <2>3. \A l \in 0 .. Op(w).lanes - 1 : ~(post + l < Done)
    BY <1>3, <1>4
  <2>4. \A i \in post + Op(w).lanes .. post' - 1 : FALSE
    BY <1>2, <1>3, <1>4
  <2>5. /\ word'[w] \in Nat /\ word'[w] + Op(w).lanes <= fetching_atomic_idx'
        /\ start' <= base'[w] /\ base'[w] + Op(w).lanes <= post'
    BY <1>2, <1>3, <1>4, <2>2
  <2>6. \A l \in 0 .. Op(w).lanes - 1 : \A i \in start' .. post' - 1 :
          i = base'[w] + l => Entry(i)' = Wqe(w, l)
    <3>1. base'[w] = post /\ \A i \in start' .. post' - 1 : i \in Int
      BY <1>2, <1>3, <1>4
    <3> QED
      BY <1>5, <3>1
  <2>7. /\ base'[w] = post /\ word'[w] = word[w] /\ returned'[w] = returned[w]
        /\ Op(w)' = Op(w) /\ \A l : Wqe(w, l)' = Wqe(w, l)
    BY <1>2, <1>3, <1>6
  <2>8. \A l \in 0 .. Op(w).lanes - 1 : ~(base'[w] + l < Done')
    BY <1>4, <2>3, <2>7
  <2>9. \A i \in base'[w] + Op(w).lanes .. post' - 1 : FALSE
    BY <2>4, <2>7
  <2>10. Kept(w)'
    BY <2>5, <2>6, <2>7, <2>8, <2>9 DEF Kept
  <2> QED
    BY <1>7, <2>10
<1>8. CASE v # w
  <2>1. ~Mlx5Advance(v)
    <3>1. pc[v] # "advance"
      BY <1>2, <1>8, Alone DEF IInv, Posting
    <3> QED
      BY <3>1 DEF Mlx5Advance, Goto
  <2>2. Fetching(v) /\ Op(v).lanes \in Nat
    BY <2>1, FetchKeeps
  <2>3. Kept(v) /\ base[v] \in Nat
    BY <2>2 DEF IInv, Control, Types
  <2>4. word[v] \in Nat /\ word[v] + Op(v).lanes <= fetching_atomic_idx
        /\ base[v] + Op(v).lanes <= post /\ start <= base[v]
    BY <2>3 DEF Kept
  <2>5. fetching_atomic_idx' \in Nat /\ fetching_atomic_idx <= fetching_atomic_idx'
        /\ post' \in Nat /\ post <= post'
    <3>1. (IF Op(w).op = "FETCH" THEN Op(w).lanes ELSE 0) \in Nat
      BY <1>3
    <3> QED
      BY <1>2, <1>3, <1>4, <3>1
  <2>6. ASSUME NEW l \in 0 .. Op(v).lanes - 1, NEW i \in start .. post' - 1,
               i = base[v] + l
        PROVE  Entry(i)' = Wqe(v, l)
    <3>1. i \in start .. post - 1
      BY <1>4, <2>2, <2>3, <2>4, <2>5, <2>6
    <3> QED
      BY <1>1, <2>3, <2>6, <3>1 DEF Kept
  <2>7. /\ word'[v] = word[v] /\ base'[v] = base[v] /\ returned'[v] = returned[v]
        /\ Op(v)' = Op(v) /\ start' = start /\ \A l : Wqe(v, l)' = Wqe(v, l)
    BY <1>2, <1>6
  <2>8. ASSUME NEW i \in base[v] + Op(v).lanes .. post' - 1
        PROVE  \/ Entry(i)'.word = NoWord
               \/ \E a \in word[v] + Op(v).lanes .. fetching_atomic_idx' - 1 :
                    Entry(i)'.word = a % FetchCnt
    <3>1. CASE i < post
      <4>1. i \in base[v] + Op(v).lanes .. post - 1 /\ i \in start .. post - 1
        BY <1>4, <2>2, <2>3, <2>4, <3>1
      <4>2. word[v] + Op(v).lanes .. fetching_atomic_idx - 1
              \subseteq word[v] + Op(v).lanes .. fetching_atomic_idx' - 1
        BY <1>4, <2>2, <2>4, <2>5
      <4> QED
        BY <1>1, <2>3, <4>1, <4>2 DEF Kept
    <3>2. CASE ~(i < post)
      <4>1. PICK l \in 0 .. Op(w).lanes - 1 : i = post + l
        <5>1. i \in Int /\ i < post + Op(w).lanes
          BY <1>2, <1>3, <1>4, <2>2, <2>3
        <5>2. i - post \in 0 .. Op(w).lanes - 1 /\ i = post + (i - post)
          BY <1>3, <1>4, <3>2, <5>1
        <5> QED
          BY <5>2
      <4>2. Entry(i)' = Wqe(w, l)
        BY <1>5, <4>1
      <4>3. CASE Op(w).op = "FETCH"
        <5>1. Entry(i)'.word = (fetching_atomic_idx + l) % FetchCnt
          BY <1>3, <4>2, <4>3 DEF Wqe
        <5>2. fetching_atomic_idx + l \in word[v] + Op(v).lanes .. fetching_atomic_idx' - 1
          <6>1. fetching_atomic_idx' = fetching_atomic_idx + Op(w).lanes
            BY <1>2, <4>3
          <6> QED
            BY <1>3, <1>4, <2>2, <2>4, <6>1
        <5> QED
          BY <5>1, <5>2
      <4>4. CASE Op(w).op # "FETCH"
        BY <4>2, <4>4 DEF Wqe
      <4> QED
        BY <4>3, <4>4
    <3> QED
      BY <3>1, <3>2
  <2>9. ~Lapped(v)' => \A l \in 0 .. Op(v).lanes - 1 : base[v] + l < Done' =>
          words'[(word[v] + l) % FetchCnt] = <<v, returned[v] + 1, l>>
    <3>1. Lapped(v) => Lapped(v)'
      BY <1>4, <2>4, <2>5, <2>7, WordSlots DEF Lapped
    <3> QED
      BY <1>2, <1>4, <2>3, <3>1 DEF Kept
  <2>10. /\ word[v] + Op(v).lanes <= fetching_atomic_idx' /\ base[v] + Op(v).lanes <= post'
         /\ start' <= base[v]
    BY <1>2, <1>4, <2>2, <2>3, <2>4, <2>5
  <2> QED
    BY <2>4, <2>6, <2>7, <2>8, <2>9, <2>10 DEF Kept
<1> QED
  BY <1>7, <1>8

(* The NIC writes the words of a fetch, and none of them again while the   *)
(* fetch has not returned.                                                 *)
LEMMA ExecuteKept ==
  ASSUME FInv, provider = "mlx5", [Next]_vars, Nic, Execute,
         NEW v \in Waves, Fetching(v)'
  PROVE  Kept(v)'
<1> USE DEF FInv, QInv
<1> DEFINE e == sq[Done % Depth]
<1>1. /\ UNCHANGED <<provider, start, post, fetching_atomic_idx, pc>>
      /\ executed' = Append(executed, e) /\ Done < db
      /\ words' = IF e.word = NoWord THEN words ELSE [words EXCEPT ![e.word] = e.call]
  BY DEF Execute, sqVars, call, callVars, Nic, vendorVars, mlx5Vars
<1>2. /\ e \in Wqes /\ e = Entry(Done) /\ Done \in start .. post - 1
  <2>1. e \in Wqes
    BY <1>1, NextWqe DEF IInv
  <2>2. Done \in start .. post - 1 /\ ~(Done < Done)
    BY <1>1, CounterTypes DEF IInv, Control, Counters, Order
  <2> QED
    BY <2>1, <2>2 DEF Entry
<1> HIDE DEF e
<1>3. Done' = Done + 1 /\ Done \in Nat
  BY <1>1, <1>2, CounterTypes DEF IInv, Control, Types, Done
<1>4. \A i \in start .. post - 1 : Entry(i)' = Entry(i)
  BY EntryStays
<1>5. /\ Fetching(v) /\ Op(v)' = Op(v) /\ Op(v).lanes \in Nat
      /\ word'[v] = word[v] /\ base'[v] = base[v] /\ returned'[v] = returned[v]
      /\ \A l : Wqe(v, l)' = Wqe(v, l)
  <2>1. ~Mlx5Advance(v)
    <3>1. Mlx5Advance(v) => pc' # pc
      BY DEF Mlx5Advance, Goto, IInv, Control, Types
    <3> QED
      BY <1>1, <3>1
  <2> QED
    BY <2>1, FetchKeeps
<1>6. /\ Kept(v) /\ base[v] \in Nat /\ post \in Nat /\ start \in Nat
      /\ fetching_atomic_idx \in Nat
  BY <1>5, CounterTypes DEF IInv, Control, Types
<1>7. /\ word[v] \in Nat /\ start <= base[v] /\ base[v] + Op(v).lanes <= post
      /\ word[v] + Op(v).lanes <= fetching_atomic_idx
      /\ Op(v).op = "FETCH" /\ Op(v).lanes <= FetchCnt /\ FetchCnt \in Nat \ {0}
  <2>1. Op(v).lanes <= FetchCnt
    <3>1. Op(v) # Quiet /\ Calling(v)
      BY <1>5 DEF Fetching, Quiet
    <3>2. Op(v).lanes \in 1 .. WfSize
      BY <3>1, OpType DEF IInv, Control, Posts
    <3> QED
      BY <3>2, WordSlots
  <2> QED
    BY <1>5, <1>6, <2>1, WordSlots DEF Kept, Fetching
<1>8. ASSUME ~Lapped(v), NEW l \in 0 .. Op(v).lanes - 1, base[v] + l < Done + 1
      PROVE  words'[(word[v] + l) % FetchCnt] = <<v, returned[v] + 1, l>>
  <2> DEFINE k == (word[v] + l) % FetchCnt
  <2> fetching_atomic_idx <= word[v] + FetchCnt
    BY <1>8 DEF Lapped
  <2>1. l \in Nat /\ word[v] + l \in Nat /\ k \in 0 .. FetchCnt - 1
    <3>1. l \in Nat /\ word[v] + l \in Nat
      BY <1>5, <1>7
    <3>2. FetchCnt \in Nat \ {0} /\ word[v] + l \in Int
      BY <3>1, WordSlots
    <3>3. k \in 0 .. FetchCnt - 1
      BY <3>2, DivMod
    <3> QED
      BY <3>1, <3>3
  <2>2. CASE base[v] + l = Done
    <3>1. e = Wqe(v, l)
      BY <1>2, <1>6, <2>2 DEF Kept
    <3>2. e.word = k /\ e.call = <<v, returned[v] + 1, l>>
      BY <1>7, <3>1 DEF Wqe
    <3>3. e.word # NoWord
      BY <2>1, <3>2 DEF NoWord
    <3> QED
      BY <1>1, <2>1, <3>2, <3>3 DEF Given
  <2>3. CASE base[v] + l < Done
    <3>1. words[k] = <<v, returned[v] + 1, l>>
      BY <1>6, <1>8, <2>3 DEF Kept
    <3>2. e.word # k
      <4>1. CASE Done < base[v] + Op(v).lanes
        <5>1. PICK m \in 0 .. Op(v).lanes - 1 : Done = base[v] + m /\ l < m
          <6>1. Done - base[v] \in 0 .. Op(v).lanes - 1 /\ Done = base[v] + (Done - base[v])
                /\ l < Done - base[v]
            BY <1>3, <1>5, <1>6, <2>1, <2>3, <4>1
          <6> QED
            BY <6>1
        <5>2. e = Wqe(v, m)
          BY <1>2, <1>6, <5>1 DEF Kept
        <5>3. e.word = (word[v] + m) % FetchCnt
          BY <1>7, <5>2 DEF Wqe
        <5>4. word[v] + m \in Int /\ word[v] + l < word[v] + m
              /\ word[v] + m < word[v] + l + FetchCnt
          BY <1>5, <1>7, <2>1, <5>1
        <5>5. FetchCnt \in Nat \ {0} /\ word[v] + l \in Int
          BY <2>1, WordSlots
        <5>6. (word[v] + l) % FetchCnt # (word[v] + m) % FetchCnt
          BY <5>4, <5>5, ModApart
        <5> QED
          BY <5>3, <5>6
      <4>2. CASE ~(Done < base[v] + Op(v).lanes)
        <5>1. Done \in base[v] + Op(v).lanes .. post - 1
          BY <1>2, <1>3, <1>5, <1>6, <4>2
        <5>2. \/ e.word = NoWord
              \/ \E a \in word[v] + Op(v).lanes .. fetching_atomic_idx - 1 :
                   e.word = a % FetchCnt
          BY <1>2, <1>6, <5>1 DEF Kept
        <5>3. ASSUME NEW a \in word[v] + Op(v).lanes .. fetching_atomic_idx - 1
              PROVE  a % FetchCnt # k
          <6>1. a \in Int /\ word[v] + l < a /\ a < word[v] + l + FetchCnt
            BY <1>5, <1>6, <1>7, <2>1
          <6> QED
            BY <1>7, <2>1, <6>1, ModApart
        <5>4. NoWord # k
          BY <2>1 DEF NoWord
        <5> QED
          BY <5>2, <5>3, <5>4
      <4> QED
        BY <4>1, <4>2
    <3> QED
      BY <1>1, <2>1, <3>1, <3>2 DEF Given
  <2> QED
    <3>1. base[v] + l = Done \/ base[v] + l < Done
      <4> HIDE DEF k
      <4> QED
        BY <1>3, <1>6, <1>8, <2>1
    <3> QED
      BY <2>2, <2>3, <3>1
<1>9. \A l \in 0 .. Op(v)'.lanes - 1 : \A i \in start' .. post' - 1 :
        i = base'[v] + l => Entry(i)' = Wqe(v, l)'
  BY <1>1, <1>4, <1>5, <1>6 DEF Kept
<1>10. \A i \in base[v] + Op(v).lanes .. post - 1 : i \in start .. post - 1
  BY <1>5, <1>6, <1>7
<1>11. \A i \in base'[v] + Op(v)'.lanes .. post' - 1 :
         \/ Entry(i)'.word = NoWord
         \/ \E a \in word'[v] + Op(v)'.lanes .. fetching_atomic_idx' - 1 :
              Entry(i)'.word = a % FetchCnt
  BY <1>1, <1>4, <1>5, <1>6, <1>10 DEF Kept
<1>12. ~Lapped(v)' => \A l \in 0 .. Op(v)'.lanes - 1 : base'[v] + l < Done' =>
          words'[(word'[v] + l) % FetchCnt] = <<v, returned'[v] + 1, l>>
  BY <1>1, <1>3, <1>5, <1>8 DEF Lapped
<1>13. /\ word'[v] \in Nat /\ word'[v] + Op(v)'.lanes <= fetching_atomic_idx'
       /\ start' <= base'[v] /\ base'[v] + Op(v)'.lanes <= post'
  BY <1>1, <1>5, <1>7
<1> QED
  BY <1>9, <1>11, <1>12, <1>13 DEF Kept

LEMMA StepGiven ==
  ASSUME FInv, provider = "mlx5", [Next]_vars
  PROVE  Given'
<1> USE DEF FInv, QInv
<1>1. words' \in [0 .. FetchCnt - 1 -> Callers \cup {NoCall}]
  <2>1. CASE Nic
    <3>1. CASE Execute
      <4>1. sq[Done % Depth] \in Wqes
        BY <3>1, NextWqe DEF Execute, IInv
      <4> QED
        BY <3>1, <4>1 DEF Execute, Given, Wqes
    <3>2. CASE Report
      BY <3>2 DEF Report, Given
    <3> QED
      BY <2>1, <3>1, <3>2 DEF Nic
  <2>2. CASE \E w \in Waves : Mlx5Step(w)
    <3>1. words' = words
      BY <2>2 DEF Mlx5Step, Mlx5Acquire, Mlx5Quiet, Mlx5LoadPost, Mlx5LoadCqe,
           Mlx5Recheck, Mlx5Place, Mlx5Store, Mlx5Advance, Mlx5Ring, Mlx5Release,
           Mlx5Return, nicVars
    <3> QED
      BY <3>1 DEF Given
  <2>3. CASE UNCHANGED Mlx5Vars
    BY <2>3 DEF Mlx5Vars, nicVars, Given
  <2> QED
    BY <2>1, <2>2, <2>3, Mlx5Cases
<1>2. ASSUME NEW v \in Waves, pc'[v] \in {"store", "advance"}
      PROVE  word'[v] = fetching_atomic_idx'
  <2>1. CASE Nic \/ UNCHANGED Mlx5Vars
    <3>1. UNCHANGED <<pc, word, fetching_atomic_idx>>
      BY <2>1 DEF Nic, Execute, Report, Mlx5Vars, sqVars, call
    <3> QED
      BY <1>2, <3>1 DEF Given
  <2>2. ASSUME NEW w \in Waves, Mlx5Step(w)
        PROVE  word'[v] = fetching_atomic_idx'
    <3>1. CASE Mlx5Place(w)
      <4>1. CASE v = w
        BY <3>1, <4>1 DEF Mlx5Place, sqVars, IInv, Control, Types
      <4>2. CASE v # w
        <5>1. pc'[v] = pc[v] /\ word'[v] = word[v] /\ fetching_atomic_idx' = fetching_atomic_idx
          BY <3>1, <4>2 DEF Mlx5Place, Goto, sqVars, IInv, Control, Types
        <5> QED
          BY <1>2, <5>1 DEF Given
      <4> QED
        BY <4>1, <4>2
    <3>2. CASE Mlx5Advance(w)
      <4>1. pc[w] = "advance" /\ pc'[w] \notin {"store", "advance"}
        BY <3>2 DEF Mlx5Advance, Goto, IInv, Control, Types
      <4>2. v # w /\ pc'[v] = pc[v]
        BY <1>2, <3>2, <4>1 DEF Mlx5Advance, Goto, IInv, Control, Types
      <4> QED
        BY <1>2, <4>1, <4>2, Alone DEF IInv, Posting
    <3>3. CASE ~Mlx5Place(w) /\ ~Mlx5Advance(w)
      <4>1. word' = word /\ fetching_atomic_idx' = fetching_atomic_idx
        BY <2>2, <3>3 DEF Mlx5Step, Mlx5Acquire, Mlx5Quiet, Mlx5LoadPost, Mlx5LoadCqe,
             Mlx5Recheck, Mlx5Store, Mlx5Ring, Mlx5Release, Mlx5Return, sqVars, call
      <4>2. pc[v] \in {"store", "advance"}
        BY <1>2, <2>2, <3>3 DEF Mlx5Step, Mlx5Acquire, Mlx5Quiet, Mlx5LoadPost,
             Mlx5LoadCqe, Mlx5Recheck, Mlx5Store, Mlx5Ring, Mlx5Release, Mlx5Return,
             Goto, Polled, IInv, Control, Types
      <4> QED
        BY <4>1, <4>2 DEF Given
    <3> QED
      BY <3>1, <3>2, <3>3
  <2> QED
    BY <2>1, <2>2, Mlx5Cases
<1> QED
  BY <1>1, <1>2 DEF Given

LEMMA StepKept ==
  ASSUME FInv, provider = "mlx5", [Next]_vars
  PROVE  \A v \in Waves : Fetching(v)' => Kept(v)'
<1> SUFFICES ASSUME NEW v \in Waves, Fetching(v)' PROVE Kept(v)'
  OBVIOUS
<1>1. CASE \E w \in Waves : Mlx5Advance(w)
  BY <1>1, AppendKept
<1>2. CASE Nic /\ Execute
  BY <1>2, ExecuteKept
<1>3. CASE Nic /\ ~Execute
  <2>1. UNCHANGED <<start, executed, post, words, fetching_atomic_idx, pc>>
    BY <1>3 DEF Nic, Report, sqVars, vendorVars, mlx5Vars
  <2>2. ~Mlx5Advance(v)
    <3>1. Mlx5Advance(v) => pc' # pc
      BY DEF Mlx5Advance, Goto, FInv, QInv, IInv, Control, Types
    <3> QED
      BY <2>1, <3>1
  <2> QED
    BY <2>1, <2>2, StayKept
<1>4. CASE /\ \E w \in Waves : Mlx5Step(w)
           /\ ~\E w \in Waves : Mlx5Advance(w)
  <2>1. UNCHANGED <<start, executed, post, words, fetching_atomic_idx>>
    BY <1>4 DEF Mlx5Step, Mlx5Acquire, Mlx5Quiet, Mlx5LoadPost, Mlx5LoadCqe,
         Mlx5Recheck, Mlx5Place, Mlx5Store, Mlx5Ring, Mlx5Release, Mlx5Return, nicVars,
         sqVars, mlx5Vars
  <2> QED
    BY <1>4, <2>1, StayKept
<1>5. CASE UNCHANGED Mlx5Vars
  <2>1. UNCHANGED <<start, executed, post, words, fetching_atomic_idx, pc>>
    BY <1>5 DEF Mlx5Vars, nicVars, sqVars, mlx5Vars
  <2>2. ~Mlx5Advance(v)
    <3>1. Mlx5Advance(v) => pc' # pc
      BY DEF Mlx5Advance, Goto, FInv, QInv, IInv, Control, Types
    <3> QED
      BY <2>1, <3>1
  <2> QED
    BY <2>1, <2>2, StayKept
<1> QED
  BY <1>1, <1>2, <1>3, <1>4, <1>5, Mlx5Cases

LEMMA InitGiven ==
  Init /\ provider = "mlx5" => Given /\ \A w \in Waves : ~Fetching(w)
<1> SUFFICES ASSUME Init, provider = "mlx5"
             PROVE  Given /\ \A w \in Waves : ~Fetching(w)
  OBVIOUS
<1>1. PICK s \in Starts : NicInit(s)
  BY DEF Init
<1>2. ASSUME NEW w \in Waves PROVE pc[w] = "out" /\ returned[w] = 0
  BY <1>1 DEF NicInit
<1>3. words \in [0 .. FetchCnt - 1 -> Callers \cup {NoCall}]
  BY <1>1 DEF NicInit
<1> QED
  BY <1>2, <1>3 DEF Given, Fetching, Posted, Polling

(* A fetch that is over has the results of its own atomics, unless its      *)
(* words have been given out again meanwhile: the code wraps                *)
(* fetching_atomic_idx around and does not check.  A word is thus never     *)
(* read before its result is there, and only later fetches can spoil it.    *)
OwnUnlessLapped ==
  \A w \in Waves : pc[w] = "done" /\ Op(w).op = "FETCH" /\ ~Lapped(w) => HasOwnResult(w)

(* On an mlx5 queue pair (fetching_atomic_idx, queue_pair_mlx5.cpp:350) the *)
(* results a fetch reads are its own in every behaviour, unless it has been *)
(* lapped.                                                                  *)
THEOREM Mlx5OwnResult == Spec => [](provider = "mlx5" => OwnUnlessLapped)
<1> DEFINE I == provider = "mlx5" => FInv
<1>1. Init => I
  BY InitControl, InitCounters, InitFilled, InitPlaced, InitGiven DEF IInv, QInv, FInv
<1>2. I /\ [Next]_vars => I'
  BY ProviderStays, StepQuiet, StepGiven, StepKept DEF FInv
<1>3. I => (provider = "mlx5" => OwnUnlessLapped)
  <2> SUFFICES ASSUME FInv, NEW w \in Waves, pc[w] = "done", Op(w).op = "FETCH",
                      ~Lapped(w), NEW l \in 0 .. Op(w).lanes - 1
               PROVE  words[(word[w] + l) % FetchCnt] = <<w, returned[w] + 1, l>>
    BY DEF OwnUnlessLapped, HasOwnResult
  <2> USE DEF FInv, QInv
  <2>1. Fetching(w) /\ Op(w) # Quiet /\ Op(w).lanes \in Nat
    <3>1. Calling(w) /\ requested[w] = Depth
      BY DEF IInv, Control, Where
    <3>2. Op(w) # Quiet
      BY DEF Quiet
    <3> QED
      BY <3>1, <3>2, OpType DEF IInv, Control, Fetching, Posted
  <2>2. Kept(w)
    BY <2>1
  <2>3. PICK i \in start .. post - 1 : i = base[w] + l
    <3>1. /\ start \in Nat /\ post \in Nat /\ base[w] \in Nat
          /\ start <= base[w] /\ base[w] + Op(w).lanes <= post
      BY <2>1, <2>2, CounterTypes DEF IInv, Control, Types, Kept
    <3>2. base[w] + l \in start .. post - 1
      BY <2>1, <3>1
    <3> QED
      BY <3>2
  <2>4. Entry(i).call[1] = w
    <3>1. Entry(i) = Wqe(w, l)
      BY <2>2, <2>3 DEF Kept
    <3> QED
      BY <2>1, <3>1, WqeType DEF IInv, Control, Fetching
  <2>5. i < reported /\ reported <= Done
    BY <2>4 DEF Covered, Quieted, IInv, Counters, Order
  <2>6. i < Done
    <3>1. i \in Int /\ reported \in Nat /\ Done \in Nat
      BY <2>3, CounterTypes DEF IInv, Control
    <3> QED
      BY <2>5, <3>1
  <2> QED
    BY <2>2, <2>3, <2>6 DEF Kept
<1> HIDE DEF I
<1> QED
  BY <1>1, <1>2, <1>3, PTL DEF Spec

(***************************************************************************)
(* The ionic queue pair, for any number of wavefronts that the counters'   *)
(* signs can tell apart, any depth and any programs: the NIC executes every*)
(* WQE once and in order, a quiet or a fetch returns when all its caller   *)
(* posted has completed, and a fetch reads its own results.  The argument: *)
(* wavefronts hold disjoint ranges of positions until they have stored     *)
(* their WQEs, and store when the NIC has left room; the color tells the   *)
(* NIC a WQE of this lap from one of the lap before, so that it executes   *)
(* none before it is stored, whatever the doorbell says; a buffer of       *)
(* result words has one holder, whose atomics alone write it.              *)
(***************************************************************************)

(* Wavefronts that have reserved positions and not stored their WQEs. *)
Unstored(w) == pc[w] \in {"room", "pop", "write"}
Storing == {"commit", "ring", "unlock"}
Waiting == {"wait", "done"}

IonicTypes ==
  /\ start \in Nat /\ db \in Nat /\ reported \in Nat
  /\ sq_prod \in Nat /\ sq_dbprod \in Nat
  /\ executed \in Seq(Wqes)
  /\ returned \in [Waves -> Nat] /\ base \in [Waves -> Nat]
  /\ freelist \in Seq(Int)
  /\ word \in [Waves -> Int] /\ cons \in [Waves -> Int]
  /\ prog \in [Waves -> Seq(Posts \cup {Quiet})]
  /\ pc \in [Waves -> {"out", "room", "pop", "write"} \cup Storing \cup Waiting]

IonicWhere ==
  \A w \in Waves :
    /\ returned[w] <= Len(prog[w])
    /\ pc[w] # "out" => Calling(w)
    /\ Unstored(w) \/ pc[w] \in Storing => Op(w) # Quiet
    /\ pc[w] = "pop" => Op(w).op = "FETCH"
    /\ pc[w] \in Waiting => Op(w).op \in {"QUIET", "FETCH"}

(* The positions reserved, and those with room. *)
Reserved(w) ==
  /\ Unstored(w) => Done <= base[w] /\ End(w) <= sq_prod
  /\ pc[w] \in Storing => End(w) <= sq_prod
  /\ pc[w] = "room" => cons[w] = End(w) - (Depth - 1)
  /\ pc[w] \in {"pop", "write"} => End(w) <= reported + Depth - 1
  /\ pc[w] = "wait" => cons[w] <= sq_prod

Disjoint ==
  \A v, w \in Waves : Unstored(v) /\ Unstored(w) /\ v # w =>
    End(v) <= base[w] \/ End(w) <= base[v]

(* The wavefronts that wait for room beyond position x. *)
Beyond(x) == {w \in Waves : pc[w] = "room" /\ End(w) > x}

(* What is reserved beyond the queue, wavefronts that wait account for. *)
Bounded ==
  \A x \in Nat : reported + Depth - 1 <= x =>
    sq_prod - x <= WfSize * Cardinality(Beyond(x))

Positions ==
  /\ start <= reported /\ reported <= Done /\ Done <= sq_prod
  /\ (\A w \in Waves : Reserved(w))
  /\ Disjoint /\ Bounded

(* The WQE of a position is in its slot. *)
Stored(p) ==
  /\ sq[p % Depth] \in Wqes /\ sq[p % Depth].idx = p /\ p < sq_prod
  /\ \A w \in Waves : Unstored(w) => p < base[w] \/ End(w) <= p

(* Until it is, the slot holds that of the lap before. *)
Slots ==
  \A p \in Done .. Done + Depth - 1 : sq[p % Depth].idx = p - Depth \/ Stored(p)

NInv == IonicTypes /\ IonicWhere /\ Positions /\ Slots /\ OnceInOrder

(* The positions whose WQEs have been stored. *)
Position == {i \in Nat : start <= i}
Has(i) == i < Done \/ (i < Done + Depth /\ sq[i % Depth].idx = i)
OwnEntry(i, w) == Has(i) /\ Entry(i).call[1] = w

(* The calls of a wavefront that have stored their WQEs, the one under way *)
(* included.                                                               *)
StoredCalls(w) == returned[w] + (IF pc[w] \in Storing \cup Waiting THEN 1 ELSE 0)

StoredBlock(w, k, b) ==
  \A i \in Position :
    Has(i) /\ OfCall(i, w, k) <=> b <= i /\ i < b + prog[w][k].lanes

PlacedOf(w) ==
  /\ \A k \in 1 .. StoredCalls(w) : \E b \in Position : StoredBlock(w, k, b)
  /\ \A i \in Position : OwnEntry(i, w) => Entry(i).call[2] \in 1 .. StoredCalls(w)

(* What a wavefront has stored lies before what it posts, then before what *)
(* it waits for, then before what has been reported.                       *)
AllBefore(w, x) == \A i \in Position : OwnEntry(i, w) => i < x
CoveredOf(w) ==
  /\ Unstored(w) \/ pc[w] \in Storing => AllBefore(w, End(w))
  /\ pc[w] = "wait" => AllBefore(w, cons[w])
  /\ Quieted(w) => AllBefore(w, reported)

NQInv == NInv /\ \A w \in Waves : PlacedOf(w) /\ CoveredOf(w)

(* Who holds a buffer of result words. *)
FetchPosted(w) == pc[w] \in Storing \cup Waiting /\ Op(w).op = "FETCH"
Holds(w) == FetchPosted(w) \/ (pc[w] = "write" /\ Op(w).op = "FETCH")
Apart(a, b) == a + WfSize <= b \/ b + WfSize <= a
BufferWord == {a \in Nat : a + WfSize <= FetchCnt}

(* Buffers that are apart share no word. *)
LEMMA ApartWords ==
  ASSUME NEW a \in Nat, NEW b \in Nat, Apart(a, b), NEW k \in Nat, NEW m \in Nat,
         k < WfSize, m < WfSize
  PROVE  a + k # b + m
<1>1. WfSize \in Nat
  BY QueuePairAssumption
<1> QED
  BY <1>1 DEF Apart

BuffersApart ==
  /\ freelist \in Seq(BufferWord)
  /\ words \in [0 .. FetchCnt - 1 -> Callers \cup {NoCall}]
  /\ \A i, j \in 1 .. Len(freelist) : i # j => Apart(freelist[i], freelist[j])
  /\ \A w \in Waves : Holds(w) =>
       /\ word[w] \in BufferWord
       /\ \A j \in 1 .. Len(freelist) : Apart(word[w], freelist[j])
       /\ \A v \in Waves : Holds(v) /\ v # w => Apart(word[v], word[w])

(* A fetch's WQEs are those it stored, and have left its results. *)
FetchKept(w) ==
  /\ base[w] \in Position
  /\ \A l \in 0 .. Op(w).lanes - 1 : \A i \in Position : i = base[w] + l =>
       /\ Has(i) /\ Entry(i) = Wqe(w, l)
       /\ i < Done => words[word[w] + l] = <<w, returned[w] + 1, l>>

(* Only a fetch under way has WQEs to be executed that write words. *)
Writers ==
  \A i \in Position : Has(i) /\ Done <= i =>
    \/ Entry(i).word = NoWord
    \/ \E w \in Waves : FetchPosted(w) /\
         \E l \in 0 .. Op(w).lanes - 1 : i = base[w] + l

NFInv == NQInv /\ BuffersApart /\ Writers /\ \A w \in Waves : FetchPosted(w) => FetchKept(w)

----------------------------------------------------------------------------
(* Control: where the wavefronts are.                                      *)

LEMMA IonicOp ==
  ASSUME IonicTypes, NEW w \in Waves, Calling(w)
  PROVE  /\ Op(w) = Quiet => Op(w).op = "QUIET" /\ Op(w).lanes = 0
         /\ Op(w) # Quiet => /\ Op(w) \in Posts /\ Op(w).op # "QUIET"
                             /\ Op(w).lanes \in 1 .. WfSize
                             /\ Op(w).lanes \in Nat /\ 0 < Op(w).lanes
                             /\ Op(w).lanes < Depth /\ Op(w).lanes <= WfSize
         /\ Op(w).lanes \in Nat /\ base[w] \in Nat /\ End(w) \in Nat
         /\ End(w) = base[w] + Op(w).lanes
<1>1. returned[w] + 1 \in 1 .. Len(prog[w])
  BY DEF IonicTypes, Calling
<1>2. Op(w) \in Posts \cup {Quiet}
  BY <1>1 DEF IonicTypes, Op
<1>3. ASSUME Op(w) # Quiet
      PROVE  Op(w) \in Posts /\ Op(w).op # "QUIET" /\ Op(w).lanes \in 1 .. WfSize
  BY <1>2, <1>3 DEF Posts
<1>4. WfSize \in Nat /\ Depth \in Nat /\ WfSize < Depth
  BY QueuePairAssumption
<1>5. Op(w).lanes \in Nat
  BY <1>3, <1>4 DEF Quiet
<1>6. base[w] \in Nat /\ End(w) \in Nat
  BY <1>5 DEF IonicTypes, End
<1> QED
  BY <1>3, <1>4, <1>5, <1>6 DEF Quiet, End

LEMMA IonicCounters ==
  ASSUME IonicTypes
  PROVE  /\ Done \in Nat /\ start \in Nat /\ db \in Nat /\ reported \in Nat
         /\ sq_prod \in Nat /\ Depth \in Nat /\ Depth > 0 /\ Depth \in Nat \ {0}
         /\ Len(executed) \in Nat /\ Done = start + Len(executed)
  BY QueuePairAssumption DEF IonicTypes, Done

IonicState == <<nicVars, sqVars, call, pc, ionicVars>>

LEMMA IonicCases ==
  ASSUME [Next]_vars, provider = "ionic"
  PROVE  \/ \E w \in Waves : IonicStep(w)
         \/ Execute /\ UNCHANGED ionicVars
         \/ Report /\ UNCHANGED ionicVars
         \/ UNCHANGED IonicState
<1>1. ASSUME NEW w \in Waves, Step(w) PROVE IonicStep(w)
  BY <1>1 DEF Step
<1>2. ASSUME NEW w \in Waves, Spin(w) PROVE UNCHANGED IonicState
  BY <1>2 DEF Spin, IonicSpin, IonicState, vars, vendorVars
<1>3. UNCHANGED vars => UNCHANGED IonicState
  BY DEF vars, vendorVars, IonicState
<1>4. Nic => (Execute \/ Report) /\ UNCHANGED ionicVars
  BY DEF Nic, vendorVars
<1> QED
  BY <1>1, <1>2, <1>3, <1>4 DEF Next

(* A wavefront's step moves it on, and it alone. *)
LEMMA IonicMoves ==
  ASSUME IonicTypes, provider = "ionic", NEW w \in Waves, IonicStep(w)
  PROVE  /\ UNCHANGED <<start, executed, reported, words, prog, provider>>
         /\ \A v \in Waves : v # w =>
              /\ pc'[v] = pc[v] /\ base'[v] = base[v] /\ word'[v] = word[v]
              /\ cons'[v] = cons[v] /\ returned'[v] = returned[v]
<1>1. UNCHANGED <<start, executed, reported, words, prog, provider>>
  BY DEF IonicStep, IonicReserve, IonicQuiet, IonicWaited, IonicPopBuffer, IonicStore,
         IonicLock, IonicRing, IonicUnlock, IonicReturn, nicVars, call, callVars
<1>2. ASSUME NEW v \in Waves, v # w PROVE pc'[v] = pc[v]
  BY <1>2 DEF IonicStep, IonicReserve, IonicQuiet, IonicWaited, IonicPopBuffer, IonicStore,
         IonicLock, IonicRing, IonicUnlock, IonicReturn, Goto, IonicTypes
<1>3. ASSUME NEW v \in Waves, v # w PROVE base'[v] = base[v] /\ word'[v] = word[v]
  BY <1>3 DEF IonicStep, IonicReserve, IonicQuiet, IonicWaited, IonicPopBuffer, IonicStore,
         IonicLock, IonicRing, IonicUnlock, IonicReturn, call, IonicTypes
<1>4. ASSUME NEW v \in Waves, v # w PROVE cons'[v] = cons[v]
  BY <1>4 DEF IonicStep, IonicReserve, IonicQuiet, IonicWaited, IonicPopBuffer, IonicStore,
         IonicLock, IonicRing, IonicUnlock, IonicReturn, ionicVars, IonicTypes
<1>5. ASSUME NEW v \in Waves, v # w PROVE returned'[v] = returned[v]
  BY <1>5 DEF IonicStep, IonicReserve, IonicQuiet, IonicWaited, IonicPopBuffer, IonicStore,
         IonicLock, IonicRing, IonicUnlock, IonicReturn, call, callVars, ReturnsIf, Returns,
         IonicTypes
<1> QED
  BY <1>1, <1>2, <1>3, <1>4, <1>5

(* What each step does to its own wavefront. *)
LEMMA ReserveDoes ==
  ASSUME IonicTypes, NEW w \in Waves, IonicReserve(w)
  PROVE  /\ pc[w] = "out" /\ pc'[w] = "room" /\ Calling(w) /\ Op(w) # Quiet
         /\ base'[w] = sq_prod /\ sq_prod' = sq_prod + Op(w).lanes
         /\ cons'[w] = sq_prod + Op(w).lanes - (Depth - 1)
         /\ UNCHANGED <<sq, db, sq_dbprod, freelist, returned, word, lock>>
  BY DEF IonicReserve, IsPost, Goto, IonicTypes, nicVars, sqVars, callVars

LEMMA QuietDoes ==
  ASSUME IonicTypes, NEW w \in Waves, IonicQuiet(w)
  PROVE  /\ pc[w] = "out" /\ pc'[w] = "wait" /\ Calling(w) /\ Op(w) = Quiet
         /\ cons'[w] = sq_prod
         /\ UNCHANGED <<sq, db, sq_prod, sq_dbprod, freelist, returned, word, base, lock>>
  BY DEF IonicQuiet, Goto, IonicTypes, nicVars, sqVars, call, callVars, producers

LEMMA WaitedDoes ==
  ASSUME IonicTypes, NEW w \in Waves, IonicWaited(w)
  PROVE  /\ \/ pc[w] = "room" /\ pc'[w] = IF Op(w).op = "FETCH" THEN "pop" ELSE "write"
            \/ pc[w] = "wait" /\ pc'[w] = "done"
         /\ ~Before(reported, cons[w])
         /\ UNCHANGED <<sq, db, sq_prod, sq_dbprod, freelist, returned, word, base, cons, lock>>
  BY DEF IonicWaited, Goto, IonicTypes, nicVars, sqVars, call, callVars, ionicVars

LEMMA PopDoes ==
  ASSUME IonicTypes, NEW w \in Waves, IonicPopBuffer(w)
  PROVE  /\ pc[w] = "pop" /\ pc'[w] = "write" /\ freelist # <<>>
         /\ word'[w] = Head(freelist) /\ freelist' = Tail(freelist)
         /\ UNCHANGED <<sq, db, sq_prod, sq_dbprod, returned, base, cons, lock>>
  BY DEF IonicPopBuffer, Goto, IonicTypes, nicVars, sqVars, callVars, producers

LEMMA StoreDoes ==
  ASSUME IonicTypes, IonicWhere, NEW w \in Waves, IonicStore(w)
  PROVE  /\ pc[w] = "write" /\ sq' = Written(w)
         /\ \/ /\ Rings(w) /\ pc'[w] = "commit" /\ returned'[w] = returned[w]
            \/ /\ ~Rings(w) /\ pc'[w] = "out" /\ returned'[w] = returned[w] + 1
               /\ Op(w).op = "RMA"
         /\ UNCHANGED <<db, sq_prod, sq_dbprod, freelist, word, base, cons, lock>>
<1>1. /\ pc[w] = "write" /\ sq' = Written(w)
      /\ pc'[w] = IF Rings(w) THEN "commit" ELSE "out"
      /\ returned'[w] = returned[w] + IF ~Rings(w) THEN 1 ELSE 0
      /\ UNCHANGED <<db, sq_prod, sq_dbprod, freelist, word, base, cons, lock>>
  BY DEF IonicStore, Goto, IonicTypes, sqVars, ionicVars, ReturnsIf
<1>2. returned[w] \in Nat
  BY DEF IonicTypes
<1>3. CASE Rings(w)
  <2>1. returned[w] + (IF ~Rings(w) THEN 1 ELSE 0) = returned[w]
    BY <1>2, <1>3
  <2> QED
    BY <1>1, <1>3, <2>1
<1>4. CASE ~Rings(w)
  <2>1. returned[w] + (IF ~Rings(w) THEN 1 ELSE 0) = returned[w] + 1
    BY <1>4
  <2>2. Op(w).op = "RMA"
    BY <1>4 DEF Rings
  <2> QED
    BY <1>1, <1>4, <2>1, <2>2
<1> QED
  BY <1>3, <1>4

LEMMA LockDoes ==
  ASSUME IonicTypes, NEW w \in Waves, IonicLock(w)
  PROVE  /\ pc[w] = "commit" /\ pc'[w] = "ring"
         /\ UNCHANGED <<sq, db, sq_prod, sq_dbprod, freelist, returned, word, base, cons>>
  BY DEF IonicLock, Goto, IonicTypes, nicVars, call, callVars, ionicVars

LEMMA RingDoes ==
  ASSUME IonicTypes, IonicWhere, NEW w \in Waves, IonicRing(w)
  PROVE  /\ pc[w] = "ring" /\ pc'[w] = "unlock" /\ db' \in Nat /\ sq_dbprod' \in Nat
         /\ UNCHANGED <<sq, sq_prod, freelist, returned, word, base, cons, lock>>
<1>1. pc[w] = "ring" /\ pc'[w] = "unlock"
  BY DEF IonicRing, Goto, IonicTypes
<1>2. End(w) \in Nat
  BY <1>1, IonicOp DEF IonicWhere
<1>3. DoorbellAt(End(w), Depth) \in Nat
  <2>1. (End(w) - Done) % Depth \in 0 .. Depth - 1
    <3>1. End(w) - Done \in Int /\ Depth \in Nat \ {0}
      BY <1>2, IonicCounters
    <3> QED
      BY <3>1, DivMod
  <2> QED
    BY <2>1, IonicCounters DEF DoorbellAt
<1>4. db' \in Nat /\ sq_dbprod' \in Nat
  BY <1>2, <1>3 DEF IonicRing, IonicTypes
<1> QED
  BY <1>1, <1>4 DEF IonicRing, sqVars, call, callVars

LEMMA UnlockDoes ==
  ASSUME IonicTypes, NEW w \in Waves, IonicUnlock(w)
  PROVE  /\ pc[w] = "unlock" /\ cons'[w] = End(w)
         /\ \/ Op(w).op = "FETCH" /\ pc'[w] = "wait" /\ returned'[w] = returned[w]
            \/ Op(w).op # "FETCH" /\ pc'[w] = "out" /\ returned'[w] = returned[w] + 1
         /\ UNCHANGED <<sq, db, sq_prod, sq_dbprod, freelist, word, base>>
<1>1. /\ pc[w] = "unlock" /\ cons'[w] = End(w)
      /\ pc'[w] = IF Op(w).op = "FETCH" THEN "wait" ELSE "out"
      /\ returned'[w] = returned[w] + IF Op(w).op # "FETCH" THEN 1 ELSE 0
      /\ UNCHANGED <<sq, db, sq_prod, sq_dbprod, freelist, word, base>>
  BY DEF IonicUnlock, Goto, IonicTypes, nicVars, producers, ReturnsIf
<1>2. returned[w] \in Nat
  BY DEF IonicTypes
<1>3. CASE Op(w).op = "FETCH"
  <2>1. returned[w] + (IF Op(w).op # "FETCH" THEN 1 ELSE 0) = returned[w]
    BY <1>2, <1>3
  <2> QED
    BY <1>1, <1>3, <2>1
<1>4. CASE Op(w).op # "FETCH"
  BY <1>1, <1>4
<1> QED
  BY <1>3, <1>4

LEMMA ReturnDoes ==
  ASSUME IonicTypes, NEW w \in Waves, IonicReturn(w)
  PROVE  /\ pc[w] = "done" /\ pc'[w] = "out" /\ returned'[w] = returned[w] + 1
         /\ freelist' = IF Op(w) = Quiet THEN freelist ELSE Append(freelist, word[w])
         /\ UNCHANGED <<sq, db, sq_prod, sq_dbprod, word, base, cons, lock>>
  BY DEF IonicReturn, Goto, IonicTypes, nicVars, sqVars, producers, Returns, ReturnsIf

LEMMA IonicStepTypes ==
  ASSUME IonicTypes, IonicWhere, provider = "ionic", NEW w \in Waves, IonicStep(w)
  PROVE  IonicTypes'
<1>1. UNCHANGED <<start, executed, reported, prog>>
  BY IonicMoves
<1>2. CASE IonicReserve(w)
  <2>1. Op(w).lanes \in Nat /\ Depth \in Nat
    BY <1>2, ReserveDoes, IonicOp, IonicCounters
  <2>2. sq_prod' \in Nat /\ sq_prod + Op(w).lanes - (Depth - 1) \in Int
    BY <1>2, <2>1, ReserveDoes, IonicCounters
  <2>3. base' \in [Waves -> Nat] /\ cons' \in [Waves -> Int]
    BY <1>2, <2>2 DEF IonicReserve, IonicTypes
  <2>4. pc' = [pc EXCEPT ![w] = "room"]
    BY <1>2 DEF IonicReserve, Goto
  <2> QED
    BY <1>1, <1>2, <2>2, <2>3, <2>4, ReserveDoes DEF IonicTypes
<1>3. CASE IonicQuiet(w)
  <2>1. cons' \in [Waves -> Int]
    BY <1>3 DEF IonicQuiet, IonicTypes
  <2> QED
    BY <1>1, <1>3, <2>1, QuietDoes DEF IonicQuiet, Goto, IonicTypes, Waiting
<1>4. CASE IonicWaited(w)
  <2>1. PICK to \in {"pop", "write", "done"} : pc' = [pc EXCEPT ![w] = to]
    BY <1>4 DEF IonicWaited, Goto
  <2> QED
    BY <1>1, <1>4, <2>1, WaitedDoes DEF IonicTypes, Waiting
<1>5. CASE IonicPopBuffer(w)
  <2>1. Head(freelist) \in Int /\ Tail(freelist) \in Seq(Int)
    BY <1>5, PopDoes DEF IonicTypes
  <2>2. word' \in [Waves -> Int]
    BY <1>5, <2>1 DEF IonicPopBuffer, IonicTypes
  <2> QED
    BY <1>1, <1>5, <2>1, <2>2, PopDoes DEF IonicPopBuffer, Goto, IonicTypes
<1>6. CASE IonicStore(w)
  <2>1. PICK to \in {"commit", "out"} : pc' = [pc EXCEPT ![w] = to]
    BY <1>6 DEF IonicStore, Goto
  <2>2. returned' \in [Waves -> Nat]
    BY <1>6 DEF IonicStore, ReturnsIf, IonicTypes
  <2> QED
    BY <1>1, <1>6, <2>1, <2>2, StoreDoes DEF IonicTypes, Storing
<1>7. CASE IonicLock(w)
  BY <1>1, <1>7, LockDoes DEF IonicLock, Goto, IonicTypes, Storing
<1>8. CASE IonicRing(w)
  BY <1>1, <1>8, RingDoes DEF IonicRing, Goto, IonicTypes, Storing
<1>9. CASE IonicUnlock(w)
  <2>1. PICK to \in {"wait", "out"} : pc' = [pc EXCEPT ![w] = to]
    BY <1>9 DEF IonicUnlock, Goto
  <2>2. returned' \in [Waves -> Nat]
    BY <1>9 DEF IonicUnlock, ReturnsIf, IonicTypes
  <2>3. End(w) \in Int
    BY <1>9, UnlockDoes, IonicOp DEF IonicWhere
  <2>4. cons' \in [Waves -> Int]
    BY <1>9, <2>3 DEF IonicUnlock, IonicTypes
  <2> QED
    BY <1>1, <1>9, <2>1, <2>2, <2>4, UnlockDoes DEF IonicTypes, Waiting
<1>10. CASE IonicReturn(w)
  <2>1. returned' \in [Waves -> Nat]
    BY <1>10 DEF IonicReturn, Returns, ReturnsIf, IonicTypes
  <2>2. freelist' \in Seq(Int)
    <3>1. word[w] \in Int /\ freelist \in Seq(Int)
      BY DEF IonicTypes
    <3>2. Append(freelist, word[w]) \in Seq(Int)
      BY <3>1
    <3> QED
      BY <1>10, <3>1, <3>2, ReturnDoes
  <2> QED
    BY <1>1, <1>10, <2>1, <2>2, ReturnDoes DEF IonicReturn, Goto, IonicTypes
<1> QED
  BY <1>2, <1>3, <1>4, <1>5, <1>6, <1>7, <1>8, <1>9, <1>10 DEF IonicStep

LEMMA IonicStepWhere ==
  ASSUME IonicTypes, IonicWhere, provider = "ionic", NEW w \in Waves, IonicStep(w)
  PROVE  IonicWhere'
<1>1. ASSUME NEW v \in Waves, v # w
      PROVE  /\ pc'[v] = pc[v] /\ returned'[v] = returned[v] /\ prog' = prog
             /\ Op(v)' = Op(v) /\ Calling(v)' = Calling(v)
  BY <1>1, IonicMoves DEF Op, Calling
<1>2. /\ prog' = prog /\ Calling(w) /\ returned[w] \in Nat /\ Len(prog[w]) \in Nat
      /\ returned[w] + 1 <= Len(prog[w])
  <2>1. Calling(w)
    BY ReserveDoes, QuietDoes, WaitedDoes, PopDoes, StoreDoes, LockDoes, RingDoes,
       UnlockDoes, ReturnDoes DEF IonicStep, IonicWhere
  <2> QED
    BY <2>1, IonicMoves DEF Calling, IonicTypes
<1>3. returned'[w] = returned[w] => Op(w)' = Op(w) /\ Calling(w)' /\ returned'[w] <= Len(prog'[w])
  BY <1>2 DEF Op, Calling
<1>4. returned'[w] = returned[w] + 1 => returned'[w] <= Len(prog'[w])
  BY <1>2
<1>5. Unstored(w) \/ pc[w] \in Storing => Op(w) # Quiet
  BY DEF IonicWhere
<1>6. \/ /\ returned'[w] = returned[w]
         /\ Unstored(w)' \/ pc'[w] \in Storing => Op(w) # Quiet
         /\ pc'[w] = "pop" => Op(w).op = "FETCH"
         /\ pc'[w] \in Waiting => Op(w).op \in {"QUIET", "FETCH"}
      \/ returned'[w] = returned[w] + 1 /\ pc'[w] = "out"
  <2>1. CASE IonicReserve(w)
    BY <2>1, ReserveDoes DEF Waiting
  <2>2. CASE IonicQuiet(w)
    BY <2>2, QuietDoes, IonicOp DEF Unstored, Storing
  <2>3. CASE IonicWaited(w)
    BY <2>3, WaitedDoes DEF Unstored, Storing, Waiting, IonicWhere
  <2>4. CASE IonicPopBuffer(w)
    BY <2>4, PopDoes DEF Unstored, Storing, Waiting, IonicWhere
  <2>5. CASE IonicStore(w)
    BY <2>5, StoreDoes DEF Unstored, Storing, Waiting, IonicWhere
  <2>6. CASE IonicLock(w)
    BY <2>6, LockDoes DEF Unstored, Storing, Waiting, IonicWhere
  <2>7. CASE IonicRing(w)
    BY <2>7, RingDoes DEF Unstored, Storing, Waiting, IonicWhere
  <2>8. CASE IonicUnlock(w)
    BY <2>8, UnlockDoes DEF Unstored, Storing, Waiting, IonicWhere
  <2>9. CASE IonicReturn(w)
    BY <2>9, ReturnDoes
  <2> QED
    BY <2>1, <2>2, <2>3, <2>4, <2>5, <2>6, <2>7, <2>8, <2>9 DEF IonicStep
<1>7. ASSUME NEW v \in Waves
      PROVE  /\ returned'[v] <= Len(prog'[v])
             /\ pc'[v] # "out" => Calling(v)'
             /\ Unstored(v)' \/ pc'[v] \in Storing => Op(v)' # Quiet
             /\ pc'[v] = "pop" => Op(v)'.op = "FETCH"
             /\ pc'[v] \in Waiting => Op(v)'.op \in {"QUIET", "FETCH"}
  <2>1. CASE v = w
    BY <1>3, <1>4, <1>6, <2>1 DEF Unstored, Storing, Waiting
  <2>2. CASE v # w
    BY <1>1, <2>2 DEF IonicWhere, Unstored
  <2> QED
    BY <2>1, <2>2
<1> QED
  BY <1>7 DEF IonicWhere

----------------------------------------------------------------------------
(* The positions: nobody stores before the NIC has reported room.          *)

(* A counter at most half the range ahead is seen to be ahead. *)
LEMMA BeforeExact ==
  ASSUME NEW a \in Int, NEW b \in Int, a < b, b - a <= W \div 2
  PROVE  Before(a, b)
<1>1. W \in Nat \ {0} /\ Depth < W /\ Depth \in Nat \ {0}
  BY QueuePairAssumption
<1>2. W = 2 * (W \div 2) + (W % 2) /\ W \div 2 \in Int /\ W % 2 \in 0 .. 1
  BY <1>1, DivMod
<1> DEFINE x == W - (b - a)
           h == W \div 2
<1> HIDE DEF h
<1>3. x \in 0 .. W - 1 /\ x >= h /\ a - b = x + W * (-1)
  BY <1>1, <1>2 DEF h
<1>4. (x + W * (-1)) % W = x
  <2>1. x \in 0 .. W - 1 /\ -1 \in Int /\ W \in Nat \ {0}
    BY <1>1, <1>3
  <2> HIDE DEF x
  <2> QED
    BY <2>1, ModShift
<1>5. (a - b) % W = x
  BY <1>3, <1>4
<1> QED
  BY <1>3, <1>5 DEF Before, h

LEMMA BeyondCard ==
  ASSUME NEW x \in Nat
  PROVE  /\ IsFiniteSet(Beyond(x)) /\ Cardinality(Beyond(x)) \in Nat
         /\ Cardinality(Waves) \in Nat
         /\ WfSize * Cardinality(Beyond(x)) \in Nat
         /\ WfSize * Cardinality(Beyond(x)) <= WfSize * Cardinality(Waves)
<1>1. Beyond(x) \subseteq Waves /\ IsFiniteSet(Waves)
  BY IonicAssumption DEF Beyond
<1>2. /\ IsFiniteSet(Beyond(x)) /\ Cardinality(Beyond(x)) \in Nat
      /\ Cardinality(Waves) \in Nat /\ Cardinality(Beyond(x)) <= Cardinality(Waves)
  BY <1>1, FS_Subset, FS_CardinalityType
<1>3. WfSize \in Nat
  BY QueuePairAssumption
<1>4. WfSize * Cardinality(Beyond(x)) <= WfSize * Cardinality(Waves)
  BY <1>2, <1>3, Monotone
<1>5. WfSize * Cardinality(Beyond(x)) \in Nat
  BY <1>2, <1>3
<1> QED
  BY <1>2, <1>4, <1>5

(* A wait that ends has found what it waits for. *)
LEMMA WaitFinds ==
  ASSUME IonicTypes, IonicWhere, Positions, NEW w \in Waves, IonicWaited(w)
  PROVE  cons[w] <= reported
<1> SUFFICES ASSUME reported < cons[w] PROVE FALSE
  BY IonicCounters DEF IonicTypes
<1>1. cons[w] \in Int /\ reported \in Nat /\ sq_prod \in Nat /\ Depth \in Nat \ {0}
  BY IonicCounters DEF IonicTypes
<1>2. cons[w] <= sq_prod
  <2>1. CASE pc[w] = "room"
    <3>1. cons[w] = End(w) - (Depth - 1) /\ End(w) <= sq_prod
      BY <2>1 DEF Positions, Reserved, Unstored
    <3>2. End(w) \in Nat
      BY <2>1, IonicOp DEF IonicWhere
    <3> QED
      BY <1>1, <3>1, <3>2
  <2>2. CASE pc[w] = "wait"
    BY <2>2 DEF Positions, Reserved
  <2> QED
    BY <2>1, <2>2, WaitedDoes
<1>3. PICK x \in Nat : x = reported + Depth - 1
  BY <1>1
<1>4. sq_prod - x <= WfSize * Cardinality(Beyond(x))
  BY <1>3 DEF Positions, Bounded
<1> DEFINE all == WfSize * Cardinality(Waves)
           some == WfSize * Cardinality(Beyond(x))
           h == W \div 2
<1>5. some \in Nat /\ some <= all /\ all \in Nat
  <2>1. WfSize \in Nat /\ Cardinality(Waves) \in Nat
    BY QueuePairAssumption, BeyondCard
  <2>2. all \in Nat
    BY <2>1
  <2> QED
    BY <2>2, BeyondCard
<1>6. Depth + all <= h /\ h \in Int
  BY IonicAssumption, QueuePairAssumption
<1>7. sq_prod - x <= some
  BY <1>4
<1> HIDE DEF all, some, h
<1>8. cons[w] - reported <= h
  BY <1>1, <1>2, <1>3, <1>5, <1>6, <1>7
<1>9. Before(reported, cons[w])
  BY <1>1, <1>8, BeforeExact DEF h
<1> QED
  BY <1>9, WaitedDoes

LEMMA ReservePositions ==
  ASSUME IonicTypes, IonicWhere, Positions, provider = "ionic", NEW w \in Waves,
         IonicReserve(w)
  PROVE  Positions'
<1>1. /\ UNCHANGED <<start, executed, reported, prog>>
      /\ \A v \in Waves : v # w =>
           /\ pc'[v] = pc[v] /\ base'[v] = base[v] /\ cons'[v] = cons[v]
           /\ returned'[v] = returned[v]
  BY IonicMoves DEF IonicStep
<1>2. /\ pc[w] = "out" /\ pc'[w] = "room" /\ Calling(w) /\ Op(w) # Quiet
      /\ base'[w] = sq_prod /\ sq_prod' = sq_prod + Op(w).lanes
      /\ cons'[w] = sq_prod + Op(w).lanes - (Depth - 1) /\ returned' = returned
  BY ReserveDoes
<1>3. Op(w).lanes \in Nat /\ 0 < Op(w).lanes /\ Op(w).lanes <= WfSize /\ WfSize \in Nat
  BY <1>2, IonicOp, QueuePairAssumption
<1>4. Done' = Done
  BY <1>1 DEF Done
<1>5. /\ sq_prod \in Nat /\ sq_prod' \in Nat /\ sq_prod <= sq_prod' /\ Done <= sq_prod
      /\ Done \in Nat /\ Depth \in Nat \ {0} /\ reported \in Nat
  BY <1>2, <1>3, IonicCounters DEF Positions
<1>6. End(w)' = sq_prod'
  BY <1>1, <1>2 DEF End, Op
<1>7. ASSUME NEW v \in Waves, v # w
      PROVE  /\ Op(v)' = Op(v) /\ End(v)' = End(v) /\ Unstored(v)' = Unstored(v)
  BY <1>1, <1>7 DEF Op, End, Unstored
<1>8. ASSUME NEW v \in Waves PROVE Reserved(v)'
  <2>1. CASE v = w
    <3>1. cons'[w] = End(w)' - (Depth - 1)
      BY <1>2, <1>3, <1>5, <1>6
    <3>2. Done' <= base'[w] /\ End(w)' <= sq_prod'
      BY <1>2, <1>4, <1>5, <1>6
    <3> QED
      BY <1>2, <2>1, <3>1, <3>2 DEF Reserved, Storing
  <2>2. CASE v # w
    <3>1. Unstored(v) \/ pc[v] \in Storing => End(v) \in Nat
      BY IonicOp DEF IonicWhere, Unstored, Storing
    <3>2. cons[v] \in Int
      BY DEF IonicTypes
    <3>3. /\ Unstored(v) => Done <= base[v] /\ End(v) <= sq_prod'
          /\ pc[v] \in Storing => End(v) <= sq_prod'
          /\ pc[v] = "wait" => cons[v] <= sq_prod'
      BY <1>5, <3>1, <3>2 DEF Positions, Reserved
    <3>4. /\ pc[v] = "room" => cons[v] = End(v) - (Depth - 1)
          /\ pc[v] \in {"pop", "write"} => End(v) <= reported + Depth - 1
      BY DEF Positions, Reserved
    <3> QED
      BY <1>1, <1>4, <1>7, <2>2, <3>3, <3>4 DEF Reserved
  <2> QED
    BY <2>1, <2>2
<1>9. Disjoint'
  <2>1. \A v \in Waves : v # w /\ Unstored(v) => End(v) <= base'[w]
    BY <1>2 DEF Positions, Reserved
  <2>2. \A v \in Waves : v # w /\ Unstored(v)' => End(v)' <= base'[w]
    BY <1>7, <2>1
  <2> QED
    BY <1>1, <1>7, <2>2 DEF Positions, Disjoint
<1>10. Bounded'
  <2> SUFFICES ASSUME NEW x \in Nat, reported + Depth - 1 <= x
               PROVE  sq_prod' - x <= WfSize * Cardinality(Beyond(x)')
    BY <1>1 DEF Bounded
  <2>1. CASE sq_prod' <= x
    <3>1. Beyond(x)' \subseteq Waves /\ IsFiniteSet(Waves)
      BY IonicAssumption DEF Beyond
    <3>2. Cardinality(Beyond(x)') \in Nat
      BY <3>1, FS_Subset, FS_CardinalityType
    <3>3. WfSize * Cardinality(Beyond(x)') \in Nat
      BY <1>3, <3>2
    <3> QED
      BY <1>5, <2>1, <3>3
  <2>2. CASE x < sq_prod'
    <3>1. Beyond(x)' = Beyond(x) \cup {w} /\ w \notin Beyond(x)
      BY <1>1, <1>2, <1>6, <1>7, <2>2 DEF Beyond
    <3>2. IsFiniteSet(Beyond(x)) /\ Cardinality(Beyond(x)) \in Nat
      BY BeyondCard
    <3>3. Cardinality(Beyond(x)') = Cardinality(Beyond(x)) + 1
      BY <3>1, <3>2, FS_AddElement
    <3> DEFINE n == Cardinality(Beyond(x))
    <3>4. WfSize * (n + 1) = WfSize * n + WfSize /\ WfSize * n \in Nat
      BY <1>3, <3>2
    <3>5. sq_prod - x <= WfSize * n
      BY DEF Positions, Bounded
    <3> HIDE DEF n
    <3>6. sq_prod' - x <= WfSize * (n + 1)
      BY <1>2, <1>3, <1>5, <3>4, <3>5
    <3> QED
      BY <3>3, <3>6 DEF n
  <2> QED
    BY <1>5, <2>1, <2>2
<1>11. start' <= reported' /\ reported' <= Done' /\ Done' <= sq_prod'
  BY <1>1, <1>4, <1>5 DEF Positions
<1> QED
  BY <1>8, <1>9, <1>10, <1>11 DEF Positions

LEMMA StayPositions ==
  ASSUME IonicTypes, IonicWhere, Positions, provider = "ionic", NEW w \in Waves,
         IonicStep(w), ~IonicReserve(w)
  PROVE  Positions'
<1>1. /\ UNCHANGED <<start, executed, reported, prog>>
      /\ \A v \in Waves : v # w =>
           /\ pc'[v] = pc[v] /\ base'[v] = base[v] /\ cons'[v] = cons[v]
           /\ returned'[v] = returned[v]
  BY IonicMoves
<1>2. UNCHANGED <<sq_prod, base>>
  BY QuietDoes, WaitedDoes, PopDoes, StoreDoes, LockDoes, RingDoes, UnlockDoes,
     ReturnDoes DEF IonicStep
<1>3. Done' = Done
  BY <1>1 DEF Done
<1>4. returned'[w] = returned[w] => Op(w)' = Op(w) /\ End(w)' = End(w)
  BY <1>1, <1>2 DEF Op, End
<1>5. ASSUME NEW v \in Waves, v # w
      PROVE  /\ Op(v)' = Op(v) /\ End(v)' = End(v) /\ Unstored(v)' = Unstored(v)
  BY <1>1, <1>2, <1>5 DEF Op, End, Unstored
<1>6. /\ pc'[w] \in {"pop", "write"} =>
           /\ Unstored(w) /\ returned'[w] = returned[w] /\ pc'[w] # "room"
           /\ pc[w] = "room" => IonicWaited(w)
      /\ pc'[w] \in Storing =>
           (Unstored(w) \/ pc[w] \in Storing) /\ returned'[w] = returned[w]
      /\ pc'[w] = "wait" => cons'[w] = sq_prod \/ (pc[w] \in Storing /\ cons'[w] = End(w))
      /\ pc'[w] # "room"
  <2>1. CASE IonicQuiet(w)
    BY <2>1, QuietDoes DEF Storing, Unstored
  <2>2. CASE IonicWaited(w)
    BY <2>2, WaitedDoes DEF Storing, Unstored
  <2>3. CASE IonicPopBuffer(w)
    BY <2>3, PopDoes DEF Storing, Unstored
  <2>4. CASE IonicStore(w)
    BY <2>4, StoreDoes DEF Storing, Unstored
  <2>5. CASE IonicLock(w)
    BY <2>5, LockDoes DEF Storing, Unstored
  <2>6. CASE IonicRing(w)
    BY <2>6, RingDoes DEF Storing, Unstored
  <2>7. CASE IonicUnlock(w)
    BY <2>7, UnlockDoes DEF Storing, Unstored
  <2>8. CASE IonicReturn(w)
    BY <2>8, ReturnDoes DEF Storing, Unstored
  <2> QED
    BY <2>1, <2>2, <2>3, <2>4, <2>5, <2>6, <2>7, <2>8 DEF IonicStep
<1>7. Unstored(w)' => Unstored(w) /\ returned'[w] = returned[w]
  BY <1>6 DEF Unstored
<1>8. pc'[w] \in {"pop", "write"} => End(w) <= reported + Depth - 1
  <2>1. CASE pc[w] = "room" /\ pc'[w] \in {"pop", "write"}
    <3>1. cons[w] <= reported
      BY <1>6, <2>1, WaitFinds
    <3>2. cons[w] = End(w) - (Depth - 1) /\ End(w) \in Nat
      BY <2>1, IonicOp DEF Positions, Reserved, IonicWhere
    <3> QED
      BY <3>1, <3>2, IonicCounters
  <2> QED
    BY <1>6, <2>1 DEF Positions, Reserved, Unstored
<1>9. ASSUME NEW v \in Waves PROVE Reserved(v)'
  <2>1. CASE v = w
    <3>1. Unstored(w)' => Done' <= base'[w] /\ End(w)' <= sq_prod'
      BY <1>2, <1>3, <1>4, <1>7 DEF Positions, Reserved
    <3>2. pc'[w] \in Storing => End(w)' <= sq_prod'
      BY <1>2, <1>4, <1>6 DEF Positions, Reserved
    <3>3. pc'[w] \in {"pop", "write"} => End(w)' <= reported' + Depth - 1
      BY <1>1, <1>4, <1>6, <1>8
    <3>4. pc'[w] = "wait" => cons'[w] <= sq_prod'
      BY <1>2, <1>6, IonicCounters DEF Positions, Reserved
    <3> QED
      BY <1>6, <2>1, <3>1, <3>2, <3>3, <3>4 DEF Reserved
  <2>2. CASE v # w
    BY <1>1, <1>2, <1>3, <1>5, <2>2 DEF Positions, Reserved, Unstored
  <2> QED
    BY <2>1, <2>2
<1>10. Disjoint'
  <2>1. \A v \in Waves : Unstored(v)' => Unstored(v) /\ End(v)' = End(v)
    BY <1>4, <1>5, <1>7
  <2> QED
    BY <1>2, <2>1 DEF Positions, Disjoint
<1>11. Bounded'
  <2> SUFFICES ASSUME NEW x \in Nat, reported + Depth - 1 <= x
               PROVE  sq_prod - x <= WfSize * Cardinality(Beyond(x)')
    BY <1>1, <1>2 DEF Bounded
  <2>1. w \notin Beyond(x)
    <3>1. CASE pc[w] = "room"
      <4>1. pc'[w] \in {"pop", "write"}
        BY <3>1, QuietDoes, WaitedDoes, PopDoes, StoreDoes, LockDoes, RingDoes, UnlockDoes,
           ReturnDoes DEF IonicStep
      <4>2. End(w) <= x
        BY <1>8, <4>1, <3>1, IonicOp, IonicCounters DEF IonicWhere
      <4>3. End(w) \in Nat
        BY <3>1, IonicOp DEF IonicWhere
      <4> QED
        BY <4>2, <4>3 DEF Beyond
    <3> QED
      BY <3>1 DEF Beyond
  <2>2. w \notin Beyond(x)'
    BY <1>6 DEF Beyond
  <2>3. Beyond(x)' = Beyond(x)
    BY <1>1, <1>5, <2>1, <2>2 DEF Beyond
  <2> QED
    BY <2>3 DEF Positions, Bounded
<1>12. start' <= reported' /\ reported' <= Done' /\ Done' <= sq_prod'
  BY <1>1, <1>2, <1>3 DEF Positions
<1> QED
  BY <1>9, <1>10, <1>11, <1>12 DEF Positions

----------------------------------------------------------------------------
(* The slots, and the colors.                                              *)

LEMMA DivShift ==
  ASSUME NEW M \in Nat \ {0}, NEW a \in Int
  PROVE  (a - M) \div M = (a \div M) - 1
<1> DEFINE p == a \div M
           q == (a - M) \div M
           r == a % M
           s == (a - M) % M
<1>1. /\ a = M * p + r /\ a - M = M * q + s
      /\ p \in Int /\ q \in Int /\ r \in 0 .. M - 1 /\ s \in 0 .. M - 1
  <2>1. a - M \in Int
    OBVIOUS
  <2> QED
    BY <2>1, DivMod
<1> HIDE DEF p, q, r, s
<1>2. M * (q + 1) = M * q + M /\ M * p \in Int /\ M * q \in Int
  BY <1>1
<1>3. M * (q + 1) - M * p < M /\ M * p - M * (q + 1) < M
  BY <1>1, <1>2
<1>4. ~(p + 1 <= q + 1)
  <2>1. M * (p + 1) = M * p + M
    BY <1>1
  <2> QED
    BY <1>1, <1>2, <1>3, <2>1, Monotone
<1>5. ~(q + 2 <= p)
  <2>1. M * (q + 2) = M * (q + 1) + M
    BY <1>1, <1>2
  <2> QED
    BY <1>1, <1>2, <1>3, <2>1, Monotone
<1>6. q = p - 1
  BY <1>1, <1>4, <1>5
<1> QED
  BY <1>6 DEF p, q

LEMMA NextLap ==
  ASSUME NEW a \in Int
  PROVE  (a + Depth) % Depth = a % Depth
<1>1. Depth \in Nat \ {0}
  BY QueuePairAssumption
<1>2. /\ a = Depth * (a \div Depth) + (a % Depth) /\ a \div Depth \in Int
      /\ a % Depth \in 0 .. Depth - 1
  BY <1>1, DivMod
<1>3. Depth * ((a \div Depth) + 1) = Depth * (a \div Depth) + Depth
  BY <1>1, <1>2
<1>4. a + Depth = (a % Depth) + Depth * ((a \div Depth) + 1)
  BY <1>1, <1>2, <1>3
<1>5. (a \div Depth) + 1 \in Int
  BY <1>2
<1> QED
  BY <1>1, <1>2, <1>4, <1>5, ModShift

(* A WQE of the lap before has the other color. *)
LEMMA ColorFlips ==
  ASSUME NEW p \in Int
  PROVE  Color(p - Depth) # Color(p)
<1>1. Depth \in Nat \ {0} /\ p \div Depth \in Int
  BY QueuePairAssumption, DivMod
<1>2. (p - Depth) \div Depth = (p \div Depth) - 1
  BY <1>1, DivShift
<1> DEFINE q == p \div Depth
<1>3. q \in Int
  BY <1>1
<1> HIDE DEF q
<1>4. (q - 1) % 2 # q % 2
  BY <1>3
<1> QED
  BY <1>2, <1>4 DEF Color, q

(* A store writes the slots of its positions, and no other of the lap. *)
LEMMA IonicWritten ==
  ASSUME IonicTypes, NEW w \in Waves, Calling(w), Op(w) # Quiet,
         NEW d \in Nat, d <= base[w], End(w) <= d + Depth,
         NEW p \in d .. d + Depth - 1
  PROVE  Written(w)[p % Depth] =
           IF base[w] <= p /\ p < End(w) THEN Wqe(w, p - base[w]) ELSE sq[p % Depth]
<1> DEFINE n == Op(w).lanes
           k == p % Depth
<1>1. /\ n \in Nat /\ base[w] \in Nat /\ End(w) = base[w] + n
      /\ Depth \in Nat \ {0} /\ p \in Int
  BY IonicOp, IonicCounters
<1>2. k \in 0 .. Depth - 1
  BY <1>1, DivMod
<1>3. ASSUME NEW l \in 0 .. n - 1, base[w] + l # p
      PROVE  (base[w] + l) % Depth # k
  <2>1. l \in Nat /\ base[w] + l \in Int
    BY <1>1
  <2>2. base[w] + l < p + Depth /\ p < base[w] + l + Depth
    BY <1>1, <2>1
  <2>3. base[w] + l < p \/ p < base[w] + l
    BY <1>1, <1>3, <2>1
  <2> QED
    BY <1>1, <2>1, <2>2, <2>3, ModApart
<1>4. CASE base[w] <= p /\ p < End(w)
  <2> DEFINE l == p - base[w]
  <2>1. l \in 0 .. n - 1 /\ base[w] + l = p
    <3> HIDE DEF n
    <3> QED
      BY <1>1, <1>4
  <2>2. \A m \in 0 .. n - 1 : (base[w] + m) % Depth = k => m = l
    <3> SUFFICES ASSUME NEW m \in 0 .. n - 1, (base[w] + m) % Depth = k PROVE m = l
      OBVIOUS
    <3>1. base[w] + m = p
      BY <1>3
    <3>2. m \in Nat
      BY <1>1
    <3> HIDE DEF n
    <3> QED
      BY <1>1, <3>1, <3>2
  <2> HIDE DEF l
  <2>3. (CHOOSE m \in 0 .. n - 1 : (base[w] + m) % Depth = k) = l
    BY <2>1, <2>2
  <2>4. \E m \in 0 .. n - 1 : (base[w] + m) % Depth = k
    BY <2>1
  <2>5. Written(w)[k] = Wqe(w, CHOOSE m \in 0 .. n - 1 : (base[w] + m) % Depth = k)
    <3> HIDE DEF k
    <3> QED
      BY <1>2, <2>4 DEF Written
  <2> QED
    BY <1>4, <2>3, <2>5 DEF l
<1>5. CASE ~(base[w] <= p /\ p < End(w))
  <2>1. \A l \in 0 .. n - 1 : base[w] + l # p
    BY <1>1, <1>5
  <2>2. ~\E m \in 0 .. n - 1 : (base[w] + m) % Depth = k
    BY <1>3, <2>1
  <2>3. Written(w)[k] = sq[k]
    <3> HIDE DEF k
    <3> QED
      BY <1>2, <2>2 DEF Written
  <2> QED
    BY <1>5, <2>3
<1> QED
  BY <1>4, <1>5

LEMMA IonicWqe ==
  ASSUME IonicTypes, NEW w \in Waves, Calling(w), Op(w) # Quiet,
         NEW l \in 0 .. Op(w).lanes - 1
  PROVE  /\ Wqe(w, l) \in Wqes
         /\ Wqe(w, l).idx = base[w] + l
         /\ Wqe(w, l).call = <<w, returned[w] + 1, l>>
<1>1. Op(w).lanes \in Nat /\ l \in Nat
  BY IonicOp
<1>2. base[w] + l \in Nat /\ returned[w] + 1 \in Nat /\ word[w] + l \in Int
  BY <1>1 DEF IonicTypes
<1>3. (word[w] + l) % FetchCnt \in 0 .. FetchCnt - 1
  BY <1>2, QueuePairAssumption
<1> QED
  BY <1>1, <1>2, <1>3 DEF Wqe, Wqes, Callers

(* What is stored is in no slot that a store writes. *)
LEMMA StoreWindow ==
  ASSUME NInv, NEW w \in Waves, IonicStore(w), NEW p \in Done .. Done + Depth - 1
  PROVE  /\ base[w] <= p /\ p < End(w) =>
              sq'[p % Depth] = Wqe(w, p - base[w]) /\ p - base[w] \in 0 .. Op(w).lanes - 1
         /\ ~(base[w] <= p /\ p < End(w)) => sq'[p % Depth] = sq[p % Depth]
<1>1. pc[w] = "write" /\ sq' = Written(w)
  BY StoreDoes DEF NInv
<1>2. /\ Calling(w) /\ Op(w) # Quiet /\ Op(w).lanes \in Nat /\ base[w] \in Nat
      /\ End(w) = base[w] + Op(w).lanes
  BY <1>1, IonicOp DEF NInv, IonicWhere, Unstored
<1>3. /\ Done <= base[w] /\ End(w) <= reported + Depth - 1 /\ reported <= Done
  BY <1>1 DEF NInv, Positions, Reserved, Unstored
<1>4. /\ Done \in Nat /\ Depth \in Nat /\ reported \in Nat /\ End(w) <= Done + Depth
      /\ p \in Int
  BY <1>2, <1>3, IonicCounters DEF NInv
<1>5. sq'[p % Depth] =
        IF base[w] <= p /\ p < End(w) THEN Wqe(w, p - base[w]) ELSE sq[p % Depth]
  BY <1>1, <1>2, <1>3, <1>4, IonicWritten DEF NInv
<1>6. base[w] <= p /\ p < End(w) => p - base[w] \in 0 .. Op(w).lanes - 1
  BY <1>2, <1>4
<1> QED
  BY <1>5, <1>6

LEMMA StoreSlots ==
  ASSUME NInv, provider = "ionic", NEW w \in Waves, IonicStore(w)
  PROVE  Slots'
<1>1. UNCHANGED <<start, executed, prog>> /\ Done' = Done
  BY IonicMoves DEF NInv, IonicStep, Done
<1>2. /\ pc[w] = "write" /\ ~Unstored(w)' /\ UNCHANGED <<base, sq_prod>>
  BY StoreDoes DEF NInv, Unstored
<1>3. ASSUME NEW v \in Waves, Unstored(v)'
      PROVE  v # w /\ Unstored(v) /\ End(v)' = End(v)
  BY <1>1, <1>2, <1>3, IonicMoves DEF NInv, IonicStep, Unstored, End, Op
<1>4. ASSUME NEW p \in Done .. Done + Depth - 1
      PROVE  sq'[p % Depth].idx = p - Depth \/ Stored(p)'
  <2>1. CASE base[w] <= p /\ p < End(w)
    <3>1. sq'[p % Depth] = Wqe(w, p - base[w]) /\ p - base[w] \in 0 .. Op(w).lanes - 1
      BY <2>1, StoreWindow
    <3>2. Calling(w) /\ Op(w) # Quiet /\ base[w] \in Nat /\ End(w) \in Nat
      BY <1>2, IonicOp DEF NInv, IonicWhere, Unstored
    <3>3. sq'[p % Depth] \in Wqes /\ sq'[p % Depth].idx = p
      <4>1. base[w] + (p - base[w]) = p
        BY <3>2, IonicCounters DEF NInv
      <4> QED
        BY <3>1, <3>2, <4>1, IonicWqe DEF NInv
    <3>4. p < sq_prod
      <4>1. End(w) <= sq_prod
        BY <1>2 DEF NInv, Positions, Reserved, Unstored
      <4> QED
        BY <2>1, <3>2, <4>1, IonicCounters DEF NInv
    <3>5. ASSUME NEW v \in Waves, Unstored(v)' PROVE p < base[v] \/ End(v) <= p
      <4>1. End(w) <= base[v] \/ End(v) <= base[w]
        BY <1>2, <1>3, <3>5 DEF NInv, Positions, Disjoint, Unstored
      <4>2. base[v] \in Nat /\ End(v) \in Nat
        BY <1>3, <3>5, IonicOp DEF NInv, IonicWhere, Unstored
      <4> QED
        BY <2>1, <3>2, <4>1, <4>2, IonicCounters DEF NInv
    <3> QED
      BY <1>2, <1>3, <3>3, <3>4, <3>5 DEF Stored
  <2>2. CASE ~(base[w] <= p /\ p < End(w))
    <3>1. sq'[p % Depth] = sq[p % Depth]
      BY <2>2, StoreWindow
    <3>2. Stored(p) => Stored(p)'
      BY <1>2, <1>3, <3>1 DEF Stored
    <3> QED
      BY <3>1, <3>2 DEF NInv, Slots
  <2> QED
    BY <2>1, <2>2
<1> QED
  BY <1>1, <1>4 DEF Slots

LEMMA StaySlots ==
  ASSUME NInv, provider = "ionic", NEW w \in Waves, IonicStep(w), ~IonicStore(w)
  PROVE  Slots'
<1>1. UNCHANGED <<start, executed, prog>> /\ Done' = Done
  BY IonicMoves DEF NInv, Done
<1>2. sq' = sq
  BY ReserveDoes, QuietDoes, WaitedDoes, PopDoes, LockDoes, RingDoes, UnlockDoes,
     ReturnDoes DEF IonicStep, NInv
<1>3. sq_prod' \in Nat /\ sq_prod <= sq_prod'
  <2>1. CASE IonicReserve(w)
    <3>1. Op(w).lanes \in Nat
      BY <2>1, ReserveDoes, IonicOp DEF NInv
    <3> QED
      BY <2>1, <3>1, ReserveDoes, IonicCounters DEF NInv
  <2>2. CASE ~IonicReserve(w)
    <3>1. sq_prod' = sq_prod
      BY <2>2, QuietDoes, WaitedDoes, PopDoes, LockDoes, RingDoes, UnlockDoes, ReturnDoes
      DEF IonicStep, NInv
    <3> QED
      BY <3>1, IonicCounters DEF NInv
  <2> QED
    BY <2>1, <2>2
<1>4. ASSUME NEW v \in Waves, Unstored(v)'
      PROVE  \/ base'[v] = sq_prod
             \/ Unstored(v) /\ base'[v] = base[v] /\ End(v)' = End(v)
  <2>1. CASE IonicReserve(w) /\ v = w
    BY <2>1, ReserveDoes DEF NInv
  <2>2. CASE v # w
    BY <1>1, <1>4, <2>2, IonicMoves DEF NInv, Unstored, End, Op
  <2>3. CASE ~IonicReserve(w) /\ v = w
    <3>1. Unstored(w) /\ base'[w] = base[w] /\ returned'[w] = returned[w]
      BY <1>4, <2>3, QuietDoes, WaitedDoes, PopDoes, LockDoes, RingDoes, UnlockDoes,
         ReturnDoes DEF IonicStep, NInv, Unstored
    <3> QED
      BY <1>1, <2>3, <3>1 DEF End, Op
  <2> QED
    BY <2>1, <2>2, <2>3
<1>5. ASSUME NEW p \in Done .. Done + Depth - 1, Stored(p) PROVE Stored(p)'
  <2>1. p < sq_prod'
    BY <1>3, <1>5, IonicCounters DEF NInv, Stored
  <2>2. ASSUME NEW v \in Waves, Unstored(v)' PROVE p < base'[v] \/ End(v)' <= p
    BY <1>4, <1>5, <2>2 DEF Stored
  <2> QED
    BY <1>2, <1>5, <2>1, <2>2 DEF Stored
<1> QED
  BY <1>1, <1>2, <1>5 DEF Slots, NInv

(* The WQE the NIC executes is that of its position. *)
LEMMA NextStored ==
  ASSUME NInv, provider = "ionic", Execute
  PROVE  Stored(Done)
<1>1. Color(sq[Done % Depth].idx) = Color(Done)
  BY DEF Execute
<1>2. Done \in Done .. Done + Depth - 1 /\ Done \in Int
  BY IonicCounters DEF NInv
<1>3. Color(Done - Depth) # Color(Done)
  BY <1>2, ColorFlips
<1> QED
  BY <1>1, <1>2, <1>3 DEF NInv, Slots

LEMMA ExecuteInv ==
  ASSUME NInv, provider = "ionic", Execute, UNCHANGED ionicVars
  PROVE  NInv' /\ Done' = Done + 1
<1> DEFINE e == sq[Done % Depth]
<1>1. /\ UNCHANGED <<start, sq, db, reported, sqVars, call, pc>>
      /\ executed' = Append(executed, e)
  BY DEF Execute
<1>2. /\ e \in Wqes /\ e.idx = Done /\ Done < sq_prod
      /\ \A w \in Waves : Unstored(w) => Done < base[w] \/ End(w) <= Done
  BY NextStored DEF Stored
<1> HIDE DEF e
<1>3. executed' \in Seq(Wqes) /\ Len(executed') = Len(executed) + 1
      /\ executed'[Len(executed) + 1] = e
      /\ \A i \in 1 .. Len(executed) : executed'[i] = executed[i]
  BY <1>1, <1>2 DEF NInv, IonicTypes
<1>4. Done' = Done + 1
  BY <1>1, <1>3, IonicCounters DEF NInv, Done
<1>5. /\ UNCHANGED <<sq_prod, sq_dbprod, freelist, cons, provider, prog, returned, base, word>>
      /\ \A v \in Waves : /\ Op(v)' = Op(v) /\ End(v)' = End(v) /\ Calling(v)' = Calling(v)
                          /\ Unstored(v)' = Unstored(v)
  BY <1>1 DEF ionicVars, call, callVars, Op, End, Calling, Unstored
<1>6. IonicTypes'
  BY <1>1, <1>3, <1>5 DEF NInv, IonicTypes
<1>7. IonicWhere'
  BY <1>1, <1>5 DEF NInv, IonicWhere
<1>8. Positions'
  <2>1. ASSUME NEW v \in Waves, Unstored(v) PROVE Done + 1 <= base[v]
    <3>1. Done <= base[v]
      BY <2>1 DEF NInv, Positions, Reserved
    <3>2. Calling(v) /\ Op(v) # Quiet
      BY <2>1 DEF NInv, IonicWhere, Unstored
    <3>3. base[v] \in Nat /\ End(v) = base[v] + Op(v).lanes /\ Op(v).lanes \in Nat
          /\ 0 < Op(v).lanes
      BY <3>2, IonicOp DEF NInv
    <3> QED
      BY <1>2, <2>1, <3>1, <3>3, IonicCounters DEF NInv
  <2>2. \A v \in Waves : Reserved(v)'
    BY <1>1, <1>4, <1>5, <2>1 DEF NInv, Positions, Reserved
  <2>3. Disjoint'
    BY <1>5 DEF NInv, Positions, Disjoint
  <2>4. Bounded'
    <3>1. \A x \in Nat : Beyond(x)' = Beyond(x)
      BY <1>1, <1>5 DEF Beyond
    <3> QED
      BY <1>1, <1>5, <3>1 DEF NInv, Positions, Bounded
  <2>5. start' <= reported' /\ reported' <= Done' /\ Done' <= sq_prod'
    BY <1>1, <1>2, <1>4, <1>5, IonicCounters DEF NInv, Positions
  <2> QED
    BY <2>2, <2>3, <2>4, <2>5 DEF Positions
<1>9. Slots'
  <2> SUFFICES ASSUME NEW p \in Done + 1 .. Done + Depth
               PROVE  sq[p % Depth].idx = p - Depth \/ Stored(p)'
    <3>1. \A p \in Done' .. Done' + Depth - 1 : p \in Done + 1 .. Done + Depth
      BY <1>4, IonicCounters DEF NInv
    <3> QED
      BY <1>1, <3>1 DEF Slots
  <2>1. CASE p = Done + Depth
    <3>1. p % Depth = Done % Depth
      BY <2>1, IonicCounters, NextLap DEF NInv
    <3> QED
      <4>1. sq[p % Depth] = e
        BY <3>1 DEF e
      <4>2. p - Depth = Done
        BY <2>1, IonicCounters DEF NInv
      <4> QED
        BY <1>2, <4>1, <4>2
  <2>2. CASE p # Done + Depth
    <3>1. p \in Done .. Done + Depth - 1
      BY <2>2, IonicCounters DEF NInv
    <3>2. Stored(p) => Stored(p)'
      BY <1>1, <1>5 DEF Stored
    <3> QED
      BY <3>1, <3>2 DEF NInv, Slots
  <2> QED
    BY <2>1, <2>2
<1>10. OnceInOrder'
  <2> SUFFICES ASSUME NEW i \in 1 .. Len(executed) + 1
               PROVE  executed'[i].idx = start + i - 1 /\ executed'[i].call # NoCall
    BY <1>1, <1>3 DEF OnceInOrder
  <2>1. CASE i \in 1 .. Len(executed)
    BY <1>3, <2>1 DEF NInv, OnceInOrder
  <2>2. CASE i = Len(executed) + 1
    <3>1. e.call # NoCall
      <4>1. e \in Wqes
        BY <1>2
      <4>2. e.call \in Callers
        BY <4>1 DEF Wqes
      <4>3. PICK w \in Waves, k \in Nat, l \in Nat : e.call = <<w, k, l>>
        BY <4>2 DEF Callers
      <4>4. Len(e.call) = 3
        BY <4>3
      <4> QED
        BY <4>4 DEF NoCall
    <3>2. start + i - 1 = Done
      BY <2>2, IonicCounters DEF NInv
    <3> QED
      BY <1>2, <1>3, <2>2, <3>1, <3>2
  <2> QED
    BY <2>1, <2>2, IonicCounters DEF NInv
<1> QED
  BY <1>4, <1>6, <1>7, <1>8, <1>9, <1>10 DEF NInv

LEMMA ReportInv ==
  ASSUME NInv, provider = "ionic", Report, UNCHANGED ionicVars
  PROVE  NInv' /\ reported <= reported'
<1>1. UNCHANGED <<start, sq, db, executed, sqVars, call, pc>>
  BY DEF Report
<1>2. PICK i \in reported + 1 .. Done : reported' = i
  BY DEF Report
<1>3. /\ Done' = Done /\ reported' \in Nat /\ reported <= reported' /\ reported' <= Done
      /\ start <= reported'
  <2>1. Done' = Done
    BY <1>1 DEF Done
  <2> QED
    BY <1>2, <2>1, IonicCounters DEF NInv, Positions
<1>4. /\ UNCHANGED <<sq_prod, sq_dbprod, freelist, cons, provider, prog, returned, base, word>>
      /\ \A v \in Waves : /\ Op(v)' = Op(v) /\ End(v)' = End(v) /\ Calling(v)' = Calling(v)
                          /\ Unstored(v)' = Unstored(v)
  BY <1>1 DEF ionicVars, call, callVars, Op, End, Calling, Unstored
<1>5. IonicTypes' /\ IonicWhere'
  BY <1>1, <1>3, <1>4 DEF NInv, IonicTypes, IonicWhere
<1>6. Positions'
  <2>1. ASSUME NEW v \in Waves PROVE Reserved(v)'
    <3>1. pc[v] \in {"pop", "write"} => End(v) <= reported' + Depth - 1
      <4>1. pc[v] \in {"pop", "write"} => End(v) \in Nat
        BY IonicOp DEF NInv, IonicWhere
      <4>2. pc[v] \in {"pop", "write"} => End(v) <= reported + Depth - 1
        BY DEF NInv, Positions, Reserved
      <4> QED
        BY <1>3, <4>1, <4>2, IonicCounters DEF NInv
    <3> QED
      BY <1>1, <1>3, <1>4, <3>1 DEF NInv, Positions, Reserved
  <2>2. Disjoint'
    BY <1>4 DEF NInv, Positions, Disjoint
  <2>3. Bounded'
    <3>1. ASSUME NEW x \in Nat, reported' + Depth - 1 <= x
          PROVE  sq_prod - x <= WfSize * Cardinality(Beyond(x)) /\ Beyond(x)' = Beyond(x)
      <4>1. reported + Depth - 1 <= x
        BY <1>3, <3>1, IonicCounters DEF NInv
      <4> QED
        BY <1>1, <1>4, <4>1 DEF Beyond, NInv, Positions, Bounded
    <3> QED
      BY <1>4, <3>1 DEF Bounded
  <2>4. start' <= reported' /\ reported' <= Done' /\ Done' <= sq_prod'
    BY <1>1, <1>3, <1>4 DEF NInv, Positions
  <2> QED
    BY <2>1, <2>2, <2>3, <2>4 DEF Positions
<1>7. Slots' /\ OnceInOrder'
  BY <1>1, <1>3, <1>4 DEF NInv, Slots, Stored, OnceInOrder
<1> QED
  BY <1>3, <1>5, <1>6, <1>7 DEF NInv

LEMMA IonicStutter ==
  ASSUME NInv, UNCHANGED IonicState
  PROVE  NInv'
<1>1. /\ UNCHANGED <<start, sq, db, executed, reported, provider, prog, returned, base, word>>
      /\ UNCHANGED <<pc, sq_prod, sq_dbprod, freelist, cons>>
  BY DEF IonicState, nicVars, call, callVars, ionicVars
<1>2. \A v \in Waves : /\ Op(v)' = Op(v) /\ End(v)' = End(v) /\ Calling(v)' = Calling(v)
                       /\ Unstored(v)' = Unstored(v)
  BY <1>1 DEF Op, End, Calling, Unstored
<1>3. Done' = Done /\ \A x \in Nat : Beyond(x)' = Beyond(x)
  BY <1>1, <1>2 DEF Done, Beyond
<1>4. IonicTypes' /\ IonicWhere'
  BY <1>1, <1>2 DEF NInv, IonicTypes, IonicWhere
<1>5. Positions'
  BY <1>1, <1>2, <1>3 DEF NInv, Positions, Reserved, Disjoint, Bounded
<1>6. Slots' /\ OnceInOrder'
  BY <1>1, <1>2, <1>3 DEF NInv, Slots, Stored, OnceInOrder
<1> QED
  BY <1>4, <1>5, <1>6 DEF NInv

LEMMA InitSlots ==
  ASSUME NEW s \in Starts, NicInit(s), NEW p \in s .. s + Depth - 1
  PROVE  sq[p % Depth].idx = p - Depth
<1>1. s \in Nat /\ Depth \in Nat \ {0} /\ p \in Int
  BY QueuePairAssumption
<1> DEFINE k == p % Depth
           P(i) == i % Depth = k
<1>2. k \in 0 .. Depth - 1 /\ p = Depth * (p \div Depth) + k /\ p \div Depth \in Int
  BY <1>1, DivMod
<1>3. p - Depth \in s - Depth .. s - 1
  BY <1>1
<1>4. P(p - Depth)
  <2>1. p - Depth \in Int /\ (p - Depth) + Depth = p
    BY <1>1
  <2>2. ((p - Depth) + Depth) % Depth = (p - Depth) % Depth
    BY <2>1, NextLap
  <2> QED
    BY <2>1, <2>2
<1>5. ASSUME NEW i \in s - Depth .. s - 1, P(i) PROVE i = p - Depth
  <2>1. i \in Int /\ i < (p - Depth) + Depth /\ p - Depth < i + Depth /\ p - Depth \in Int
    BY <1>1
  <2>2. ~(i < p - Depth) /\ ~(p - Depth < i)
    BY <1>1, <1>4, <1>5, <2>1, ModApart
  <2> QED
    BY <2>1, <2>2
<1> HIDE DEF P
<1>6. (CHOOSE i \in s - Depth .. s - 1 : P(i)) = p - Depth
  BY <1>3, <1>4, <1>5
<1>7. sq[k].idx = CHOOSE i \in s - Depth .. s - 1 : P(i)
  <2> HIDE DEF k
  <2> QED
    BY <1>2 DEF NicInit, P
<1> QED
  BY <1>6, <1>7

LEMMA IonicInitInv == Init /\ provider = "ionic" => NInv
<1> SUFFICES ASSUME Init, provider = "ionic" PROVE NInv
  OBVIOUS
<1>1. PICK s \in Starts : NicInit(s)
  BY DEF Init
<1>2. /\ start = s /\ db = s /\ reported = s /\ sq_prod = s /\ sq_dbprod = s /\ s \in Nat
      /\ executed = <<>> /\ Depth \in Nat \ {0} /\ freelist = Buffers
  BY <1>1, QueuePairAssumption DEF Init, NicInit, IonicInit
<1>3. Done = s
  BY <1>2 DEF Done
<1>4. \A w \in Waves : pc[w] = "out" /\ returned[w] = 0
  BY <1>1 DEF NicInit
<1>5. prog \in [Waves -> Seq(Posts \cup {Quiet})]
  BY <1>1, QueuePairAssumption DEF NicInit
<1>6. IonicTypes
  <2>1. Buffers \in Seq(Int)
    <3>1. FetchCnt \div WfSize \in Nat
      BY QueuePairAssumption
    <3>2. \A b \in 1 .. FetchCnt \div WfSize : (b - 1) * WfSize \in Int
      BY QueuePairAssumption
    <3> QED
      BY <3>1, <3>2 DEF Buffers
  <2>2. /\ returned \in [Waves -> Nat] /\ base \in [Waves -> Nat]
        /\ word \in [Waves -> Int] /\ cons \in [Waves -> Int] /\ executed \in Seq(Wqes)
    BY <1>1, <1>2 DEF Init, NicInit, IonicInit, NoWord
  <2>3. pc \in [Waves -> {"out"}]
    BY <1>1 DEF NicInit
  <2> QED
    BY <1>2, <1>5, <2>1, <2>2, <2>3 DEF IonicTypes
<1>7. IonicWhere
  <2>1. ASSUME NEW w \in Waves PROVE returned[w] <= Len(prog[w])
    <3>1. prog[w] \in Seq(Posts \cup {Quiet}) /\ returned[w] = 0
      BY <1>4, <1>5
    <3>2. Len(prog[w]) \in Nat
      BY <3>1
    <3> QED
      BY <3>1, <3>2
  <2> QED
    BY <1>4, <2>1 DEF IonicWhere, Unstored, Storing, Waiting
<1>8. Positions
  <2>1. ASSUME NEW x \in Nat, reported + Depth - 1 <= x
        PROVE  sq_prod - x <= WfSize * Cardinality(Beyond(x))
    BY <1>2, <2>1, BeyondCard
  <2>2. \A w \in Waves : Reserved(w)
    BY <1>4 DEF Reserved, Unstored, Storing
  <2>3. Disjoint
    BY <1>4 DEF Disjoint, Unstored
  <2>4. start <= reported /\ reported <= Done /\ Done <= sq_prod
    BY <1>2, <1>3
  <2> QED
    BY <2>1, <2>2, <2>3, <2>4 DEF Positions, Bounded
<1>9. Slots
  BY <1>1, <1>3, InitSlots DEF Slots
<1>10. OnceInOrder
  <2>1. Len(executed) = 0
    BY <1>2
  <2> QED
    BY <2>1 DEF OnceInOrder
<1> QED
  BY <1>6, <1>7, <1>8, <1>9, <1>10 DEF NInv

LEMMA IonicStepInv ==
  ASSUME NInv, provider = "ionic", [Next]_vars
  PROVE  NInv'
<1>1. ASSUME NEW w \in Waves, IonicStep(w) PROVE NInv'
  <2>1. IonicTypes' /\ IonicWhere'
    BY <1>1, IonicStepTypes, IonicStepWhere DEF NInv
  <2>2. Positions'
    BY <1>1, ReservePositions, StayPositions DEF NInv
  <2>3. Slots'
    BY <1>1, StoreSlots, StaySlots
  <2>4. OnceInOrder'
    BY <1>1, IonicMoves DEF NInv, OnceInOrder
  <2> QED
    BY <2>1, <2>2, <2>3, <2>4 DEF NInv
<1> QED
  BY <1>1, IonicCases, ExecuteInv, ReportInv, IonicStutter

LEMMA IonicInvariant == Spec => [](provider = "ionic" => NInv)
<1> DEFINE I == provider = "ionic" => NInv
<1>1. Init => I
  BY IonicInitInv
<1>2. I /\ [Next]_vars => I'
  BY ProviderStays, IonicStepInv
<1> QED
  BY <1>1, <1>2, PTL DEF Spec

(* The NIC executes the WQE of every position once, in order, although a   *)
(* doorbell may cover positions that are not yet stored: the colors stop   *)
(* it there (reserve_sq, commit_sq, the color flag of the WQEs).           *)
THEOREM IonicInOrder == Spec => [](provider = "ionic" => OnceInOrder)
<1>1. (provider = "ionic" => NInv) => (provider = "ionic" => OnceInOrder)
  BY DEF NInv
<1> QED
  BY <1>1, IonicInvariant, PTL

----------------------------------------------------------------------------
(* A quiet waits for all its caller has posted.                            *)

LEMMA StoredType ==
  ASSUME NInv, NEW i \in Position, Has(i)
  PROVE  /\ i \in Nat /\ Entry(i) \in Wqes /\ i < sq_prod
         /\ ~(i < Done) => Stored(i) /\ Entry(i) = sq[i % Depth]
<1>1. /\ i \in Nat /\ start <= i /\ Done \in Nat /\ Done <= sq_prod /\ sq_prod \in Nat
      /\ Depth \in Nat \ {0}
  BY IonicCounters DEF Position, NInv, Positions
<1>2. CASE i < Done
  <2>1. i - start + 1 \in 1 .. Len(executed)
    BY <1>1, <1>2, IonicCounters DEF NInv
  <2> QED
    BY <1>1, <1>2, <2>1 DEF Entry, NInv, IonicTypes
<1>3. CASE ~(i < Done)
  <2>1. i \in Done .. Done + Depth - 1 /\ sq[i % Depth].idx = i
    BY <1>1, <1>3 DEF Has
  <2>2. i # i - Depth
    BY <1>1
  <2>3. Stored(i)
    BY <2>1, <2>2 DEF NInv, Slots
  <2> QED
    BY <1>1, <1>3, <2>3 DEF Entry, Stored
<1> QED
  BY <1>2, <1>3

LEMMA StayEntries ==
  ASSUME NInv, provider = "ionic", [Next]_vars, NEW i \in Position,
         \A w \in Waves : ~IonicStore(w)
  PROVE  (Has(i)' <=> Has(i)) /\ (Has(i) => Entry(i)' = Entry(i))
<1>1. CASE UNCHANGED <<start, executed, sq>>
  BY <1>1 DEF Has, Entry, Done
<1>2. CASE Execute /\ UNCHANGED ionicVars
  <2> DEFINE e == sq[Done % Depth]
  <2>1. executed' = Append(executed, e) /\ sq' = sq /\ start' = start
    BY <1>2 DEF Execute
  <2>2. Stored(Done)
    BY <1>2, NextStored
  <2>3. e \in Wqes /\ e.idx = Done
    BY <2>2 DEF Stored
  <2> HIDE DEF e
  <2>4. /\ executed'[Len(executed) + 1] = e
        /\ \A j \in 1 .. Len(executed) : executed'[j] = executed[j]
    BY <2>1, <2>3 DEF NInv, IonicTypes
  <2>5. Done' = Done + 1
    BY <1>2, ExecuteInv
  <2>6. i \in Nat /\ start <= i /\ Done \in Nat /\ Depth \in Nat \ {0} /\ start \in Nat
        /\ Len(executed) \in Nat /\ Done = start + Len(executed)
    BY IonicCounters DEF Position, NInv
  <2>7. CASE i < Done
    <3>1. i - start + 1 \in 1 .. Len(executed) /\ i < Done'
      BY <2>5, <2>6, <2>7
    <3> QED
      BY <2>1, <2>4, <2>7, <3>1 DEF Has, Entry
  <2>8. CASE i = Done
    <3>1. i - start + 1 = Len(executed) + 1 /\ i < Done' /\ ~(i < Done) /\ i < Done + Depth
      BY <2>5, <2>6, <2>8
    <3>2. Has(i) /\ Has(i)'
      BY <2>3, <2>8, <3>1 DEF Has, e
    <3>3. Entry(i)' = e /\ Entry(i) = e
      BY <2>1, <2>4, <2>8, <3>1 DEF Entry, e
    <3> QED
      BY <3>2, <3>3
  <2>9. CASE Done < i /\ i < Done + Depth
    <3>1. ~(i < Done') /\ ~(i < Done) /\ i < Done' + Depth
      BY <2>5, <2>6, <2>9
    <3> QED
      BY <2>1, <2>9, <3>1 DEF Has, Entry
  <2>10. CASE Done + Depth <= i
    <3>1. ~(i < Done) /\ ~(i < Done + Depth)
      BY <2>6, <2>10
    <3>2. ~Has(i)
      BY <3>1 DEF Has
    <3>3. ~Has(i)'
      <4> SUFFICES ASSUME Has(i)' PROVE FALSE
        OBVIOUS
      <4>1. i \in Position' /\ NInv'
        BY <1>2, <2>1, ExecuteInv DEF Position
      <4>2. i < Done' + Depth /\ ~(i < Done') /\ sq'[i % Depth].idx = i
        BY <2>5, <2>6, <2>10 DEF Has
      <4>3. i = Done + Depth
        BY <2>5, <2>6, <2>10, <4>2
      <4>4. i - Depth = Done
        BY <2>6, <4>3
      <4>5. i % Depth = Done % Depth
        BY <2>6, <4>3, NextLap
      <4>6. sq'[i % Depth].idx = Done
        BY <2>1, <2>3, <4>5 DEF e
      <4> QED
        BY <2>6, <4>2, <4>3, <4>6
    <3> QED
      BY <3>2, <3>3
  <2> QED
    BY <2>6, <2>7, <2>8, <2>9, <2>10
<1>3. CASE Report
  BY <1>1, <1>3 DEF Report
<1>4. ASSUME NEW w \in Waves, IonicStep(w)
      PROVE  UNCHANGED <<start, executed, sq>>
  <2>1. sq' = sq
    BY <1>4, ReserveDoes, QuietDoes, WaitedDoes, PopDoes, LockDoes, RingDoes, UnlockDoes,
       ReturnDoes DEF IonicStep, NInv
  <2> QED
    BY <1>4, <2>1, IonicMoves DEF NInv
<1>5. UNCHANGED IonicState => UNCHANGED <<start, executed, sq>>
  BY DEF IonicState, nicVars
<1> QED
  BY <1>1, <1>2, <1>3, <1>4, <1>5, IonicCases

(* A store adds the WQEs of its positions. *)
LEMMA StoreEntries ==
  ASSUME NInv, provider = "ionic", NEW w \in Waves, IonicStore(w), NEW i \in Position
  PROVE  /\ base[w] <= i /\ i < End(w) =>
              /\ ~Has(i) /\ Has(i)' /\ Entry(i)' = Wqe(w, i - base[w])
              /\ i - base[w] \in 0 .. Op(w).lanes - 1
         /\ ~(base[w] <= i /\ i < End(w)) => (Has(i)' <=> Has(i))
         /\ Has(i) => Entry(i)' = Entry(i)
<1>1. UNCHANGED <<start, executed>> /\ Done' = Done
  BY IonicMoves DEF NInv, IonicStep, Done
<1>2. pc[w] = "write" /\ Calling(w) /\ Op(w) # Quiet
  BY StoreDoes DEF NInv, IonicWhere, Unstored
<1>3. /\ i \in Nat /\ start <= i /\ Done \in Nat /\ Depth \in Nat \ {0} /\ reported \in Nat
      /\ base[w] \in Nat /\ End(w) \in Nat /\ Done <= base[w] /\ reported <= Done
      /\ End(w) <= reported + Depth - 1
  BY <1>2, IonicOp, IonicCounters DEF Position, NInv, Positions, Reserved, Unstored
<1>4. CASE base[w] <= i /\ i < End(w)
  <2>1. i \in Done .. Done + Depth - 1 /\ ~(i < Done) /\ i < Done + Depth
    BY <1>3, <1>4
  <2>2. sq'[i % Depth] = Wqe(w, i - base[w]) /\ i - base[w] \in 0 .. Op(w).lanes - 1
    BY <1>4, <2>1, StoreWindow
  <2>3. sq'[i % Depth].idx = i
    <3>1. Wqe(w, i - base[w]).idx = base[w] + (i - base[w])
      BY <1>2, <2>2, IonicWqe DEF NInv
    <3> QED
      BY <1>3, <2>2, <3>1
  <2>4. ~Has(i)
    <3> SUFFICES ASSUME Has(i) PROVE FALSE
      OBVIOUS
    <3>1. i < base[w] \/ End(w) <= i
      BY <1>2, <2>1, StoredType DEF Stored, Unstored
    <3> QED
      BY <1>3, <1>4, <3>1
  <2>5. Has(i)' /\ Entry(i)' = sq'[i % Depth]
    BY <1>1, <2>1, <2>3 DEF Has, Entry
  <2> QED
    BY <1>4, <2>2, <2>4, <2>5
<1>5. CASE ~(base[w] <= i /\ i < End(w))
  <2>1. CASE i < Done
    BY <1>1, <1>5, <2>1 DEF Has, Entry
  <2>2. CASE i \in Done .. Done + Depth - 1
    <3>1. sq'[i % Depth] = sq[i % Depth]
      BY <1>5, <2>2, StoreWindow
    <3> QED
      BY <1>1, <1>5, <3>1 DEF Has, Entry
  <2>3. CASE Done + Depth <= i
    <3>1. ~(i < Done) /\ ~(i < Done + Depth)
      BY <1>3, <2>3
    <3> QED
      BY <1>1, <1>5, <3>1 DEF Has
  <2> QED
    BY <1>3, <2>1, <2>2, <2>3
<1> QED
  BY <1>4, <1>5

(* A wavefront that stores nothing keeps what it has stored. *)
LEMMA OwnStays ==
  ASSUME NInv, provider = "ionic", [Next]_vars, NEW v \in Waves, ~IonicStore(v)
  PROVE  /\ Position' = Position
         /\ \A i \in Position : /\ OwnEntry(i, v)' <=> OwnEntry(i, v)
                                /\ Has(i) => Entry(i)' = Entry(i)
         /\ \A i \in Position : \A k : (Has(i) /\ OfCall(i, v, k))' <=> Has(i) /\ OfCall(i, v, k)
<1>1. start' = start
  <2>1. IonicState' = IonicState => start' = start
    BY DEF IonicState, nicVars
  <2> QED
    BY <2>1, IonicCases, IonicMoves DEF NInv, Execute, Report
<1>2. ASSUME NEW i \in Position
      PROVE  (OwnEntry(i, v)' <=> OwnEntry(i, v)) /\ (Has(i) => Entry(i)' = Entry(i))
  <2>1. CASE \A w \in Waves : ~IonicStore(w)
    BY <2>1, StayEntries DEF OwnEntry
  <2>2. ASSUME NEW w \in Waves, IonicStore(w)
        PROVE  (OwnEntry(i, v)' <=> OwnEntry(i, v)) /\ (Has(i) => Entry(i)' = Entry(i))
    <3>1. Calling(w) /\ Op(w) # Quiet /\ v # w
      BY <2>2, StoreDoes DEF NInv, IonicWhere, Unstored
    <3>2. CASE base[w] <= i /\ i < End(w)
      <4>1. ~Has(i) /\ Has(i)' /\ Entry(i)' = Wqe(w, i - base[w])
            /\ i - base[w] \in 0 .. Op(w).lanes - 1
        BY <2>2, <3>2, StoreEntries
      <4>2. Wqe(w, i - base[w]).call[1] = w
        <5>1. Wqe(w, i - base[w]).call = <<w, returned[w] + 1, i - base[w]>>
          BY <3>1, <4>1, IonicWqe DEF NInv
        <5> QED
          BY <5>1
      <4> QED
        BY <3>1, <4>1, <4>2 DEF OwnEntry
    <3>3. CASE ~(base[w] <= i /\ i < End(w))
      BY <2>2, <3>3, StoreEntries DEF OwnEntry
    <3> QED
      BY <3>2, <3>3
  <2> QED
    BY <2>1, <2>2
<1>3. ASSUME NEW i \in Position, NEW k
      PROVE  (Has(i) /\ OfCall(i, v, k))' <=> Has(i) /\ OfCall(i, v, k)
  <2>1. Has(i) /\ OfCall(i, v, k) <=> OwnEntry(i, v) /\ Entry(i).call[2] = k
    BY DEF OwnEntry, OfCall
  <2>2. (Has(i) /\ OfCall(i, v, k))' <=> OwnEntry(i, v)' /\ Entry(i)'.call[2] = k
    BY DEF OwnEntry, OfCall
  <2>3. OwnEntry(i, v) => Has(i)
    BY DEF OwnEntry
  <2> QED
    BY <1>2, <2>1, <2>2, <2>3
<1> QED
  BY <1>1, <1>2, <1>3 DEF Position

LEMMA KeepsPlace ==
  ASSUME NQInv, provider = "ionic", [Next]_vars, NEW v \in Waves, ~IonicStore(v),
         prog' = prog, StoredCalls(v)' = StoredCalls(v)
  PROVE  PlacedOf(v)'
<1>1. PlacedOf(v) /\ NInv
  BY DEF NQInv
<1>2. ASSUME NEW k \in 1 .. StoredCalls(v)
      PROVE  \E b \in Position' : StoredBlock(v, k, b)'
  <2>1. PICK b \in Position : StoredBlock(v, k, b)
    BY <1>1 DEF PlacedOf
  <2>2. StoredBlock(v, k, b)'
    BY <1>1, <2>1, OwnStays DEF StoredBlock
  <2> QED
    BY <1>1, <2>2, OwnStays
<1>3. ASSUME NEW i \in Position', OwnEntry(i, v)'
      PROVE  Entry(i)'.call[2] \in 1 .. StoredCalls(v)
  <2>1. i \in Position /\ OwnEntry(i, v) /\ Entry(i)' = Entry(i)
    BY <1>1, <1>3, OwnStays DEF OwnEntry
  <2> QED
    BY <1>1, <2>1 DEF PlacedOf
<1> QED
  BY <1>2, <1>3 DEF PlacedOf

LEMMA KeepsBefore ==
  ASSUME NInv, provider = "ionic", [Next]_vars, NEW v \in Waves, ~IonicStore(v),
         NEW x \in Int, NEW y \in Int, AllBefore(v, x), x <= y
  PROVE  \A i \in Position' : OwnEntry(i, v)' => i < y
<1> SUFFICES ASSUME NEW i \in Position', OwnEntry(i, v)' PROVE i < y
  OBVIOUS
<1>1. i \in Position /\ OwnEntry(i, v)
  BY OwnStays
<1>2. i < x /\ i \in Nat
  BY <1>1 DEF AllBefore, Position
<1> QED
  BY <1>2

LEMMA BelowProd ==
  ASSUME NInv, NEW v \in Waves
  PROVE  AllBefore(v, sq_prod)
  BY StoredType DEF AllBefore, OwnEntry

(* Another wavefront's step, or the NIC's, leaves a wavefront covered. *)
LEMMA OtherCovered ==
  ASSUME NQInv, provider = "ionic", [Next]_vars, NEW v \in Waves, ~IonicStore(v),
         pc'[v] = pc[v], returned'[v] = returned[v], base'[v] = base[v],
         cons'[v] = cons[v], prog' = prog, reported <= reported', reported' \in Nat
  PROVE  PlacedOf(v)' /\ CoveredOf(v)'
<1>1. NInv /\ CoveredOf(v) /\ reported \in Nat /\ cons[v] \in Int
  BY IonicCounters DEF NQInv, NInv, IonicTypes
<1>2. /\ Op(v)' = Op(v) /\ End(v)' = End(v) /\ Unstored(v)' = Unstored(v)
      /\ Quieted(v)' = Quieted(v) /\ StoredCalls(v)' = StoredCalls(v)
  BY DEF Op, End, Unstored, Quieted, StoredCalls
<1>3. PlacedOf(v)'
  BY <1>2, KeepsPlace
<1>4. Unstored(v) \/ pc[v] \in Storing => AllBefore(v, End(v))'
  <2>1. Unstored(v) \/ pc[v] \in Storing => AllBefore(v, End(v)) /\ End(v) \in Int
    BY <1>1, IonicOp DEF CoveredOf, NInv, IonicWhere, Unstored, Storing
  <2> QED
    BY <1>1, <1>2, <2>1, KeepsBefore DEF AllBefore
<1>5. pc[v] = "wait" => AllBefore(v, cons[v])'
  BY <1>1, KeepsBefore DEF AllBefore, CoveredOf
<1>6. Quieted(v) => AllBefore(v, reported)'
  BY <1>1, KeepsBefore DEF AllBefore, CoveredOf
<1> QED
  BY <1>2, <1>3, <1>4, <1>5, <1>6 DEF CoveredOf

LEMMA OwnCovered ==
  ASSUME NQInv, provider = "ionic", [Next]_vars, NEW w \in Waves, IonicStep(w),
         ~IonicStore(w)
  PROVE  PlacedOf(w)' /\ CoveredOf(w)'
<1>1. NInv /\ PlacedOf(w) /\ CoveredOf(w)
  BY DEF NQInv
<1>2. UNCHANGED <<prog, reported, start>>
  BY <1>1, IonicMoves DEF NInv
<1>3. /\ returned[w] \in Nat /\ cons[w] \in Int /\ reported \in Nat /\ sq_prod \in Nat
      /\ AllBefore(w, sq_prod) /\ Position' = Position
  BY <1>1, <1>2, IonicCounters, BelowProd DEF NInv, IonicTypes, Position
<1>4. CASE IonicReserve(w)
  <2>1. /\ pc[w] = "out" /\ pc'[w] = "room" /\ Calling(w) /\ Op(w) # Quiet
        /\ base'[w] = sq_prod /\ returned' = returned
    BY <1>1, <1>4, ReserveDoes DEF NInv
  <2>2. Op(w).lanes \in Nat /\ Op(w)' = Op(w) /\ End(w)' = sq_prod + Op(w).lanes
    BY <1>1, <1>2, <2>1, IonicOp DEF NInv, End, Op
  <2>3. StoredCalls(w)' = StoredCalls(w)
    BY <2>1 DEF StoredCalls, Storing, Waiting
  <2>4. AllBefore(w, End(w))'
    BY <1>1, <1>3, <2>2, KeepsBefore DEF AllBefore
  <2>5. PlacedOf(w)'
    BY <1>2, <2>3, KeepsPlace
  <2> QED
    BY <2>1, <2>4, <2>5 DEF CoveredOf, Quieted
<1>5. CASE IonicQuiet(w)
  <2>1. /\ pc[w] = "out" /\ pc'[w] = "wait" /\ Op(w) = Quiet /\ cons'[w] = sq_prod
        /\ returned' = returned
    BY <1>1, <1>5, QuietDoes DEF NInv
  <2>2. StoredCalls(w)' = returned[w] + 1 /\ StoredCalls(w) = returned[w]
    BY <1>3, <2>1 DEF StoredCalls, Storing, Waiting
  <2>3. AllBefore(w, cons[w])'
    BY <1>1, <1>3, <2>1, KeepsBefore DEF AllBefore
  <2>4. ASSUME NEW k \in 1 .. returned[w] + 1
        PROVE  \E b \in Position' : StoredBlock(w, k, b)'
    <3>1. CASE k \in 1 .. returned[w]
      <4>1. PICK b \in Position : StoredBlock(w, k, b)
        BY <1>1, <2>2, <3>1 DEF PlacedOf
      <4>2. StoredBlock(w, k, b)'
        BY <1>1, <1>2, <4>1, OwnStays DEF StoredBlock
      <4> QED
        BY <1>3, <4>2
    <3>2. CASE k = returned[w] + 1
      <4>1. prog[w][k].lanes = 0
        BY <2>1, <3>2 DEF Op, Quiet
      <4>2. \A i \in Position : ~(Has(i) /\ OfCall(i, w, k))
        BY <1>1, <1>3, <2>2, <3>2 DEF PlacedOf, OwnEntry, OfCall
      <4>3. start \in Position
        BY <1>1, IonicCounters DEF Position, NInv
      <4>4. StoredBlock(w, k, start)'
        <5>1. \A i \in Position : ~(start <= i /\ i < start + 0)
          BY <1>1, IonicCounters DEF Position, NInv
        <5> QED
          BY <1>1, <1>2, <1>3, <4>1, <4>2, <5>1, OwnStays DEF StoredBlock
      <4>5. PICK b \in Position' : b = start
        BY <1>3, <4>3
      <4>6. StoredBlock(w, k, b)'
        BY <1>2, <4>4, <4>5 DEF StoredBlock
      <4> QED
        BY <4>6
    <3> QED
      BY <1>3, <3>1, <3>2
  <2>5. ASSUME NEW i \in Position', OwnEntry(i, w)'
        PROVE  Entry(i)'.call[2] \in 1 .. returned[w] + 1
    <3>1. i \in Position /\ OwnEntry(i, w) /\ Entry(i)' = Entry(i)
      BY <1>1, <2>5, OwnStays DEF OwnEntry
    <3>2. Entry(i).call[2] \in 1 .. returned[w]
      BY <1>1, <2>2, <3>1 DEF PlacedOf
    <3> QED
      BY <1>3, <3>1, <3>2
  <2>6. PlacedOf(w)'
    BY <2>2, <2>4, <2>5 DEF PlacedOf
  <2> QED
    BY <2>1, <2>3, <2>6 DEF CoveredOf, Quieted, Unstored, Storing
<1>6. CASE IonicWaited(w)
  <2>1. /\ \/ pc[w] = "room" /\ pc'[w] \in {"pop", "write"}
           \/ pc[w] = "wait" /\ pc'[w] = "done"
        /\ UNCHANGED <<returned, base, cons>>
    BY <1>1, <1>6, WaitedDoes DEF NInv
  <2>2. cons[w] <= reported
    BY <1>1, <1>6, WaitFinds DEF NInv
  <2>3. Op(w)' = Op(w) /\ End(w)' = End(w)
    BY <1>2, <2>1 DEF Op, End
  <2>4. StoredCalls(w)' = StoredCalls(w)
    BY <2>1 DEF StoredCalls, Storing, Waiting
  <2>5. PlacedOf(w)'
    BY <1>2, <2>4, KeepsPlace
  <2>6. CASE pc[w] = "room"
    <3>1. AllBefore(w, End(w)) /\ End(w) \in Int
      BY <1>1, <2>6, IonicOp DEF CoveredOf, Unstored, NInv, IonicWhere
    <3>2. AllBefore(w, End(w))'
      BY <1>1, <2>3, <3>1, KeepsBefore DEF AllBefore
    <3> QED
      BY <2>1, <2>5, <2>6, <3>2 DEF CoveredOf, Quieted
  <2>7. CASE pc[w] = "wait"
    <3>1. AllBefore(w, cons[w])
      BY <1>1, <2>7 DEF CoveredOf
    <3>2. AllBefore(w, reported)'
      BY <1>1, <1>2, <1>3, <2>2, <3>1, KeepsBefore DEF AllBefore
    <3> QED
      BY <2>1, <2>5, <2>7, <3>2 DEF CoveredOf, Unstored, Storing
  <2> QED
    BY <2>1, <2>6, <2>7
<1>7. CASE IonicPopBuffer(w) \/ IonicLock(w) \/ IonicRing(w)
  <2>1. /\ \/ pc[w] = "pop" /\ pc'[w] = "write"
           \/ pc[w] \in Storing /\ pc'[w] \in Storing
        /\ UNCHANGED <<returned, base>>
    BY <1>1, <1>7, PopDoes, LockDoes, RingDoes DEF NInv, Storing
  <2>2. Op(w)' = Op(w) /\ End(w)' = End(w) /\ StoredCalls(w)' = StoredCalls(w)
    BY <1>2, <2>1 DEF Op, End, StoredCalls, Storing, Waiting
  <2>3. PlacedOf(w)'
    BY <1>2, <2>2, KeepsPlace
  <2>4. AllBefore(w, End(w)) /\ End(w) \in Int
    BY <1>1, <2>1, IonicOp DEF CoveredOf, Unstored, Storing, NInv, IonicWhere
  <2>5. AllBefore(w, End(w))'
    BY <1>1, <2>2, <2>4, KeepsBefore DEF AllBefore
  <2> QED
    BY <2>1, <2>3, <2>5 DEF CoveredOf, Quieted, Unstored, Storing
<1>8. CASE IonicUnlock(w)
  <2>1. /\ pc[w] = "unlock" /\ cons'[w] = End(w)
        /\ \/ Op(w).op = "FETCH" /\ pc'[w] = "wait" /\ returned'[w] = returned[w]
           \/ Op(w).op # "FETCH" /\ pc'[w] = "out" /\ returned'[w] = returned[w] + 1
    BY <1>1, <1>8, UnlockDoes DEF NInv
  <2>2. StoredCalls(w)' = StoredCalls(w)
    BY <1>3, <2>1 DEF StoredCalls, Storing, Waiting
  <2>3. PlacedOf(w)'
    BY <1>2, <2>2, KeepsPlace
  <2>4. AllBefore(w, End(w)) /\ End(w) \in Int
    BY <1>1, <2>1, IonicOp DEF CoveredOf, Storing, NInv, IonicWhere
  <2>5. pc'[w] = "wait" => AllBefore(w, cons[w])'
    BY <1>1, <2>1, <2>4, KeepsBefore DEF AllBefore
  <2>6. ~Quieted(w)'
    <3>1. CASE pc'[w] = "wait"
      BY <3>1 DEF Quieted
    <3>2. CASE pc'[w] = "out"
      <4>1. returned'[w] = returned[w] + 1 /\ Op(w).op # "FETCH"
        BY <2>1, <3>2
      <4>2. Op(w).op # "QUIET"
        BY <1>1, <2>1, IonicOp DEF Storing, NInv, IonicWhere
      <4>3. prog'[w][returned'[w]] = Op(w)
        BY <1>2, <4>1 DEF Op
      <4> QED
        BY <3>2, <4>1, <4>2, <4>3 DEF Quieted
    <3> QED
      BY <2>1, <3>1, <3>2
  <2> QED
    BY <2>1, <2>3, <2>5, <2>6 DEF CoveredOf, Unstored, Storing
<1>9. CASE IonicReturn(w)
  <2>1. pc[w] = "done" /\ pc'[w] = "out" /\ returned'[w] = returned[w] + 1
    BY <1>1, <1>9, ReturnDoes DEF NInv
  <2>2. StoredCalls(w)' = StoredCalls(w)
    BY <1>3, <2>1 DEF StoredCalls, Storing, Waiting
  <2>3. PlacedOf(w)'
    BY <1>2, <2>2, KeepsPlace
  <2>4. AllBefore(w, reported)
    BY <1>1, <2>1 DEF CoveredOf, Quieted
  <2>5. AllBefore(w, reported)'
    BY <1>1, <1>2, <1>3, <2>4, KeepsBefore DEF AllBefore
  <2> QED
    BY <2>1, <2>3, <2>5 DEF CoveredOf, Unstored, Storing
<1> QED
  BY <1>4, <1>5, <1>6, <1>7, <1>8, <1>9 DEF IonicStep

LEMMA StoreCovered ==
  ASSUME NQInv, provider = "ionic", NEW w \in Waves, IonicStore(w)
  PROVE  PlacedOf(w)' /\ CoveredOf(w)'
<1> DEFINE n == Op(w).lanes
<1>1. NInv /\ PlacedOf(w) /\ CoveredOf(w)
  BY DEF NQInv
<1>2. UNCHANGED <<prog, start>> /\ Position' = Position
  BY <1>1, IonicMoves DEF NInv, IonicStep, Position
<1>3. /\ pc[w] = "write" /\ base' = base
      /\ \/ Rings(w) /\ pc'[w] = "commit" /\ returned'[w] = returned[w]
         \/ Op(w).op = "RMA" /\ pc'[w] = "out" /\ returned'[w] = returned[w] + 1
  BY <1>1, StoreDoes DEF NInv
<1>4. /\ Calling(w) /\ Op(w) # Quiet /\ n \in Nat /\ base[w] \in Nat /\ End(w) = base[w] + n
      /\ returned[w] \in Nat /\ start \in Nat
  <2>1. Calling(w) /\ Op(w) # Quiet
    BY <1>1, <1>3 DEF NInv, IonicWhere, Unstored
  <2> QED
    BY <1>1, <2>1, IonicOp DEF NInv, IonicTypes
<1>5. base[w] \in Position
  BY <1>1, <1>3, <1>4, IonicCounters DEF Position, NInv, Positions, Reserved, Unstored
<1>6. StoredCalls(w)' = returned[w] + 1 /\ StoredCalls(w) = returned[w]
  BY <1>3, <1>4 DEF StoredCalls, Storing, Waiting
<1>7. ASSUME NEW i \in Position
      PROVE  /\ base[w] <= i /\ i < End(w) =>
                  /\ ~Has(i) /\ Has(i)'
                  /\ Entry(i)'.call[1] = w /\ Entry(i)'.call[2] = returned[w] + 1
             /\ ~(base[w] <= i /\ i < End(w)) => (Has(i)' <=> Has(i))
             /\ Has(i) => Entry(i)' = Entry(i)
  <2>1. ASSUME base[w] <= i, i < End(w)
        PROVE  Entry(i)'.call[1] = w /\ Entry(i)'.call[2] = returned[w] + 1
    <3>1. Entry(i)' = Wqe(w, i - base[w]) /\ i - base[w] \in 0 .. Op(w).lanes - 1
      BY <1>1, <2>1, StoreEntries
    <3>2. Wqe(w, i - base[w]).call = <<w, returned[w] + 1, i - base[w]>>
      BY <1>1, <1>4, <3>1, IonicWqe DEF NInv
    <3> QED
      BY <3>1, <3>2
  <2> QED
    BY <1>1, <2>1, StoreEntries
<1>8. ASSUME NEW k \in 1 .. returned[w] + 1
      PROVE  \E b \in Position' : StoredBlock(w, k, b)'
  <2>1. CASE k \in 1 .. returned[w]
    <3>1. PICK b \in Position : StoredBlock(w, k, b)
      BY <1>1, <1>6, <2>1 DEF PlacedOf
    <3>2. ASSUME NEW i \in Position
          PROVE  (Has(i) /\ OfCall(i, w, k))' <=> Has(i) /\ OfCall(i, w, k)
      <4>1. k # returned[w] + 1
        BY <1>4, <2>1
      <4> QED
        BY <1>7, <4>1 DEF OfCall
    <3>3. StoredBlock(w, k, b)'
      BY <1>2, <3>1, <3>2 DEF StoredBlock
    <3> QED
      BY <1>2, <3>3
  <2>2. CASE k = returned[w] + 1
    <3>1. prog'[w][k] = Op(w)
      BY <1>2, <2>2 DEF Op
    <3>2. ASSUME NEW i \in Position
          PROVE  (Has(i) /\ OfCall(i, w, k))' <=> base[w] <= i /\ i < End(w)
      <4>1. ~(Has(i) /\ OfCall(i, w, k))
        <5>1. OwnEntry(i, w) => Entry(i).call[2] \in 1 .. returned[w]
          BY <1>1, <1>6 DEF PlacedOf
        <5> QED
          BY <1>4, <2>2, <5>1 DEF OwnEntry, OfCall
      <4> QED
        BY <1>7, <2>2, <4>1 DEF OfCall
    <3>3. PICK b \in Position : b = base[w]
      BY <1>5
    <3>4. b + prog'[w][k].lanes = End(w)
      BY <1>4, <3>1, <3>3
    <3>5. StoredBlock(w, k, b)'
      BY <1>2, <3>2, <3>3, <3>4 DEF StoredBlock
    <3> QED
      BY <1>2, <3>5
  <2> QED
    BY <1>4, <2>1, <2>2
<1>9. ASSUME NEW i \in Position', OwnEntry(i, w)'
      PROVE  Entry(i)'.call[2] \in 1 .. returned[w] + 1
  <2>1. i \in Position
    BY <1>2
  <2>2. CASE base[w] <= i /\ i < End(w)
    BY <1>4, <1>7, <2>1, <2>2
  <2>3. CASE ~(base[w] <= i /\ i < End(w))
    <3>1. OwnEntry(i, w) /\ Entry(i)' = Entry(i)
      BY <1>7, <1>9, <2>1, <2>3 DEF OwnEntry
    <3>2. Entry(i).call[2] \in 1 .. returned[w]
      BY <1>1, <1>6, <2>1, <3>1 DEF PlacedOf
    <3> QED
      BY <1>4, <3>1, <3>2
  <2> QED
    BY <2>2, <2>3
<1>10. PlacedOf(w)'
  BY <1>6, <1>8, <1>9 DEF PlacedOf
<1>11. CASE pc'[w] = "commit"
  <2>1. Op(w)' = Op(w) /\ End(w)' = End(w)
    BY <1>2, <1>3, <1>11 DEF Op, End
  <2>2. ASSUME NEW i \in Position', OwnEntry(i, w)' PROVE i < End(w)
    <3>1. i \in Position
      BY <1>2
    <3>2. CASE ~(base[w] <= i /\ i < End(w))
      <4>1. OwnEntry(i, w)
        BY <1>7, <2>2, <3>1, <3>2 DEF OwnEntry
      <4> QED
        BY <1>1, <1>3, <3>1, <4>1 DEF CoveredOf, AllBefore, Unstored
    <3> QED
      BY <3>2
  <2>3. AllBefore(w, End(w))'
    BY <2>1, <2>2 DEF AllBefore
  <2> QED
    BY <1>10, <1>11, <2>3 DEF CoveredOf, Quieted
<1>12. CASE pc'[w] = "out"
  <2>1. prog'[w][returned'[w]] = Op(w) /\ Op(w).op = "RMA"
    BY <1>2, <1>3, <1>12 DEF Op
  <2>2. ~Quieted(w)'
    BY <1>12, <2>1 DEF Quieted
  <2> QED
    BY <1>10, <1>12, <2>2 DEF CoveredOf, Unstored, Storing
<1> QED
  BY <1>3, <1>11, <1>12

LEMMA IonicStepQuiet ==
  ASSUME NQInv, provider = "ionic", [Next]_vars
  PROVE  NQInv'
<1>1. NInv /\ NInv'
  BY IonicStepInv DEF NQInv
<1>2. CASE \A w \in Waves : ~IonicStep(w)
  <2>1. /\ UNCHANGED <<pc, returned, base, cons, prog>>
        /\ reported <= reported' /\ reported' \in Nat
    <3>1. CASE Execute /\ UNCHANGED ionicVars
      BY <1>1, <3>1, IonicCounters DEF Execute, call, callVars, ionicVars, NInv
    <3>2. CASE Report /\ UNCHANGED ionicVars
      <4>1. reported <= reported'
        BY <1>1, <3>2, ReportInv
      <4> QED
        BY <1>1, <3>2, <4>1 DEF Report, call, callVars, ionicVars, NInv, IonicTypes
    <3>3. CASE UNCHANGED IonicState
      BY <1>1, <3>3, IonicCounters DEF IonicState, nicVars, call, callVars, ionicVars, NInv
    <3> QED
      BY <1>2, <3>1, <3>2, <3>3, IonicCases
  <2>2. \A v \in Waves : ~IonicStore(v)
    BY <1>2 DEF IonicStep
  <2> QED
    BY <1>1, <2>1, <2>2, OtherCovered DEF NQInv
<1>3. ASSUME NEW w \in Waves, IonicStep(w) PROVE NQInv'
  <2>1. PlacedOf(w)' /\ CoveredOf(w)'
    BY <1>3, OwnCovered, StoreCovered
  <2>2. ASSUME NEW v \in Waves, v # w PROVE PlacedOf(v)' /\ CoveredOf(v)'
    <3>1. /\ pc'[v] = pc[v] /\ returned'[v] = returned[v] /\ base'[v] = base[v]
          /\ cons'[v] = cons[v] /\ prog' = prog /\ reported <= reported' /\ reported' \in Nat
      BY <1>1, <1>3, <2>2, IonicMoves, IonicCounters DEF NInv
    <3>2. ~IonicStore(v)
      <4>1. IonicStore(v) => pc'[v] # pc[v]
        BY <1>1, StoreDoes DEF NInv
      <4> QED
        BY <3>1, <4>1
    <3> QED
      BY <3>1, <3>2, OtherCovered
  <2> QED
    BY <1>1, <2>1, <2>2 DEF NQInv
<1> QED
  BY <1>2, <1>3

LEMMA IonicInitQuiet == Init /\ provider = "ionic" => NQInv
<1> SUFFICES ASSUME Init, provider = "ionic" PROVE NQInv
  OBVIOUS
<1>1. NInv
  BY IonicInitInv
<1>2. PICK s \in Starts : NicInit(s)
  BY DEF Init
<1>3. start = s /\ Done = s /\ s \in Nat
  BY <1>2, QueuePairAssumption DEF NicInit, Done
<1>4. ASSUME NEW i \in Position PROVE ~Has(i)
  <2>1. i \in Nat /\ s <= i /\ Depth \in Nat \ {0}
    BY <1>3, QueuePairAssumption DEF Position
  <2>2. ASSUME i < s + Depth PROVE sq[i % Depth].idx # i
    <3>1. i \in s .. s + Depth - 1
      BY <1>3, <2>1, <2>2
    <3> QED
      BY <1>2, <1>3, <2>1, <3>1, InitSlots
  <2> QED
    BY <1>3, <2>1, <2>2 DEF Has
<1>5. ASSUME NEW w \in Waves PROVE PlacedOf(w) /\ CoveredOf(w)
  <2>1. pc[w] = "out" /\ returned[w] = 0
    BY <1>2 DEF NicInit
  <2>2. StoredCalls(w) = 0
    BY <2>1 DEF StoredCalls, Storing, Waiting
  <2>3. \A i \in Position : ~OwnEntry(i, w)
    BY <1>4 DEF OwnEntry
  <2> QED
    BY <2>1, <2>2, <2>3 DEF PlacedOf, CoveredOf, Unstored, Storing, Quieted
<1> QED
  BY <1>1, <1>5 DEF NQInv

LEMMA IonicQuietInvariant == Spec => [](provider = "ionic" => NQInv)
<1> DEFINE I == provider = "ionic" => NQInv
<1>1. Init => I
  BY IonicInitQuiet
<1>2. I /\ [Next]_vars => I'
  BY ProviderStays, IonicStepQuiet
<1> QED
  BY <1>1, <1>2, PTL DEF Spec

(* When a quiet or a fetch of a wavefront has returned, every WQE of every *)
(* call it has made has completed (ionic_quiet, and the wait at the end of *)
(* a fetching atomic: ionic_quiet_internal_ccqe).                          *)
THEOREM IonicQuietMeansDone == Spec => [](provider = "ionic" => QuietMeansDone)
<1>1. ASSUME NQInv PROVE QuietMeansDone
  <2> SUFFICES ASSUME NEW w \in Waves, pc[w] = "out", returned[w] > 0,
                      prog[w][returned[w]].op \in {"QUIET", "FETCH"},
                      NEW k \in 1 .. returned[w]
               PROVE  Finished(w, k)
    BY DEF QuietMeansDone
  <2> DEFINE mine == {i \in 1 .. Len(executed) :
                        executed[i].call[1] = w /\ executed[i].call[2] = k}
             n == prog[w][k].lanes
  <2>1. NInv /\ PlacedOf(w) /\ AllBefore(w, reported)
    BY <1>1 DEF NQInv, CoveredOf, Quieted
  <2>2. /\ start \in Nat /\ reported \in Nat /\ Done \in Nat /\ Len(executed) \in Nat
        /\ reported <= Done /\ Done = start + Len(executed)
    BY <2>1, IonicCounters DEF NInv, Positions
  <2>3. PICK b \in Position : StoredBlock(w, k, b)
    <3>1. StoredCalls(w) = returned[w]
      BY <2>1 DEF StoredCalls, Storing, Waiting, NInv, IonicTypes
    <3> QED
      BY <2>1, <3>1 DEF PlacedOf
  <2>4. n \in Nat
    <3>1. k \in 1 .. Len(prog[w])
      BY <2>1 DEF NInv, IonicTypes, IonicWhere
    <3>2. prog[w][k] \in Posts \cup {Quiet}
      BY <2>1, <3>1 DEF NInv, IonicTypes
    <3>3. \A m \in 1 .. WfSize : m \in Nat
      BY QueuePairAssumption
    <3> QED
      BY <3>2, <3>3 DEF Posts, Quiet
  <2> HIDE DEF n
  <2>5. b \in Nat /\ start <= b
    BY <2>3 DEF Position
  <2>6. ASSUME NEW i \in Position
        PROVE  Has(i) /\ OfCall(i, w, k) <=> b <= i /\ i < b + n
    BY <2>3 DEF StoredBlock, n
  <2>7. ASSUME NEW i \in Position, b <= i, i < b + n PROVE i < Done
    <3>1. i < reported
      BY <2>1, <2>6, <2>7 DEF AllBefore, OwnEntry, OfCall
    <3> QED
      BY <2>2, <3>1 DEF Position
  <2>8. b + n <= Done \/ n = 0
    <3>1. CASE n > 0
      <4>1. b + n - 1 \in Position /\ b <= b + n - 1 /\ b + n - 1 < b + n
        BY <2>2, <2>4, <2>5, <3>1 DEF Position
      <4>2. b + n - 1 < Done
        BY <2>7, <4>1
      <4> QED
        BY <2>2, <2>4, <2>5, <4>2
    <3> QED
      BY <2>4, <3>1
  <2>9. ASSUME NEW i \in 1 .. Len(executed)
        PROVE  i \in mine <=> b <= start + i - 1 /\ start + i - 1 < b + n
    <3>1. /\ start + i - 1 \in Position /\ start + i - 1 < Done
          /\ (start + i - 1) - start + 1 = i
      BY <2>2 DEF Position
    <3>2. Entry(start + i - 1) = executed[i] /\ Has(start + i - 1)
      BY <3>1 DEF Entry, Has
    <3> QED
      BY <2>6, <3>1, <3>2 DEF OfCall
  <2> DEFINE first == b - start + 1
             last == b - start + n
  <2>10. mine = first .. last
    <3>1. ASSUME NEW i \in mine PROVE i \in first .. last
      <4>1. i \in 1 .. Len(executed)
        OBVIOUS
      <4>2. b <= start + i - 1 /\ start + i - 1 < b + n
        BY <2>9, <4>1
      <4> QED
        BY <2>2, <2>4, <2>5, <4>1, <4>2
    <3>2. ASSUME NEW i \in first .. last PROVE i \in mine
      <4>1. i \in Int /\ b - start + 1 <= i /\ i <= b - start + n
        BY <2>2, <2>4, <2>5
      <4>2. i \in 1 .. Len(executed) /\ b <= start + i - 1 /\ start + i - 1 < b + n
        BY <2>2, <2>4, <2>5, <2>8, <4>1
      <4> HIDE DEF mine
      <4> QED
        BY <2>9, <4>2
    <3> QED
      BY <3>1, <3>2
  <2>11. Cardinality(first .. last) = n
    <3>1. first \in Int /\ last \in Int /\ last - first + 1 = n /\ (first > last <=> n = 0)
      BY <2>2, <2>4, <2>5
    <3> HIDE DEF first, last
    <3>2. Cardinality(first .. last) = IF first > last THEN 0 ELSE last - first + 1
      BY <3>1, FS_Interval
    <3> QED
      BY <3>1, <3>2
  <2> QED
    BY <2>10, <2>11 DEF Finished, n
<1>2. (provider = "ionic" => NQInv) => (provider = "ionic" => QuietMeansDone)
  BY <1>1
<1> QED
  BY <1>2, IonicQuietInvariant, PTL

----------------------------------------------------------------------------
(* The results of a fetch.                                                 *)

(* A fetch's lanes have words of its buffer, one each. *)
LEMMA FetchWords ==
  ASSUME NFInv, provider = "ionic", NEW w \in Waves, Holds(w),
         NEW l \in 0 .. Op(w).lanes - 1
  PROVE  /\ l \in Nat /\ l < WfSize /\ word[w] \in Nat /\ word[w] + WfSize <= FetchCnt
         /\ (word[w] + l) % FetchCnt = word[w] + l /\ word[w] + l \in 0 .. FetchCnt - 1
         /\ Wqe(w, l).word = word[w] + l /\ Wqe(w, l).call = <<w, returned[w] + 1, l>>
         /\ Calling(w) /\ Op(w) # Quiet
<1>1. /\ Calling(w) /\ Op(w) # Quiet /\ Op(w).op = "FETCH"
  <2>1. pc[w] # "out" /\ Op(w).op = "FETCH"
    BY DEF Holds, FetchPosted, Storing, Waiting
  <2> QED
    BY <2>1 DEF NFInv, NQInv, NInv, IonicWhere, Quiet
<1>2. Op(w).lanes \in Nat /\ Op(w).lanes <= WfSize /\ WfSize \in Nat
  BY <1>1, IonicOp, QueuePairAssumption DEF NFInv, NQInv, NInv
<1>3. l \in Nat /\ l < WfSize
  BY <1>2
<1>4. word[w] \in Nat /\ word[w] + WfSize <= FetchCnt /\ FetchCnt \in Nat \ {0}
  BY QueuePairAssumption DEF NFInv, BuffersApart, BufferWord
<1>5. word[w] + l \in 0 .. FetchCnt - 1
  BY <1>2, <1>3, <1>4
<1>6. (word[w] + l) % FetchCnt = word[w] + l
  BY <1>4, <1>5, ModSmall
<1>7. Wqe(w, l).word = word[w] + l
  BY <1>1, <1>6 DEF Wqe
<1>8. Wqe(w, l).call = <<w, returned[w] + 1, l>>
  BY <1>1, IonicWqe DEF NFInv, NQInv, NInv
<1> QED
  BY <1>1, <1>3, <1>4, <1>5, <1>6, <1>7, <1>8

(* A fetch that is over has been executed. *)
LEMMA FetchDone ==
  ASSUME NFInv, provider = "ionic", NEW w \in Waves, pc[w] = "done", Op(w).op = "FETCH",
         NEW l \in 0 .. Op(w).lanes - 1
  PROVE  base[w] + l \in Position /\ base[w] + l < Done
<1>1. FetchPosted(w) /\ Holds(w) /\ FetchKept(w) /\ AllBefore(w, reported) /\ NInv
  BY DEF NFInv, NQInv, CoveredOf, Quieted, FetchPosted, Holds, Waiting
<1>2. l \in Nat /\ Wqe(w, l).call = <<w, returned[w] + 1, l>> /\ Calling(w)
  BY <1>1, FetchWords
<1>3. base[w] \in Nat /\ start <= base[w] /\ start \in Nat /\ base[w] + l \in Position
      /\ reported \in Nat /\ Done \in Nat /\ reported <= Done
  <2>1. base[w] \in Nat /\ start <= base[w]
    BY <1>1 DEF FetchKept, Position
  <2>2. start \in Nat /\ reported \in Nat /\ Done \in Nat /\ reported <= Done
    BY <1>1, IonicCounters DEF NInv, Positions
  <2> QED
    BY <1>2, <2>1, <2>2 DEF Position
<1>4. PICK i \in Position : i = base[w] + l
  BY <1>3
<1>5. Has(i) /\ Entry(i) = Wqe(w, l)
  BY <1>1, <1>4 DEF FetchKept
<1>7. i < reported
  BY <1>1, <1>2, <1>5 DEF OwnEntry, AllBefore
<1> QED
  BY <1>3, <1>4, <1>7

LEMMA OwnWords == NFInv /\ provider = "ionic" => OwnResult
<1> SUFFICES ASSUME NFInv, provider = "ionic",
                    NEW w \in Waves, pc[w] = "done", Op(w).op = "FETCH",
                    NEW l \in 0 .. Op(w).lanes - 1
             PROVE  words[(word[w] + l) % FetchCnt] = <<w, returned[w] + 1, l>>
  BY DEF OwnResult, HasOwnResult
<1>1. FetchPosted(w) /\ Holds(w) /\ FetchKept(w)
  BY DEF NFInv, FetchPosted, Holds, Waiting
<1>2. PICK i \in Position : i = base[w] + l
  BY FetchDone
<1>3. i < Done
  BY <1>2, FetchDone
<1>4. words[word[w] + l] = <<w, returned[w] + 1, l>>
  BY <1>1, <1>2, <1>3 DEF FetchKept
<1> QED
  BY <1>1, <1>4, FetchWords

(* A wavefront that keeps its call, positions and words. *)
LEMMA FetchSame ==
  ASSUME UNCHANGED <<provider, prog>>, NEW v, returned'[v] = returned[v],
         base'[v] = base[v], word'[v] = word[v]
  PROVE  Op(v)' = Op(v) /\ \A l : Wqe(v, l)' = Wqe(v, l)
<1>1. Op(v)' = Op(v)
  BY DEF Op
<1>2. ASSUME NEW l PROVE Wqe(v, l)' = Wqe(v, l)
  BY <1>1 DEF Wqe
<1> QED
  BY <1>1, <1>2

LEMMA BuffersKept ==
  ASSUME BuffersApart, freelist' = freelist,
         words' \in [0 .. FetchCnt - 1 -> Callers \cup {NoCall}],
         \A v \in Waves : Holds(v)' => Holds(v) /\ word'[v] = word[v]
  PROVE  BuffersApart'
<1>1. ASSUME NEW w \in Waves, Holds(w)'
      PROVE  /\ word'[w] \in BufferWord
             /\ \A j \in 1 .. Len(freelist') : Apart(word'[w], freelist'[j])
             /\ \A v \in Waves : Holds(v)' /\ v # w => Apart(word'[v], word'[w])
  BY <1>1 DEF BuffersApart
<1>2. \A i, j \in 1 .. Len(freelist') : i # j => Apart(freelist'[i], freelist'[j])
  BY DEF BuffersApart
<1>3. freelist' \in Seq(BufferWord)
  BY DEF BuffersApart
<1> QED
  BY <1>1, <1>2, <1>3 DEF BuffersApart, Apart, BufferWord

(* While the queue and the words stay, and fetches do. *)
LEMMA FetchesStay ==
  ASSUME UNCHANGED <<provider, prog, start, executed, sq, words>>, NEW v \in Waves,
         FetchPosted(v), FetchKept(v), returned'[v] = returned[v], base'[v] = base[v],
         word'[v] = word[v]
  PROVE  FetchKept(v)'
<1>1. Op(v)' = Op(v) /\ \A l : Wqe(v, l)' = Wqe(v, l)
  BY FetchSame
<1>2. Position' = Position /\ Done' = Done
  BY DEF Position, Done
<1>3. \A i \in Position : (Has(i)' <=> Has(i)) /\ Entry(i)' = Entry(i)
  BY <1>2 DEF Has, Entry
<1> QED
  BY <1>1, <1>2, <1>3 DEF FetchKept

LEMMA WritersStay ==
  ASSUME UNCHANGED <<prog, start, executed, sq>>, Writers,
         \A v \in Waves : FetchPosted(v) =>
           FetchPosted(v)' /\ base'[v] = base[v] /\ returned'[v] = returned[v]
  PROVE  Writers'
<1>1. Position' = Position /\ Done' = Done
  BY DEF Position, Done
<1>2. \A i \in Position : (Has(i)' <=> Has(i)) /\ Entry(i)' = Entry(i)
  BY <1>1 DEF Has, Entry
<1> SUFFICES ASSUME NEW i \in Position', Has(i)', Done' <= i
             PROVE  \/ Entry(i)'.word = NoWord
                    \/ \E w \in Waves : FetchPosted(w)' /\
                         \E l \in 0 .. Op(w)'.lanes - 1 : i = base'[w] + l
  BY DEF Writers
<1>3. i \in Position /\ Has(i) /\ Done <= i /\ Entry(i)' = Entry(i)
  BY <1>1, <1>2
<1>4. CASE Entry(i).word = NoWord
  BY <1>3, <1>4
<1>5. ASSUME NEW w \in Waves, FetchPosted(w),
             NEW l \in 0 .. Op(w).lanes - 1, i = base[w] + l
      PROVE  FetchPosted(w)' /\ l \in 0 .. Op(w)'.lanes - 1 /\ i = base'[w] + l
  BY <1>5 DEF Op
<1> QED
  BY <1>3, <1>4, <1>5 DEF Writers

(* Steps that leave the queue, the words and the buffers alone. *)
LEMMA FetchesAlone ==
  ASSUME NFInv, provider = "ionic", [Next]_vars,
         UNCHANGED <<provider, prog, start, executed, sq, words, freelist>>,
         \A v \in Waves : Holds(v) \/ Holds(v)' =>
           /\ base'[v] = base[v] /\ word'[v] = word[v] /\ returned'[v] = returned[v]
           /\ (Holds(v)' <=> Holds(v)) /\ (FetchPosted(v)' <=> FetchPosted(v))
  PROVE  NFInv'
<1>1. NQInv'
  BY IonicStepQuiet DEF NFInv
<1>2. \A v \in Waves : (FetchPosted(v) => Holds(v)) /\ (FetchPosted(v)' => Holds(v)')
  BY DEF Holds
<1>3. BuffersApart'
  BY BuffersKept DEF NFInv, BuffersApart
<1>4. Writers'
  BY <1>2, WritersStay DEF NFInv
<1>5. ASSUME NEW v \in Waves, FetchPosted(v)' PROVE FetchKept(v)'
  BY <1>2, <1>5, FetchesStay DEF NFInv
<1> QED
  BY <1>1, <1>3, <1>4, <1>5 DEF NFInv

LEMMA QuietStepFetches ==
  ASSUME NFInv, provider = "ionic", [Next]_vars, NEW w \in Waves,
         \/ IonicReserve(w) \/ IonicQuiet(w) \/ IonicWaited(w) \/ IonicLock(w)
         \/ IonicRing(w) \/ IonicUnlock(w)
  PROVE  NFInv'
<1>1. NInv /\ IonicTypes /\ IonicWhere /\ IonicStep(w)
  BY DEF NFInv, NQInv, NInv, IonicStep
<1>2. /\ UNCHANGED <<provider, prog, start, executed, words>>
      /\ \A v \in Waves : v # w =>
           /\ pc'[v] = pc[v] /\ base'[v] = base[v] /\ word'[v] = word[v]
           /\ returned'[v] = returned[v]
  BY <1>1, IonicMoves
<1>3. UNCHANGED <<sq, freelist>>
  BY <1>1, ReserveDoes, QuietDoes, WaitedDoes, LockDoes, RingDoes, UnlockDoes
<1>4. ASSUME NEW v \in Waves, v # w
      PROVE  (Holds(v)' <=> Holds(v)) /\ (FetchPosted(v)' <=> FetchPosted(v))
  BY <1>2, <1>4 DEF Holds, FetchPosted, Op
<1>5. /\ Holds(w) \/ Holds(w)' => base'[w] = base[w] /\ word'[w] = word[w]
                                  /\ returned'[w] = returned[w]
      /\ (Holds(w)' <=> Holds(w)) /\ (FetchPosted(w)' <=> FetchPosted(w))
  <2>1. returned'[w] = returned[w] => Op(w)' = Op(w)
    BY <1>2 DEF Op
  <2>2. CASE IonicReserve(w) \/ IonicQuiet(w)
    <3>1. pc[w] = "out" /\ pc'[w] \in {"room", "wait"} /\ Op(w)' = Op(w)
          /\ (pc'[w] = "wait" => Op(w).op = "QUIET")
      BY <1>1, <2>1, <2>2, ReserveDoes, QuietDoes DEF Quiet
    <3>2. ~Holds(w)
      BY <3>1 DEF Holds, FetchPosted, Storing, Waiting
    <3>3. ~Holds(w)'
      BY <3>1 DEF Holds, FetchPosted, Storing, Waiting
    <3> QED
      BY <3>2, <3>3 DEF Holds
  <2>3. CASE IonicWaited(w)
    <3>1. /\ base' = base /\ word' = word /\ returned' = returned /\ Op(w)' = Op(w)
          /\ \/ pc[w] = "room" /\ (pc'[w] = "pop" \/ (pc'[w] = "write" /\ Op(w).op # "FETCH"))
             \/ pc[w] = "wait" /\ pc'[w] = "done"
      <4>1. /\ base' = base /\ word' = word /\ returned' = returned
            /\ \/ pc[w] = "room" /\ pc'[w] = IF Op(w).op = "FETCH" THEN "pop" ELSE "write"
               \/ pc[w] = "wait" /\ pc'[w] = "done"
        BY <1>1, <2>3, WaitedDoes
      <4> QED
        BY <2>1, <4>1
    <3> QED
      BY <3>1 DEF Holds, FetchPosted, Storing, Waiting
  <2>4. CASE IonicLock(w) \/ IonicRing(w)
    <3>1. /\ base' = base /\ word' = word /\ returned' = returned /\ Op(w)' = Op(w)
          /\ pc[w] \in {"commit", "ring"} /\ pc'[w] \in {"ring", "unlock"}
      BY <1>1, <2>1, <2>4, LockDoes, RingDoes
    <3> QED
      BY <3>1 DEF Holds, FetchPosted, Storing, Waiting
  <2>5. CASE IonicUnlock(w)
    <3>1. /\ base' = base /\ word' = word /\ pc[w] = "unlock"
          /\ \/ Op(w).op = "FETCH" /\ pc'[w] = "wait" /\ returned'[w] = returned[w]
             \/ Op(w).op # "FETCH" /\ pc'[w] = "out"
      BY <1>1, <2>5, UnlockDoes
    <3> QED
      BY <2>1, <3>1 DEF Holds, FetchPosted, Storing, Waiting
  <2> QED
    BY <2>2, <2>3, <2>4, <2>5
<1>6. \A v \in Waves : Holds(v) \/ Holds(v)' =>
           /\ base'[v] = base[v] /\ word'[v] = word[v] /\ returned'[v] = returned[v]
           /\ (Holds(v)' <=> Holds(v)) /\ (FetchPosted(v)' <=> FetchPosted(v))
  BY <1>2, <1>4, <1>5
<1> QED
  BY <1>2, <1>3, <1>6, FetchesAlone

LEMMA OtherFetches ==
  ASSUME NFInv, provider = "ionic", [Next]_vars,
         (Report /\ UNCHANGED ionicVars) \/ UNCHANGED IonicState
  PROVE  NFInv'
<1>1. UNCHANGED <<provider, prog, start, executed, sq, words, freelist, base, word, returned, pc>>
  BY DEF Report, IonicState, nicVars, call, callVars, ionicVars
<1>2. \A v \in Waves : (Holds(v)' <=> Holds(v)) /\ (FetchPosted(v)' <=> FetchPosted(v))
  BY <1>1 DEF Holds, FetchPosted, Op
<1> QED
  BY <1>1, <1>2, FetchesAlone

(* A pop takes a buffer apart from those that are held. *)
LEMMA PopFetches ==
  ASSUME NFInv, provider = "ionic", [Next]_vars, NEW w \in Waves, IonicPopBuffer(w)
  PROVE  NFInv'
<1>1. NInv /\ IonicTypes /\ IonicWhere /\ IonicStep(w) /\ NQInv'
  BY IonicStepQuiet DEF NFInv, NQInv, NInv, IonicStep
<1>2. /\ UNCHANGED <<provider, prog, start, executed, words>>
      /\ \A v \in Waves : v # w =>
           /\ pc'[v] = pc[v] /\ base'[v] = base[v] /\ word'[v] = word[v]
           /\ returned'[v] = returned[v]
  BY <1>1, IonicMoves
<1>3. /\ pc[w] = "pop" /\ pc'[w] = "write" /\ freelist # <<>>
      /\ word'[w] = Head(freelist) /\ freelist' = Tail(freelist)
      /\ UNCHANGED <<sq, returned, base>>
  BY <1>1, PopDoes
<1>4. ASSUME NEW v \in Waves, v # w
      PROVE  (Holds(v)' <=> Holds(v)) /\ (FetchPosted(v)' <=> FetchPosted(v))
  BY <1>2, <1>4 DEF Holds, FetchPosted, Op
<1>5. ~FetchPosted(w) /\ ~FetchPosted(w)'
  BY <1>3 DEF FetchPosted, Storing, Waiting
<1>6. ASSUME NEW v \in Waves, FetchPosted(v)' PROVE FetchKept(v)'
  BY <1>2, <1>3, <1>4, <1>5, <1>6, FetchesStay DEF NFInv
<1>7. Writers'
  BY <1>2, <1>3, <1>4, <1>5, WritersStay DEF NFInv
<1>8. freelist \in Seq(BufferWord) /\ Len(freelist) \in Nat /\ 1 \in 1 .. Len(freelist)
  BY <1>3 DEF NFInv, BuffersApart
<1>9. /\ freelist' \in Seq(BufferWord) /\ word'[w] = freelist[1]
      /\ Len(freelist') = Len(freelist) - 1
      /\ \A j \in 1 .. Len(freelist') : freelist'[j] = freelist[j + 1]
  BY <1>3, <1>8
<1>10. \A j \in 1 .. Len(freelist') : j + 1 \in 1 .. Len(freelist) /\ j + 1 # 1
  BY <1>8, <1>9
<1>11. \A i, j \in 1 .. Len(freelist') : i # j => Apart(freelist'[i], freelist'[j])
  <2> SUFFICES ASSUME NEW i \in 1 .. Len(freelist'), NEW j \in 1 .. Len(freelist'), i # j
               PROVE  Apart(freelist'[i], freelist'[j])
    OBVIOUS
  <2>1. i + 1 # j + 1
    BY <1>8, <1>9
  <2>2. Apart(freelist[i + 1], freelist[j + 1])
    BY <1>10, <2>1 DEF NFInv, BuffersApart
  <2> QED
    BY <1>9, <2>2
<1>12. ASSUME NEW v \in Waves, Holds(v)'
       PROVE  /\ word'[v] \in BufferWord
              /\ \A j \in 1 .. Len(freelist') : Apart(word'[v], freelist'[j])
  <2>1. CASE v = w
    <3>1. freelist[1] \in BufferWord
      BY <1>8
    <3>2. \A j \in 1 .. Len(freelist') : Apart(freelist[1], freelist[j + 1])
      BY <1>8, <1>10 DEF NFInv, BuffersApart
    <3> QED
      BY <1>9, <2>1, <3>1, <3>2
  <2>2. CASE v # w
    <3>1. Holds(v) /\ word'[v] = word[v]
      BY <1>2, <1>4, <1>12, <2>2
    <3>2. word[v] \in BufferWord /\ \A j \in 1 .. Len(freelist) : Apart(word[v], freelist[j])
      BY <3>1 DEF NFInv, BuffersApart
    <3> QED
      BY <1>9, <1>10, <3>1, <3>2
  <2> QED
    BY <2>1, <2>2
<1>13. ASSUME NEW v \in Waves, NEW u \in Waves, Holds(v)', Holds(u)', v # u
       PROVE  Apart(word'[v], word'[u])
  <2>1. ASSUME NEW x \in Waves, x # w, Holds(x)'
        PROVE  Apart(word'[w], word'[x]) /\ Apart(word'[x], word'[w])
    <3>1. Holds(x) /\ word'[x] = word[x]
      BY <1>2, <1>4, <2>1
    <3>2. Apart(word[x], freelist[1])
      BY <1>8, <3>1 DEF NFInv, BuffersApart
    <3> QED
      BY <1>9, <3>1, <3>2 DEF Apart
  <2>2. CASE v # w /\ u # w
    BY <1>2, <1>4, <1>13, <2>2 DEF NFInv, BuffersApart
  <2> QED
    BY <1>13, <2>1, <2>2
<1>14. BuffersApart'
  <2>1. words' \in [0 .. FetchCnt - 1 -> Callers \cup {NoCall}]
    BY <1>2 DEF NFInv, BuffersApart
  <2> QED
    BY <1>9, <1>11, <1>12, <1>13, <2>1 DEF BuffersApart, Apart, BufferWord
<1> QED
  BY <1>1, <1>6, <1>7, <1>14 DEF NFInv

(* Who stores a fetch's WQEs has a buffer for their results. *)
LEMMA StoreFetches ==
  ASSUME NFInv, provider = "ionic", [Next]_vars, NEW w \in Waves, IonicStore(w)
  PROVE  NFInv'
<1>1. NInv /\ IonicTypes /\ IonicWhere /\ IonicStep(w) /\ NQInv'
  BY IonicStepQuiet DEF NFInv, NQInv, NInv, IonicStep
<1>2. /\ UNCHANGED <<provider, prog, start, executed, words>>
      /\ \A v \in Waves : v # w =>
           /\ pc'[v] = pc[v] /\ base'[v] = base[v] /\ word'[v] = word[v]
           /\ returned'[v] = returned[v]
  BY <1>1, IonicMoves
<1>3. /\ pc[w] = "write"
      /\ \/ Rings(w) /\ pc'[w] = "commit" /\ returned'[w] = returned[w]
         \/ Op(w).op = "RMA" /\ pc'[w] = "out"
      /\ UNCHANGED <<freelist, word, base>>
  BY <1>1, StoreDoes
<1>4. ASSUME NEW v \in Waves, v # w
      PROVE  (Holds(v)' <=> Holds(v)) /\ (FetchPosted(v)' <=> FetchPosted(v))
  BY <1>2, <1>4 DEF Holds, FetchPosted, Op
<1>5. /\ Calling(w) /\ Op(w) # Quiet /\ base[w] \in Nat /\ Op(w).lanes \in Nat
      /\ End(w) = base[w] + Op(w).lanes
  BY <1>1, <1>3, IonicOp DEF IonicWhere, Unstored
<1>6. Position' = Position /\ Done' = Done /\ Done \in Nat
  BY <1>1, <1>2, IonicCounters DEF Position, Done
<1>7. /\ FetchPosted(w)' <=> Op(w).op = "FETCH"
      /\ Holds(w)' <=> Holds(w)
      /\ ~FetchPosted(w)
      /\ Op(w).op = "FETCH" => /\ Op(w)' = Op(w) /\ \A l : Wqe(w, l)' = Wqe(w, l)
  <2>1. CASE Rings(w) /\ pc'[w] = "commit" /\ returned'[w] = returned[w]
    <3>1. Op(w)' = Op(w) /\ \A l : Wqe(w, l)' = Wqe(w, l)
      BY <1>2, <1>3, <2>1, FetchSame
    <3> QED
      BY <1>3, <2>1, <3>1 DEF Holds, FetchPosted, Storing, Waiting
  <2>2. CASE Op(w).op = "RMA" /\ pc'[w] = "out"
    BY <1>3, <2>2 DEF Holds, FetchPosted, Storing, Waiting
  <2> QED
    BY <1>3, <2>1, <2>2
<1>8. BuffersApart'
  <2>1. \A v \in Waves : Holds(v)' => Holds(v) /\ word'[v] = word[v]
    BY <1>3, <1>4, <1>7
  <2> QED
    BY <1>2, <1>3, <2>1, BuffersKept DEF NFInv, BuffersApart
<1>9. ASSUME NEW i \in Position, Has(i) PROVE Has(i)' /\ Entry(i)' = Entry(i)
  BY <1>1, <1>9, StoreEntries
<1>10. ASSUME FetchPosted(w)' PROVE FetchKept(w)'
  <2>1. base[w] \in Position
    BY <1>1, <1>3, <1>5, IonicCounters DEF Position, NInv, Positions, Reserved, Unstored
  <2>2. ASSUME NEW l \in 0 .. Op(w).lanes - 1, NEW i \in Position, i = base[w] + l
        PROVE  Has(i)' /\ Entry(i)' = Wqe(w, l) /\ ~(i < Done')
    <3>1. base[w] <= i /\ i < End(w) /\ i - base[w] = l
      BY <1>5, <2>2
    <3>2. Done <= base[w]
      BY <1>1, <1>3 DEF NInv, Positions, Reserved, Unstored
    <3>3. ~(i < Done)
      BY <1>5, <1>6, <3>1, <3>2 DEF Position
    <3> QED
      BY <1>1, <1>6, <3>1, <3>3, StoreEntries
  <2> QED
    BY <1>3, <1>6, <1>7, <1>10, <2>1, <2>2 DEF FetchKept
<1>11. ASSUME NEW v \in Waves, v # w, FetchPosted(v)' PROVE FetchKept(v)'
  <2>1. FetchKept(v)
    BY <1>4, <1>11 DEF NFInv
  <2>2. Op(v)' = Op(v) /\ \A l : Wqe(v, l)' = Wqe(v, l)
    BY <1>2, <1>11, FetchSame
  <2> QED
    BY <1>2, <1>6, <1>9, <1>11, <2>1, <2>2 DEF FetchKept
<1>12. ASSUME NEW i \in Position, Has(i)', Done <= i
       PROVE  \/ Entry(i)'.word = NoWord
              \/ \E v \in Waves : FetchPosted(v)' /\
                   \E l \in 0 .. Op(v)'.lanes - 1 : i = base'[v] + l
  <2>1. CASE base[w] <= i /\ i < End(w)
    <3> DEFINE l == i - base[w]
    <3>1. Entry(i)' = Wqe(w, l) /\ l \in 0 .. Op(w).lanes - 1
      BY <1>1, <2>1, StoreEntries
    <3>2. CASE Op(w).op = "FETCH"
      <4>1. i = base'[w] + l
        BY <1>3, <1>5 DEF Position
      <4> HIDE DEF l
      <4> QED
        BY <1>7, <3>1, <3>2, <4>1
    <3>3. CASE Op(w).op # "FETCH"
      <4> HIDE DEF l
      <4> QED
        BY <3>1, <3>3 DEF Wqe
    <3> QED
      BY <3>2, <3>3
  <2>2. CASE ~(base[w] <= i /\ i < End(w))
    <3>1. Has(i) /\ Entry(i)' = Entry(i)
      BY <1>1, <1>9, <1>12, <2>2, StoreEntries
    <3>2. CASE Entry(i).word = NoWord
      BY <3>1, <3>2
    <3>3. ASSUME NEW v \in Waves, FetchPosted(v),
                 NEW l \in 0 .. Op(v).lanes - 1, i = base[v] + l
          PROVE  FetchPosted(v)' /\ l \in 0 .. Op(v)'.lanes - 1 /\ i = base'[v] + l
      <4>1. v # w
        BY <1>7, <3>3
      <4> QED
        BY <1>2, <1>3, <1>4, <3>3, <4>1 DEF Op
    <3> QED
      BY <1>12, <3>1, <3>2, <3>3 DEF NFInv, Writers
  <2> QED
    BY <2>1, <2>2
<1>13. Writers'
  BY <1>6, <1>12 DEF Writers
<1> QED
  BY <1>1, <1>8, <1>10, <1>11, <1>13 DEF NFInv

(* A fetch gives its buffer back when its atomics have been executed. *)
LEMMA ReturnFetches ==
  ASSUME NFInv, provider = "ionic", [Next]_vars, NEW w \in Waves, IonicReturn(w)
  PROVE  NFInv'
<1>1. NInv /\ IonicTypes /\ IonicWhere /\ IonicStep(w) /\ NQInv'
  BY IonicStepQuiet DEF NFInv, NQInv, NInv, IonicStep
<1>2. /\ UNCHANGED <<provider, prog, start, executed, words>>
      /\ \A v \in Waves : v # w =>
           /\ pc'[v] = pc[v] /\ base'[v] = base[v] /\ word'[v] = word[v]
           /\ returned'[v] = returned[v]
  BY <1>1, IonicMoves
<1>3. /\ pc[w] = "done" /\ pc'[w] = "out" /\ UNCHANGED <<sq, base, word>>
      /\ freelist' = IF Op(w) = Quiet THEN freelist ELSE Append(freelist, word[w])
  BY <1>1, ReturnDoes
<1>4. ASSUME NEW v \in Waves, v # w
      PROVE  (Holds(v)' <=> Holds(v)) /\ (FetchPosted(v)' <=> FetchPosted(v))
  BY <1>2, <1>4 DEF Holds, FetchPosted, Op
<1>5. ~FetchPosted(w)' /\ ~Holds(w)'
  BY <1>3 DEF Holds, FetchPosted, Storing, Waiting
<1>6. ASSUME NEW v \in Waves, FetchPosted(v)' PROVE FetchKept(v)'
  BY <1>2, <1>3, <1>4, <1>5, <1>6, FetchesStay DEF NFInv
<1>7. Position' = Position /\ Done' = Done /\ Done \in Nat
  BY <1>1, <1>2, IonicCounters DEF Position, Done
<1>8. ASSUME NEW i \in Position, Has(i)', Done <= i
      PROVE  \/ Entry(i)'.word = NoWord
             \/ \E v \in Waves : FetchPosted(v)' /\
                  \E l \in 0 .. Op(v)'.lanes - 1 : i = base'[v] + l
  <2>1. Has(i) /\ Entry(i)' = Entry(i)
    BY <1>2, <1>3, <1>7, <1>8 DEF Has, Entry
  <2>2. CASE Entry(i).word = NoWord
    BY <2>1, <2>2
  <2>3. ASSUME NEW v \in Waves, FetchPosted(v),
               NEW l \in 0 .. Op(v).lanes - 1, i = base[v] + l
        PROVE  FetchPosted(v)' /\ l \in 0 .. Op(v)'.lanes - 1 /\ i = base'[v] + l
    <3>1. v # w
      <4> SUFFICES ASSUME v = w PROVE FALSE
        OBVIOUS
      <4>1. i < Done
        BY <1>3, <2>3, FetchDone DEF FetchPosted
      <4> QED
        BY <1>7, <1>8, <4>1 DEF Position
    <3> QED
      BY <1>2, <1>3, <1>4, <2>3, <3>1 DEF Op
  <2> QED
    BY <1>8, <2>1, <2>2, <2>3 DEF NFInv, Writers
<1>9. Writers'
  BY <1>7, <1>8 DEF Writers
<1>10. CASE Op(w) = Quiet
  <2>1. BuffersApart'
    BY <1>2, <1>3, <1>4, <1>5, <1>10, BuffersKept DEF NFInv, BuffersApart
  <2> QED
    BY <1>1, <1>6, <1>9, <2>1 DEF NFInv
<1>11. CASE Op(w) # Quiet
  <2>1. Op(w).op = "FETCH" /\ Holds(w)
    <3>1. Calling(w) /\ Op(w).op \in {"QUIET", "FETCH"}
      BY <1>1, <1>3 DEF IonicWhere, Waiting
    <3>2. Op(w).op # "QUIET"
      BY <1>1, <1>11, <3>1, IonicOp
    <3> QED
      BY <1>3, <3>1, <3>2 DEF Holds, FetchPosted, Waiting
  <2>2. freelist \in Seq(BufferWord) /\ word[w] \in BufferWord /\ Len(freelist) \in Nat
    BY <2>1 DEF NFInv, BuffersApart
  <2>3. freelist' = Append(freelist, word[w])
    BY <1>3, <1>11
  <2>4. /\ freelist' \in Seq(BufferWord)
        /\ Len(freelist') = Len(freelist) + 1
        /\ freelist'[Len(freelist) + 1] = word[w]
        /\ \A j \in 1 .. Len(freelist) : freelist'[j] = freelist[j]
    BY <2>2, <2>3
  <2>5. \A j \in 1 .. Len(freelist') : j \in 1 .. Len(freelist) \/ j = Len(freelist) + 1
    BY <2>2, <2>4
  <2>6. \A j \in 1 .. Len(freelist) : Apart(word[w], freelist[j])
    BY <2>1 DEF NFInv, BuffersApart
  <2>7. ASSUME NEW i \in 1 .. Len(freelist'), NEW j \in 1 .. Len(freelist'), i # j
        PROVE  Apart(freelist'[i], freelist'[j])
    <3>1. CASE i \in 1 .. Len(freelist) /\ j \in 1 .. Len(freelist)
      <4>1. Apart(freelist[i], freelist[j])
        BY <2>7, <3>1 DEF NFInv, BuffersApart
      <4> QED
        BY <2>4, <3>1, <4>1
    <3>2. CASE i \in 1 .. Len(freelist) /\ j = Len(freelist) + 1
      <4>1. Apart(freelist[i], word[w])
        BY <2>6, <3>2 DEF Apart
      <4> QED
        BY <2>4, <3>2, <4>1
    <3>3. CASE i = Len(freelist) + 1 /\ j \in 1 .. Len(freelist)
      BY <2>4, <2>6, <3>3
    <3> QED
      BY <2>5, <2>7, <3>1, <3>2, <3>3
  <2>8. ASSUME NEW v \in Waves, Holds(v)'
        PROVE  /\ word'[v] \in BufferWord
               /\ \A j \in 1 .. Len(freelist') : Apart(word'[v], freelist'[j])
               /\ \A u \in Waves : Holds(u)' /\ u # v => Apart(word'[u], word'[v])
    <3>1. Holds(v) /\ v # w /\ word'[v] = word[v]
      BY <1>2, <1>4, <1>5, <2>8
    <3>2. Apart(word[v], word[w])
      BY <2>1, <3>1 DEF NFInv, BuffersApart
    <3>3. \A j \in 1 .. Len(freelist) : Apart(word[v], freelist[j])
      BY <3>1 DEF NFInv, BuffersApart
    <3>4. ASSUME NEW j \in 1 .. Len(freelist') PROVE Apart(word[v], freelist'[j])
      BY <2>4, <2>5, <3>2, <3>3
    <3>5. \A u \in Waves : Holds(u)' /\ u # v => Apart(word'[u], word'[v])
      BY <1>2, <1>4, <1>5, <3>1 DEF NFInv, BuffersApart
    <3> QED
      BY <3>1, <3>4, <3>5 DEF NFInv, BuffersApart
  <2>9. words' \in [0 .. FetchCnt - 1 -> Callers \cup {NoCall}]
    BY <1>2 DEF NFInv, BuffersApart
  <2>10. BuffersApart'
    BY <2>4, <2>7, <2>8, <2>9 DEF BuffersApart, Apart, BufferWord
  <2> QED
    BY <1>1, <1>6, <1>9, <2>10 DEF NFInv
<1> QED
  BY <1>10, <1>11

(* The NIC writes a result where nobody else waits for one. *)
LEMMA ExecuteFetches ==
  ASSUME NFInv, provider = "ionic", [Next]_vars, Execute, UNCHANGED ionicVars
  PROVE  NFInv'
<1> DEFINE e == sq[Done % Depth]
<1>1. NInv /\ IonicTypes /\ NQInv' /\ Done' = Done + 1
  BY IonicStepQuiet, ExecuteInv DEF NFInv, NQInv, NInv
<1>2. /\ UNCHANGED <<provider, prog, start, sq, freelist, base, word, returned, pc>>
      /\ words' = IF e.word = NoWord THEN words ELSE [words EXCEPT ![e.word] = e.call]
  BY DEF Execute, call, callVars, ionicVars
<1>3. Stored(Done) /\ Done \in Nat /\ start \in Nat /\ start <= Done /\ Depth \in Nat \ {0}
  BY <1>1, NextStored, IonicCounters DEF NInv, Positions
<1>4. PICK d \in Position : d = Done
  BY <1>3 DEF Position
<1>5. Has(d) /\ Entry(d) = e /\ e \in Wqes
  <2>1. ~(d < Done) /\ d < Done + Depth
    BY <1>3, <1>4
  <2> QED
    BY <1>3, <1>4, <2>1 DEF Has, Entry, Stored
<1> HIDE DEF e
<1>6. words \in [0 .. FetchCnt - 1 -> Callers \cup {NoCall}]
  BY DEF NFInv, BuffersApart
<1>7. words' \in [0 .. FetchCnt - 1 -> Callers \cup {NoCall}]
  BY <1>2, <1>5, <1>6 DEF Wqes
<1>8. ASSUME NEW v \in Waves
      PROVE  /\ Holds(v)' <=> Holds(v)
             /\ FetchPosted(v)' <=> FetchPosted(v)
             /\ Op(v)' = Op(v) /\ \A l : Wqe(v, l)' = Wqe(v, l)
  <2>1. Op(v)' = Op(v) /\ \A l : Wqe(v, l)' = Wqe(v, l)
    BY <1>2, FetchSame
  <2> QED
    BY <1>2, <2>1 DEF Holds, FetchPosted
<1>9. BuffersApart'
  BY <1>2, <1>7, <1>8, BuffersKept DEF NFInv
<1>10. Position' = Position
  BY <1>2 DEF Position
<1>11. ASSUME NEW i \in Position
       PROVE  (Has(i)' <=> Has(i)) /\ (Has(i) => Entry(i)' = Entry(i))
  <2>1. \A v \in Waves : ~IonicStore(v)
    BY <1>1, <1>2, StoreDoes DEF NFInv, NQInv, NInv
  <2> QED
    BY <1>1, <2>1, StayEntries
<1>12. Writers'
  <2> SUFFICES ASSUME NEW i \in Position, Has(i)', Done' <= i
               PROVE  \/ Entry(i)'.word = NoWord
                      \/ \E v \in Waves : FetchPosted(v)' /\
                           \E l \in 0 .. Op(v)'.lanes - 1 : i = base'[v] + l
    BY <1>10 DEF Writers
  <2>1. Has(i) /\ Entry(i)' = Entry(i) /\ Done <= i
    BY <1>1, <1>3, <1>11 DEF Position
  <2> QED
    BY <1>2, <1>8, <2>1 DEF NFInv, Writers
<1>13. ASSUME NEW v \in Waves, FetchPosted(v) PROVE FetchKept(v)'
  <2>1. FetchKept(v) /\ Holds(v)
    BY <1>13 DEF NFInv, Holds
  <2>2. ASSUME NEW l \in 0 .. Op(v).lanes - 1, NEW i \in Position, i = base[v] + l,
               i < Done + 1
        PROVE  words'[word[v] + l] = <<v, returned[v] + 1, l>>
    <3>1. /\ word[v] + l \in 0 .. FetchCnt - 1 /\ l \in Nat /\ l < WfSize
          /\ word[v] \in Nat
          /\ Wqe(v, l).word = word[v] + l /\ Wqe(v, l).call = <<v, returned[v] + 1, l>>
      BY <2>1, FetchWords
    <3>2. CASE i = Done
      <4>1. e = Wqe(v, l)
        BY <1>4, <1>5, <2>1, <2>2, <3>2 DEF FetchKept
      <4>2. e.word # NoWord
        BY <3>1, <4>1 DEF NoWord
      <4> QED
        BY <1>2, <1>6, <3>1, <4>1, <4>2
    <3>3. CASE i # Done
      <4>1. words[word[v] + l] = <<v, returned[v] + 1, l>>
        <5>1. i < Done
          BY <1>3, <2>2, <3>3 DEF Position
        <5> QED
          BY <2>1, <2>2, <5>1 DEF FetchKept
      <4>2. CASE e.word = NoWord
        BY <1>2, <4>1, <4>2
      <4>3. ASSUME NEW u \in Waves, FetchPosted(u),
                   NEW m \in 0 .. Op(u).lanes - 1, d = base[u] + m
            PROVE  e.word # word[v] + l
        <5>1. FetchKept(u) /\ Holds(u)
          BY <4>3 DEF NFInv, Holds
        <5>2. e = Wqe(u, m)
          BY <1>5, <4>3, <5>1 DEF FetchKept
        <5>3. e.word = word[u] + m /\ m \in Nat /\ m < WfSize /\ word[u] \in Nat
          BY <4>3, <5>1, <5>2, FetchWords
        <5>4. CASE u = v
          <6>1. m # l
            BY <1>4, <2>2, <3>3, <4>3, <5>4
          <6> QED
            BY <3>1, <5>3, <5>4, <6>1
        <5>5. CASE u # v
          <6>1. Apart(word[u], word[v])
            BY <2>1, <5>1, <5>5 DEF NFInv, BuffersApart
          <6> QED
            BY <3>1, <5>3, <6>1, ApartWords
        <5> QED
          BY <5>4, <5>5
      <4>4. e.word = NoWord \/ e.word # word[v] + l
        <5>1. d \in Nat /\ Done <= d
          BY <1>3, <1>4
        <5> QED
          BY <1>5, <4>3, <5>1 DEF NFInv, Writers
      <4>5. CASE e.word # NoWord /\ e.word # word[v] + l
        BY <1>2, <1>6, <3>1, <4>1, <4>5
      <4> QED
        BY <4>2, <4>4, <4>5
    <3> QED
      BY <3>2, <3>3
  <2> QED
    BY <1>1, <1>2, <1>8, <1>10, <1>11, <2>1, <2>2 DEF FetchKept
<1> QED
  BY <1>1, <1>8, <1>9, <1>12, <1>13 DEF NFInv

LEMMA IonicStepFetches ==
  ASSUME NFInv, provider = "ionic", [Next]_vars
  PROVE  NFInv'
<1>1. ASSUME NEW w \in Waves, IonicStep(w) PROVE NFInv'
  BY <1>1, QuietStepFetches, PopFetches, StoreFetches, ReturnFetches DEF IonicStep
<1> QED
  BY <1>1, ExecuteFetches, OtherFetches, IonicCases

(* The first words of the buffers are WfSize apart. *)
LEMMA BuffersTile ==
  /\ Buffers \in Seq(BufferWord)
  /\ \A i, j \in 1 .. Len(Buffers) : i # j => Apart(Buffers[i], Buffers[j])
<1> DEFINE n == FetchCnt \div WfSize
<1>1. WfSize \in Nat \ {0} /\ FetchCnt \in Nat
  BY QueuePairAssumption
<1>2. n \in Nat /\ n * WfSize <= FetchCnt
  <2>1. /\ FetchCnt = WfSize * n + (FetchCnt % WfSize)
        /\ FetchCnt % WfSize \in 0 .. WfSize - 1 /\ n \in Nat
    BY <1>1
  <2> QED
    BY <1>1, <2>1
<1> HIDE DEF n
<1>3. ASSUME NEW i \in Nat, NEW j \in Nat, i <= j PROVE i * WfSize <= j * WfSize
  BY <1>1, <1>3
<1>4. ASSUME NEW b \in 1 .. n PROVE (b - 1) * WfSize \in BufferWord
  <2>1. b \in Nat /\ b <= n /\ b - 1 \in Nat
    BY <1>2
  <2>2. b * WfSize <= n * WfSize
    BY <1>2, <1>3, <2>1
  <2>3. (b - 1) * WfSize + WfSize = b * WfSize /\ (b - 1) * WfSize \in Nat
    BY <1>1, <2>1
  <2> QED
    BY <1>1, <1>2, <2>1, <2>2, <2>3 DEF BufferWord
<1>5. Buffers = [b \in 1 .. n |-> (b - 1) * WfSize]
  BY DEF Buffers, n
<1>6. Buffers \in Seq(BufferWord) /\ Len(Buffers) = n
  BY <1>2, <1>4, <1>5
<1>7. ASSUME NEW i \in 1 .. n, NEW j \in 1 .. n, i < j
      PROVE  (i - 1) * WfSize + WfSize <= (j - 1) * WfSize
  <2>1. i \in Nat /\ j - 1 \in Nat /\ i <= j - 1
    BY <1>2, <1>7
  <2>2. i * WfSize <= (j - 1) * WfSize
    BY <1>3, <2>1
  <2> QED
    BY <1>1, <2>1, <2>2
<1>8. ASSUME NEW i \in 1 .. Len(Buffers), NEW j \in 1 .. Len(Buffers), i # j
      PROVE  Apart(Buffers[i], Buffers[j])
  <2>1. i \in 1 .. n /\ j \in 1 .. n /\ (i < j \/ j < i)
    BY <1>2, <1>6, <1>8
  <2> QED
    BY <1>5, <1>7, <2>1 DEF Apart
<1> QED
  BY <1>6, <1>8

LEMMA IonicInitFetches == Init /\ provider = "ionic" => NFInv
<1> SUFFICES ASSUME Init, provider = "ionic" PROVE NFInv
  OBVIOUS
<1>1. NQInv
  BY IonicInitQuiet
<1>2. PICK s \in Starts : NicInit(s)
  BY DEF Init
<1>3. start = s /\ Done = s /\ s \in Nat
  BY <1>2, QueuePairAssumption DEF NicInit, Done
<1>4. ASSUME NEW i \in Position PROVE ~Has(i)
  <2>1. i \in Nat /\ s <= i /\ Depth \in Nat \ {0}
    BY <1>3, QueuePairAssumption DEF Position
  <2>2. ASSUME i < s + Depth PROVE sq[i % Depth].idx # i
    <3>1. i \in s .. s + Depth - 1
      BY <1>3, <2>1, <2>2
    <3> QED
      BY <1>2, <1>3, <2>1, <3>1, InitSlots
  <2> QED
    BY <1>3, <2>1, <2>2 DEF Has
<1>5. ASSUME NEW w \in Waves PROVE ~Holds(w) /\ ~FetchPosted(w)
  <2>1. pc[w] = "out"
    BY <1>2 DEF NicInit
  <2> QED
    BY <2>1 DEF Holds, FetchPosted, Storing, Waiting
<1>6. words \in [0 .. FetchCnt - 1 -> Callers \cup {NoCall}]
  BY <1>2 DEF NicInit
<1>7. BuffersApart
  BY <1>5, <1>6, BuffersTile DEF BuffersApart, Init, IonicInit
<1> QED
  BY <1>1, <1>4, <1>5, <1>7 DEF NFInv, Writers

(* Once a fetching atomic of an ionic queue pair has waited for its        *)
(* completion, each lane reads the result of its own atomic: no buffer of  *)
(* fetching_atomic_freelist is held by two wavefronts, and none is given   *)
(* back while the NIC may still write it.                                  *)
THEOREM IonicOwnResult == Spec => [](provider = "ionic" => OwnResult)
<1> DEFINE I == provider = "ionic" => NFInv
<1>1. Init => I
  BY IonicInitFetches
<1>2. I /\ [Next]_vars => I'
  BY ProviderStays, IonicStepFetches
<1>3. I => (provider = "ionic" => OwnResult)
  BY OwnWords
<1> QED
  BY <1>1, <1>2, <1>3, PTL DEF Spec
=============================================================================
