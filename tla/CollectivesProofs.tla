-------------------------- MODULE CollectivesProofs --------------------------
(***************************************************************************)
(* The collectives of the IPC backend leave the right result with every PE *)
(* of a team of any size, in any order of calls and for any number of ring *)
(* segments and of chunks of a reduce-scatter, and take down only flags    *)
(* they have seen, under two conditions: every reduce fits one phase       *)
(* (OnePhaseReductions) and alltoall_pSync is used in one way              *)
(* (OneUseOfFlags).  The first is needed: MCCollectives!LongReduces shows a*)
(* reduce of two phases that never returns.                                *)
(*                                                                         *)
(* The argument: two PEs are in the same part of the same call, or one is  *)
(* a part ahead and the other at the barrier between them, or in the       *)
(* alltoall by lanes past its adds (Lockstep).  So of the flags and blocks *)
(* in a PE's arrays those that are live come from PEs in one part, and     *)
(* each array holds exactly what those have put there: LaneFlags,          *)
(* DirectArrays, RingArrays, FlagsDown.  A PE cannot be more than its      *)
(* distance of flags ahead of one further round the ring (RingOrder),      *)
(* which keeps a slot of the work array from being overwritten before it   *)
(* is added, and the sums it has built are the contributions of an arc of  *)
(* the ring (RingSums).                                                    *)
(***************************************************************************)
EXTENDS GdaCollectives, TLAPS

----------------------------------------------------------------------------
(* Where a PE is.                                                          *)

Phasing == {"seed", "put", "flag", "wait", "add", "rput", "rflag", "rwait", "radd", "reset"}
DirectPc == {"put", "flag", "wait", "add"}
RingPc == {"rput", "rflag", "rwait", "radd"}
Lanes == {"aput", "aadd", "await", "areset", "count"}
Ending == {"barrier", "inside"}

IsPhased(p) == Op(p) \in {"REDUCE", "SCATTER"}

(* The part of a call p is in or about to begin. *)
Ph(p) == IF pc[p] = "out" THEN 1 ELSE phase[p]

Direct(p) == Calling(p) /\ IsPhased(p) /\ Phases(p)[Ph(p)] = 0
Ring(p) == Calling(p) /\ IsPhased(p) /\ Phases(p)[Ph(p)] # 0

Its(p) == Phases(p)[Ph(p)] * Iterations

Types ==
  /\ prog \in Programs /\ SafeProgram(prog)
  /\ DOMAIN pWrk = PEs /\ DOMAIN reduce_pSync = PEs /\ DOMAIN alltoall_pSync = PEs
  /\ DOMAIN dst = PEs
  /\ DOMAIN pc = PEs /\ DOMAIN todo = PEs
  /\ returned \in [PEs -> Nat] /\ phase \in [PEs -> Nat] /\ step \in [PEs -> Nat]
  /\ alltoall_sequence_number \in [PEs -> Nat]
  /\ entered \in [PEs -> Nat] /\ left \in [PEs -> Nat]
  /\ \A p \in PEs :
       /\ DOMAIN pWrk[p] = PEs
       /\ DOMAIN reduce_pSync[p] = 0 .. 2 * N - 1
       /\ DOMAIN alltoall_pSync[p] = 0 .. 2 * N - 1
       /\ DOMAIN dst[p] = 1 .. Len(prog)
       /\ \A n \in 1 .. Len(prog) : DOMAIN dst[p][n] = Cells(prog[n])

(* What a PE can be doing in its call. *)
InPhase(p) ==
  /\ IsPhased(p) /\ phase[p] \in 1 .. Len(Phases(p))
  /\ pc[p] \in Phasing \cup Ending
  /\ pc[p] \in DirectPc => Segments(p) = 0 /\ step[p] \in PEs \ {p}
  /\ pc[p] \in RingPc => Segments(p) # 0 /\ step[p] \in 0 .. Its(p) - 1
  /\ pc[p] = "radd" => FirstLoop(p)

InLanes(p) ==
  /\ Op(p) = "ALLTOALL_THREADS" /\ phase[p] = 1
  /\ pc[p] \in Lanes /\ todo[p] \in SUBSET PEs /\ todo[p] # {}

InPuts(p) ==
  /\ Op(p) \in {"ALLTOALL", "FCOLLECT", "BROADCAST"} /\ phase[p] = 1
  /\ pc[p] \in {"lput"} \cup Ending
  /\ pc[p] = "lput" => step[p] \in PEs

Where(p) ==
  /\ returned[p] <= Len(prog)
  /\ entered[p] = left[p] + IF pc[p] = "inside" THEN 1 ELSE 0
  /\ \/ pc[p] = "out"
     \/ Calling(p) /\ (InPhase(p) \/ InLanes(p) \/ InPuts(p))

----------------------------------------------------------------------------
(* Keeping step.                                                           *)

seq == alltoall_sequence_number

(* p has added to q's flag in this call. *)
Added(p, q) == pc[p] \in {"await", "areset", "count"} \/ (pc[p] = "aadd" /\ q \notin todo[p])

Level(p, q) ==
  /\ returned[p] = returned[q] /\ Ph(p) = Ph(q)
  /\ left[p] = left[q] /\ seq[p] = seq[q]

Follows(q, p) ==
  /\ Calling(p)
  /\ IF Ph(p) < Len(Phases(p)) THEN returned[q] = returned[p] /\ Ph(q) = Ph(p) + 1
                               ELSE returned[q] = returned[p] + 1 /\ Ph(q) = 1

(* q has left p behind: at the barrier, or in an alltoall by lanes when p  *)
(* has done its part for q.                                                *)
Ahead(q, p) ==
  /\ Follows(q, p)
  /\ \/ pc[p] = "inside" /\ left[q] = left[p] + 1 /\ seq[q] = seq[p]
     \/ Added(p, q) /\ left[q] = left[p] /\ seq[q] = seq[p] + 1

Lockstep == \A p, q \in PEs : Level(p, q) \/ Ahead(p, q) \/ Ahead(q, p)

----------------------------------------------------------------------------
(* The flags of the lanes.                                                 *)

Adds(p, q) == seq[p] + IF Added(p, q) THEN 1 ELSE 0
Saw(q, p) == pc[q] \in {"areset", "count"} \/ (pc[q] = "await" /\ p \notin todo[q])
Resets(q, p) ==
  seq[q] + IF pc[q] = "count" \/ (pc[q] = "areset" /\ p \notin todo[q]) THEN 1 ELSE 0

LaneFlags ==
  \A p, q \in PEs :
    /\ Saw(q, p) => Adds(p, q) > seq[q]
    /\ \A b \in 0 .. 1 : alltoall_pSync[q][b * N + p] =
         IF \E j \in Resets(q, p) .. Adds(p, q) - 1 : j % 2 = b THEN 1 ELSE 0

----------------------------------------------------------------------------
(* What is put straight into a destination.                                *)

IsPlain(n) == prog[n].phases = <<>>

HasPut(p, q, n) ==
  /\ prog[n].op = "BROADCAST" => p = 0
  /\ \/ n <= returned[p]
     \/ /\ n = Call(p)
        /\ \/ pc[p] \in Ending \cup {"aadd", "await", "areset", "count"}
           \/ pc[p] = "lput" /\ q < step[p]
           \/ pc[p] = "aput" /\ q \notin todo[p]

PutTo(p, q, n) ==
  {<<p, IF prog[n].op \in {"ALLTOALL", "ALLTOALL_THREADS"} THEN q ELSE 0, n>>}

PlainCells ==
  \A p, q \in PEs, n \in 1 .. Len(prog) : IsPlain(n) =>
    dst[q][n][<<0, p>>] = IF HasPut(p, q, n) THEN PutTo(p, q, n) ELSE {}

----------------------------------------------------------------------------
(* The direct reductions.                                                  *)

Before(q) == pc[q] \notin Ending

(* What p puts for its part is in q's arrays. *)
Live(p, q) == (Level(p, q) /\ Before(q)) \/ Ahead(p, q)

Flagged(p, q) ==
  pc[p] \in {"wait", "add", "reset"} \cup Ending \/ (pc[p] \in {"put", "flag"} /\ q < step[p])
Worked(p, q) == Flagged(p, q) \/ (pc[p] = "flag" /\ step[p] = q)
Taken(q, p) == pc[q] \in {"reset"} \cup Ending \/ (pc[q] \in {"wait", "add"} /\ p < step[q])
Noticed(q, p) == Taken(q, p) \/ (pc[q] = "add" /\ step[q] = p)

(* What r contributes to p in phase g of call n. *)
Piece(r, p, n, g) == <<r, <<g, IF prog[n].op = "REDUCE" THEN 0 ELSE p>>, n>>

(* A flag that p has noticed is of the part it is in. *)
DirectOrder ==
  \A p, q \in PEs : p # q /\ Direct(p) =>
    /\ Level(p, q) /\ Noticed(p, q) => Flagged(q, p)
    /\ Ahead(p, q) => ~Noticed(p, q)

DirectArrays ==
  \A p, q \in PEs : p # q /\ Direct(p) =>
    /\ Live(p, q) /\ Flagged(p, q) => reduce_pSync[q][p] = 1
    /\ Live(p, q) /\ Worked(p, q) => pWrk[q][p] = {Piece(p, q, Call(p), Ph(p))}

DirectSums ==
  \A p \in PEs : Direct(p) /\ pc[p] \notin {"out", "seed"} =>
    dst[p][Call(p)][<<Ph(p), 0>>] =
      {Piece(r, p, Call(p), Ph(p)) : r \in {x \in PEs : x = p \/ Taken(p, x)}}

----------------------------------------------------------------------------
(* The ring.  Iterations are counted through all segments.                 *)

Ended(p) == CASE pc[p] \in {"out", "seed"} -> 0
              [] pc[p] \in RingPc -> step[p]
              [] OTHER -> Its(p)
Awaited(p) == Ended(p) + IF pc[p] = "radd" THEN 1 ELSE 0
Flags(p) == Ended(p) + IF pc[p] \in {"rwait", "radd"} THEN 1 ELSE 0
Puts(p) == Ended(p) + IF pc[p] \in {"rflag", "rwait", "radd"} THEN 1 ELSE 0

Back(p, d) == IF p >= d THEN p - d ELSE p - d + N

RingOrder ==
  \A p \in PEs, d \in 1 .. N - 1 : Ring(p) =>
    /\ Level(p, Back(p, d)) => Awaited(p) <= Flags(Back(p, d)) + d - 1
    /\ Ahead(p, Back(p, d)) => Awaited(p) <= d - 1

FlagValue(i, s) == s + IF i < N - 1 THEN 100 ELSE 10
(* The sum over i + 1 PEs up to p, for cell c of segment s in call n. *)
Arc(p, i) == {Back(p, e) : e \in 0 .. i}
Sum(R, s, c, n) == {<<r, <<1, s * N + c>>, n>> : r \in R}

RingArrays ==
  \A q \in PEs : LET p == Back(q, 1) IN
    Ring(p) /\ Live(p, q) =>
      /\ \A s \in Nat, i \in 0 .. Iterations - 1 :
           s * Iterations + i < Flags(p) /\ Flags(p) <= s * Iterations + i + Iterations =>
             reduce_pSync[q][i] = FlagValue(i, s)
      /\ \A s \in Nat, i \in 0 .. N - 2 :
           s * Iterations + i < Puts(p) /\ Puts(p) <= s * Iterations + i + Iterations =>
             pWrk[q][Back(q, i)] = Sum(Arc(p, i), s, Back(q, i), Call(p))

(* The total has been put over the cell e places back. *)
Totalled(p, q, s, e) ==
  \/ Ahead(p, q)
  \/ Level(p, q) /\ Puts(p) > s * Iterations + IF e = N - 1 THEN N - 1 ELSE N + e

RingSums ==
  \A q \in PEs : Ring(q) /\ pc[q] \notin {"out", "seed"} =>
    \A s \in 0 .. Segments(q) - 1, e \in 0 .. N - 1 :
      dst[q][Call(q)][<<1, s * N + Back(q, e)>>] =
        Sum(IF e # N - 2 /\ Totalled(Back(q, 1), q, s, e) THEN PEs
            ELSE IF e # N - 1 /\ Ended(q) > s * Iterations + e THEN Arc(q, e + 1)
            ELSE {q}, s, Back(q, e), Call(q))

----------------------------------------------------------------------------
(* What nobody has raised is down.                                         *)

Raised(p, q, k) ==
  \/ Direct(p) /\ k = p /\ q # p /\ Flagged(p, q)
  \/ Ring(p) /\ q = Send(p) /\ k < Iterations /\ Flags(p) > k

FlagsDown ==
  \A q \in PEs, k \in 0 .. 2 * N - 1 :
    (\A p \in PEs : Live(p, q) => ~Raised(p, q, k)) => reduce_pSync[q][k] = 0

(* Phases that are over leave their cells complete. *)
Over(p, n, g) ==
  n <= returned[p] \/ (n = Call(p) /\ pc[p] # "out" /\ g < phase[p])

PhasesDone ==
  \A p \in PEs, n \in 1 .. Len(prog) : ~IsPlain(n) =>
    \A c \in DOMAIN dst[p][n] : Over(p, n, c[1]) =>
      dst[p][n][c] = {<<r, <<c[1], IF prog[n].op = "REDUCE" THEN c[2] ELSE p>>, n>> : r \in PEs}

Invariant ==
  /\ Types /\ (\A p \in PEs : Where(p)) /\ Lockstep
  /\ LaneFlags /\ PlainCells
  /\ DirectOrder /\ DirectArrays /\ DirectSums
  /\ RingOrder /\ RingArrays /\ RingSums
  /\ FlagsDown /\ PhasesDone

(* There are two PEs at least, and a segment has 2N - 2 iterations. *)
LEMMA Numbers ==
  /\ N \in Nat /\ N >= 2 /\ PEs = 0 .. N - 1
  /\ Iterations = 2 * N - 2 /\ Iterations \in Nat /\ Iterations >= N
  BY CollectivesAssumption DEF PEs, Iterations

(* A product with a number that is not negative keeps order. *)
LEMMA Monotone ==
  ASSUME NEW M \in Nat, NEW a \in Int, NEW b \in Int, a <= b
  PROVE  M * a <= M * b
  OBVIOUS

LEMMA DivMod ==
  ASSUME NEW M \in Nat \ {0}, NEW a \in Nat
  PROVE  /\ a = (a \div M) * M + (a % M)
         /\ a \div M \in Nat /\ a % M \in 0 .. M - 1
<1>1. a = M * (a \div M) + (a % M) /\ a \div M \in Int /\ a % M \in 0 .. M - 1
  OBVIOUS
<1>2. M * (a \div M) = (a \div M) * M
  BY <1>1
<1>3. a \div M \in Nat
  <2> SUFFICES ASSUME a \div M <= -1 PROVE FALSE
    BY <1>1
  <2> DEFINE d == a \div M
  <2>1. d \in Int /\ d <= -1 /\ a = M * d + (a % M)
    BY <1>1
  <2> HIDE DEF d
  <2>2. M * d <= M * (-1)
    BY <2>1, Monotone
  <2>3. M * (-1) = -M /\ M * d \in Int
    BY <2>1
  <2> QED
    BY <1>1, <2>1, <2>2, <2>3
<1> QED
  BY <1>1, <1>2, <1>3

(* Counts of iterations are in order of segment, then iteration. *)
LEMMA InSegments ==
  ASSUME NEW M \in Nat \ {0}, NEW s \in Nat, NEW t \in Nat, s < t
  PROVE  /\ s * M \in Nat /\ t * M \in Nat /\ s * M + M <= t * M
<1>1. M * (s + 1) <= M * t
  BY Monotone
<1>2. M * (s + 1) = M * s + M /\ M * s = s * M /\ M * t = t * M /\ s * M \in Nat /\ t * M \in Nat
  OBVIOUS
<1> QED
  BY <1>1, <1>2

(* One count is one iteration of one segment. *)
LEMMA SameIteration ==
  ASSUME NEW M \in Nat \ {0}, NEW s \in Nat, NEW t \in Nat,
         NEW i \in 0 .. M - 1, NEW j \in 0 .. M - 1, s * M + i = t * M + j
  PROVE  s = t /\ i = j
<1>0. s * M \in Nat /\ t * M \in Nat
  OBVIOUS
<1>1. ~(s < t)
  <2> SUFFICES ASSUME s < t PROVE FALSE
    OBVIOUS
  <2>1. s * M + M <= t * M
    BY InSegments
  <2> QED
    BY <1>0, <2>1
<1>2. ~(t < s)
  <2> SUFFICES ASSUME t < s PROVE FALSE
    OBVIOUS
  <2>1. t * M + M <= s * M
    BY InSegments
  <2> QED
    BY <1>0, <2>1
<1>3. s = t
  BY <1>1, <1>2
<1> QED
  BY <1>0, <1>3

----------------------------------------------------------------------------
(* Places in the circle.                                                   *)

LEMMA BackPE ==
  ASSUME NEW p \in PEs, NEW d \in 0 .. N - 1
  PROVE  /\ Back(p, d) \in PEs /\ Back(p, 0) = p
         /\ \A e \in 0 .. N - 1 : Back(p, d) = Back(p, e) => d = e
  BY Numbers DEF Back

LEMMA BackAll ==
  ASSUME NEW p \in PEs, NEW q \in PEs
  PROVE  \E d \in 0 .. N - 1 : q = Back(p, d)
<1> DEFINE d == IF q <= p THEN p - q ELSE p - q + N
<1>1. d \in 0 .. N - 1 /\ q = Back(p, d)
  BY Numbers DEF Back
<1> QED
  BY <1>1

LEMMA BackBack ==
  ASSUME NEW p \in PEs, NEW d \in 0 .. N - 1, NEW e \in 0 .. N - 1
  PROVE  /\ d + e < N => Back(Back(p, d), e) = Back(p, d + e)
         /\ d + e >= N => Back(Back(p, d), e) = Back(p, d + e - N)
  BY Numbers DEF Back

(* The remainders that the ring computes. *)
LEMMA Remainder ==
  ASSUME NEW x \in Int, NEW k \in Nat, NEW r \in 0 .. N - 1, x = r + k * N
  PROVE  x % N = r
<1>1. N \in Nat \ {0}
  BY Numbers
<1>2. x \in Nat
  BY <1>1
<1>3. x = (x \div N) * N + (x % N) /\ x \div N \in Nat /\ x % N \in 0 .. N - 1
  BY <1>1, <1>2, DivMod
<1>4. k * N + r = (x \div N) * N + (x % N)
  BY <1>1, <1>3
<1> QED
  BY <1>1, <1>3, <1>4, SameIteration

LEMMA SendIs ==
  ASSUME NEW p \in PEs
  PROVE  /\ Send(p) \in PEs /\ Send(p) # p /\ Back(Send(p), 1) = p
         /\ \A q \in PEs : Back(q, 1) = p => q = Send(p)
         /\ Send(p) = Back(p, N - 1)
<1>1. CASE p = N - 1
  <2>1. (p + 1) % N = 0
    <3>1. p + 1 = 0 + 1 * N
      BY <1>1, Numbers
    <3> QED
      BY <3>1, Numbers, Remainder
  <2> QED
    BY <1>1, <2>1, Numbers DEF Send, Back
<1>2. CASE p # N - 1
  <2>1. (p + 1) % N = p + 1
    <3>1. p + 1 = (p + 1) + 0 * N /\ p + 1 \in 0 .. N - 1
      BY <1>2, Numbers
    <3> QED
      BY <3>1, Numbers, Remainder
  <2> QED
    BY <1>2, <2>1, Numbers DEF Send, Back
<1> QED
  BY <1>1, <1>2

(* The chunk of iteration i, of the two loops. *)
Turn(i) == IF i < N THEN i ELSE i - N

LEMMA Chunks ==
  ASSUME NEW p \in PEs, Iter(p) \in 0 .. Iterations - 1
  PROVE  /\ Turn(Iter(p)) \in 0 .. N - 1
         /\ RecvChunk(p) = Back(p, Turn(Iter(p)))
         /\ SendChunk(p) = Back(Send(p), Turn(Iter(p)))
<1> DEFINE i == Iter(p)
           t == Turn(i)
<1>0. i \in 0 .. 2 * N - 3 /\ N \in Nat /\ N >= 2
  BY Numbers
<1>1. t \in 0 .. N - 1 /\ (i = t \/ i = t + N)
  BY <1>0 DEF Turn
<1> HIDE DEF i, t
<1>2. \A q \in PEs : (q - i + 2 * N) % N = Back(q, t)
  <2> TAKE q \in PEs
  <2>1. Back(q, t) \in 0 .. N - 1 /\ q \in 0 .. N - 1
    BY <1>1, BackPE, Numbers
  <2>2. \E k \in {0, 1, 2} : q - i + 2 * N = Back(q, t) + k * N
    <3>1. CASE q >= t
      <4>1. Back(q, t) = q - t
        BY <3>1 DEF Back
      <4>2. q - i + 2 * N = Back(q, t) + 2 * N \/ q - i + 2 * N = Back(q, t) + 1 * N
        BY <4>1, <1>0, <1>1, <2>1
      <4> QED
        BY <4>2
    <3>2. CASE ~(q >= t)
      <4>1. Back(q, t) = q - t + N
        BY <3>2 DEF Back
      <4>2. q - i + 2 * N = Back(q, t) + 1 * N \/ q - i + 2 * N = Back(q, t) + 0 * N
        BY <4>1, <1>0, <1>1, <2>1
      <4> QED
        BY <4>2
    <3> QED
      BY <3>1, <3>2
  <2>3. PICK k \in {0, 1, 2} : q - i + 2 * N = Back(q, t) + k * N
    BY <2>2
  <2>4. k \in Nat /\ q - i + 2 * N \in Int
    BY <1>0, <2>1
  <2> QED
    BY <2>1, <2>3, <2>4, Remainder
<1>3. (p - i + 2 * N) % N = Back(p, t)
  BY <1>2
<1>4. (p + 1 - i + 2 * N) % N = Back(Send(p), t)
  <2>1. CASE p # N - 1
    <3>1. p + 1 \in PEs /\ Send(p) = p + 1
      <4>1. p + 1 \in PEs /\ Back(p + 1, 1) = p
        BY <2>1, Numbers DEF Back
      <4> QED
        BY <4>1, SendIs
    <3>2. \A q \in PEs : q = p + 1 => (p + 1 - i + 2 * N) % N = Back(q, t)
      <4> SUFFICES ASSUME NEW q \in PEs, q = p + 1
                   PROVE  (p + 1 - i + 2 * N) % N = Back(q, t)
        OBVIOUS
      <4>1. p + 1 - i + 2 * N = q - i + 2 * N
        BY <1>0, Numbers
      <4>2. (q - i + 2 * N) % N = Back(q, t)
        BY <1>2
      <4> QED
        BY <4>1, <4>2
    <3> QED
      BY <3>1, <3>2
  <2>2. CASE p = N - 1
    <3>1. 0 \in PEs /\ Back(0, 1) = p
      BY <2>2, Numbers DEF Back
    <3>2. Send(p) = 0
      BY <3>1, SendIs
    <3> DEFINE x == 0 - i + 2 * N
    <3>3. x + N = p + 1 - i + 2 * N
      BY <2>2, <1>0
    <3>4. x % N = Back(0, t)
      BY <1>2, <3>1
    <3>5. x \in Nat /\ N \in Nat \ {0}
      BY <1>0
    <3> HIDE DEF x
    <3>6. x = (x \div N) * N + (x % N) /\ x \div N \in Nat /\ x % N \in 0 .. N - 1
      BY <3>5, DivMod
    <3> DEFINE r == x % N
    <3>7. r \in 0 .. N - 1 /\ \E k \in Nat : x = k * N + r
      BY <3>6
    <3> HIDE DEF r
    <3>8. PICK k \in Nat : x = k * N + r
      BY <3>7
    <3>9. (k + 1) * N = k * N + N /\ k * N \in Int
      BY <3>5
    <3>10. (x + N) % N = r
      <4>1. x + N = r + (k + 1) * N /\ k + 1 \in Nat /\ x + N \in Int
        BY <3>5, <3>7, <3>8, <3>9
      <4> QED
        BY <3>7, <4>1, Remainder
    <3>11. r = Back(0, t)
      BY <3>4 DEF r
    <3> QED
      BY <3>2, <3>3, <3>10, <3>11
  <2> QED
    BY <2>1, <2>2
<1> QED
  BY <1>1, <1>3, <1>4 DEF RecvChunk, SendChunk, i, t

(* What the library knows of x stays. *)
Same(x) ==
  /\ returned'[x] = returned[x] /\ pc'[x] = pc[x] /\ phase'[x] = phase[x]
  /\ step'[x] = step[x] /\ todo'[x] = todo[x]
  /\ left'[x] = left[x] /\ entered'[x] = entered[x]
  /\ alltoall_sequence_number'[x] = alltoall_sequence_number[x]

LEMMA CallIs ==
  ASSUME Types, NEW n \in 1 .. Len(prog)
  PROVE  /\ prog[n].op \in {"REDUCE", "SCATTER", "ALLTOALL", "ALLTOALL_THREADS", "FCOLLECT",
                            "BROADCAST"}
         /\ prog[n].op \in {"REDUCE", "SCATTER"} =>
              /\ prog[n].phases \in Seq(Nat) /\ Len(prog[n].phases) >= 1
              /\ Len(prog[n].phases) \in Nat /\ prog[n].phases # <<>>
         /\ prog[n].op = "REDUCE" => Len(prog[n].phases) = 1
         /\ prog[n].op = "SCATTER" =>
              \A g \in 1 .. Len(prog[n].phases) : prog[n].phases[g] = 0
         /\ prog[n].op \notin {"REDUCE", "SCATTER"} =>
              prog[n].phases = <<>> /\ Len(prog[n].phases) = 0
<1>1. IpcCall(prog[n]) /\ (prog[n].op = "REDUCE" => Len(prog[n].phases) = 1)
  BY DEF Types, SafeProgram, IpcProgram, OnePhaseReductions
<1>2. CASE prog[n].op = "SCATTER"
  BY <1>1, <1>2 DEF IpcCall
<1>3. CASE prog[n].op # "SCATTER"
  BY <1>1, <1>3 DEF IpcCall
<1> QED
  BY <1>2, <1>3

LEMMA CallNumber ==
  ASSUME Types, NEW p \in PEs
  PROVE  /\ Call(p) \in Nat \ {0} /\ Call(p) = returned[p] + 1
         /\ Len(prog) \in Nat
         /\ Calling(p) => Call(p) \in 1 .. Len(prog)
  BY DEF Types, SafeProgram, IpcProgram, Call, Calling

LEMMA PhasesAre ==
  ASSUME Types, NEW p \in PEs, Calling(p)
  PROVE  /\ Op(p) \in {"REDUCE", "SCATTER", "ALLTOALL", "ALLTOALL_THREADS", "FCOLLECT",
                       "BROADCAST"}
         /\ IsPhased(p) => /\ Phases(p) \in Seq(Nat) /\ Len(Phases(p)) >= 1
                           /\ Len(Phases(p)) \in Nat
         /\ Op(p) = "REDUCE" => Len(Phases(p)) = 1
         /\ Op(p) = "SCATTER" => \A g \in 1 .. Len(Phases(p)) : Phases(p)[g] = 0
         /\ ~IsPhased(p) => Phases(p) = <<>> /\ Len(Phases(p)) = 0
<1>1. Call(p) \in 1 .. Len(prog)
  BY CallNumber
<1> QED
  BY <1>1, CallIs DEF Op, Phases, IsPhased

LEMMA OthersStay ==
  ASSUME Types, NEW p \in PEs, Step(p)
  PROVE  prog' = prog /\ \A x \in PEs \ {p} : Same(x)
<1>1. CASE Enter(p)
  BY <1>1 DEF Types, Enter, Goto, Steps, shared, barrier, Same
<1>2. CASE Seed(p)
  BY <1>2 DEF Types, Seed, Goto, Steps, shared, barrier, Same
<1>3. CASE PutWork(p) \/ PutFlag(p)
  BY <1>3 DEF Types, PutWork, PutFlag, RaiseFlag, Goto, Steps, local, barrier, Same
<1>4. CASE SeeFlag(p) \/ AddWork(p)
  BY <1>4 DEF Types, SeeFlag, AddWork, Goto, Steps, local, barrier, Same
<1>5. CASE RingPut(p) \/ RingPutFlag(p)
  BY <1>5 DEF Types, RingPut, RingPutFlag, Goto, Steps, local, barrier, Same
<1>6. CASE RingSeeFlag(p) \/ RingAdd(p)
  BY <1>6 DEF Types, RingSeeFlag, RingAdd, Goto, Steps, local, barrier, Same
<1>7. CASE ResetFlags(p)
  BY <1>7 DEF Types, ResetFlags, Goto, barrier, Same
<1>8. CASE \E q \in PEs : ThreadPut(p, q) \/ ThreadAdd(p, q)
  BY <1>8 DEF Types, ThreadPut, ThreadAdd, Served, Goto, barrier, Same
<1>9. CASE \E q \in PEs : ThreadSee(p, q) \/ ThreadReset(p, q)
  BY <1>9 DEF Types, ThreadSee, ThreadReset, Served, Goto, barrier, Same
<1>10. CASE CountCall(p)
  BY <1>10 DEF Types, CountCall, Returns, Goto, barrier, Same
<1>11. CASE LinearPut(p) \/ NothingToPut(p)
  BY <1>11 DEF Types, LinearPut, NothingToPut, Goto, Steps, local, barrier, Same
<1>12. CASE EnterBarrier(p)
  BY <1>12 DEF Types, EnterBarrier, Barrier!Enter, Goto, Same
<1>13. CASE LeaveBarrier(p)
  BY <1>13 DEF Types, LeaveBarrier, Barrier!Leave, Returns, Goto, Same
<1> QED
  BY <1>1, <1>2, <1>3, <1>4, <1>5, <1>6, <1>7, <1>8, <1>9, <1>10, <1>11, <1>12, <1>13 DEF Step

(* Of a PE that stays, all that its place is told by stays. *)
LEMMA StayWhere ==
  ASSUME NEW x \in PEs, prog' = prog, Same(x)
  PROVE  Where(x)' <=> Where(x)
  BY DEF Same, Where, InPhase, InLanes, InPuts, Call, Calling, Op, IsPhased, Phases, Segments, Its,
         Ph, FirstLoop, Iter

(* A phase of p. *)
LEMMA InPhaseIs ==
  ASSUME Types, NEW p \in PEs, Where(p), pc[p] \in Phasing
  PROVE  /\ Calling(p) /\ IsPhased(p) /\ phase[p] \in 1 .. Len(Phases(p))
         /\ Ph(p) = phase[p] /\ Segments(p) \in Nat /\ Its(p) = Segments(p) * Iterations
         /\ Its(p) \in Nat /\ Calling(p)
         /\ Direct(p) <=> Segments(p) = 0
         /\ Ring(p) <=> Segments(p) # 0
         /\ Ring(p) => Op(p) = "REDUCE" /\ phase[p] = 1 /\ Len(Phases(p)) = 1
         /\ InPhase(p)
<1>1. Calling(p) /\ InPhase(p)
  BY DEF Where, Phasing, InLanes, InPuts, Lanes, Ending
<1>2. IsPhased(p) /\ phase[p] \in 1 .. Len(Phases(p))
  BY <1>1 DEF InPhase
<1>3. Phases(p) \in Seq(Nat) /\ Len(Phases(p)) \in Nat
  BY <1>1, <1>2, PhasesAre
<1>4. Segments(p) \in Nat
  BY <1>2, <1>3 DEF Segments
<1>5. pc[p] # "out" /\ Ph(p) = phase[p]
  BY DEF Phasing, Ph
<1>6. Its(p) = Segments(p) * Iterations /\ Iterations \in Nat
  BY <1>5, Numbers DEF Its, Segments
<1>7. Its(p) \in Nat
  BY <1>4, <1>6
<1>8. (Direct(p) <=> Segments(p) = 0) /\ (Ring(p) <=> Segments(p) # 0)
  BY <1>1, <1>2, <1>5 DEF Direct, Ring, Segments
<1>9. Ring(p) => Op(p) = "REDUCE" /\ phase[p] = 1 /\ Len(Phases(p)) = 1
  <2> SUFFICES ASSUME Ring(p) PROVE Op(p) = "REDUCE" /\ phase[p] = 1 /\ Len(Phases(p)) = 1
    OBVIOUS
  <2>1. Op(p) # "SCATTER"
    BY <1>1, <1>2, <1>8, PhasesAre DEF Segments
  <2>2. Op(p) = "REDUCE"
    BY <1>2, <2>1 DEF IsPhased
  <2>3. Len(Phases(p)) = 1
    BY <1>1, <2>2, PhasesAre
  <2> QED
    BY <1>2, <2>2, <2>3
<1> QED
  BY <1>1, <1>2, <1>4, <1>5, <1>6, <1>7, <1>8, <1>9

(* An iteration of the ring, of its segment. *)
LEMMA Iteration ==
  ASSUME Types, NEW p \in PEs, step[p] \in Nat
  PROVE  /\ Seg(p) \in Nat /\ Iter(p) \in 0 .. Iterations - 1
         /\ step[p] = Seg(p) * Iterations + Iter(p)
<1>1. Iterations \in Nat \ {0}
  BY Numbers
<1> QED
  BY <1>1, DivMod DEF Seg, Iter

LEMMA RingIteration ==
  ASSUME Types, NEW p \in PEs, Where(p), pc[p] \in RingPc
  PROVE  /\ Seg(p) \in 0 .. Segments(p) - 1 /\ Iter(p) \in 0 .. Iterations - 1
         /\ step[p] = Seg(p) * Iterations + Iter(p)
         /\ Ring(p) /\ step[p] \in 0 .. Its(p) - 1
<1>1. pc[p] \in Phasing
  BY DEF RingPc, Phasing
<1>2. InPhase(p) /\ Its(p) = Segments(p) * Iterations /\ Segments(p) \in Nat /\ Its(p) \in Nat
  BY <1>1, InPhaseIs
<1>3. step[p] \in 0 .. Its(p) - 1 /\ Segments(p) # 0
  BY <1>2 DEF InPhase
<1>4. Seg(p) \in Nat /\ Iter(p) \in 0 .. Iterations - 1 /\ step[p] = Seg(p) * Iterations + Iter(p)
  BY <1>2, <1>3, Iteration
<1>5. Seg(p) < Segments(p)
  <2> SUFFICES ASSUME Segments(p) <= Seg(p) PROVE FALSE
    BY <1>2, <1>4
  <2>1. Iterations * Segments(p) <= Iterations * Seg(p)
    BY <1>2, <1>4, Numbers, Monotone
  <2>2. Iterations * Segments(p) = Segments(p) * Iterations /\ Iterations * Seg(p) = Seg(p) * Iterations
    BY <1>2, <1>4, Numbers
  <2>3. Seg(p) * Iterations \in Nat
    BY <1>4, Numbers
  <2> QED
    BY <1>2, <1>3, <1>4, <2>1, <2>2, <2>3
<1> QED
  BY <1>1, <1>2, <1>3, <1>4, <1>5, InPhaseIs

LEMMA CallStays ==
  ASSUME NEW p \in PEs, prog' = prog, returned'[p] = returned[p]
  PROVE  /\ Call(p)' = Call(p) /\ Calling(p)' = Calling(p) /\ Op(p)' = Op(p)
         /\ Phases(p)' = Phases(p) /\ IsPhased(p)' = IsPhased(p)
  BY DEF Call, Calling, Op, Phases, IsPhased

(* A step inside a phase, or to its end. *)
LEMMA PhaseWhere ==
  ASSUME Types, NEW p \in PEs, Where(p), prog' = prog, Calling(p), IsPhased(p),
         returned'[p] = returned[p], left'[p] = left[p],
         entered'[p] = left'[p] + IF pc'[p] = "inside" THEN 1 ELSE 0,
         phase'[p] \in 1 .. Len(Phases(p)),
         pc'[p] \in Phasing \cup Ending,
         pc'[p] \in DirectPc => Phases(p)[phase'[p]] = 0 /\ step'[p] \in PEs \ {p},
         pc'[p] \in RingPc => /\ Phases(p)[phase'[p]] # 0
                              /\ step'[p] \in 0 .. Phases(p)[phase'[p]] * Iterations - 1,
         pc'[p] = "radd" => step'[p] % Iterations < N - 1
  PROVE  Where(p)'
<1>1. /\ Call(p)' = Call(p) /\ Calling(p)' = Calling(p) /\ Op(p)' = Op(p)
      /\ Phases(p)' = Phases(p) /\ IsPhased(p)' = IsPhased(p)
  BY CallStays
<1>2. Segments(p)' = Phases(p)[phase'[p]]
  BY <1>1 DEF Segments
<1>3. pc'[p] \in RingPc => Its(p)' = Phases(p)[phase'[p]] * Iterations
  BY <1>1 DEF Its, Ph, RingPc, Iterations
<1>4. FirstLoop(p)' <=> step'[p] % Iterations < N - 1
  BY DEF FirstLoop, Iter, Iterations
<1>5. InPhase(p)'
  BY <1>1, <1>2, <1>3, <1>4 DEF InPhase, RingPc
<1>6. returned'[p] <= Len(prog')
  BY DEF Where
<1> QED
  BY <1>1, <1>5, <1>6 DEF Where

(* A step of the lanes. *)
LEMMA LanesWhere ==
  ASSUME Types, NEW p \in PEs, Where(p), prog' = prog, Calling(p), Op(p) = "ALLTOALL_THREADS",
         returned'[p] = returned[p], left'[p] = left[p], entered'[p] = entered[p],
         entered[p] = left[p], phase'[p] = 1,
         pc'[p] \in Lanes, todo'[p] \in SUBSET PEs, todo'[p] # {}
  PROVE  Where(p)'
<1>1. Calling(p)' = Calling(p) /\ Op(p)' = Op(p)
  BY CallStays
<1>2. InLanes(p)'
  BY <1>1 DEF InLanes
<1>3. returned'[p] <= Len(prog')
  BY DEF Where
<1>4. pc'[p] # "inside"
  BY DEF Lanes
<1> QED
  BY <1>1, <1>2, <1>3, <1>4 DEF Where, Types

LEMMA PutsWhere ==
  ASSUME Types, NEW p \in PEs, Where(p), prog' = prog, Calling(p),
         Op(p) \in {"ALLTOALL", "FCOLLECT", "BROADCAST"},
         returned'[p] = returned[p], left'[p] = left[p],
         entered'[p] = left'[p] + IF pc'[p] = "inside" THEN 1 ELSE 0,
         phase'[p] = 1,
         pc'[p] \in {"lput"} \cup Ending, pc'[p] = "lput" => step'[p] \in PEs
  PROVE  Where(p)'
<1>1. Calling(p)' = Calling(p) /\ Op(p)' = Op(p)
  BY CallStays
<1>2. InPuts(p)'
  BY <1>1 DEF InPuts, PEs
<1>3. returned'[p] <= Len(prog')
  BY DEF Where
<1> QED
  BY <1>1, <1>2, <1>3 DEF Where

(* Out of a call. *)
LEMMA OutWhere ==
  ASSUME Types, NEW p \in PEs, Where(p), prog' = prog, pc'[p] = "out",
         returned'[p] <= Len(prog), entered'[p] = left'[p], left'[p] \in Nat
  PROVE  Where(p)'
  BY DEF Where, Types

(* The next peer is another PE. *)
LEMMA Peers ==
  ASSUME NEW p \in PEs
  PROVE  /\ FirstPeer(p) \in PEs \ {p} /\ \A q \in PEs : q < FirstPeer(p) => q = p
         /\ step[p] \in PEs \ {p} =>
              /\ ~IsLast(p) => NextPeer(p) \in PEs \ {p}
              /\ \A q \in PEs : q # p => (q < NextPeer(p) <=> q < step[p] \/ q = step[p])
              /\ NextPeer(p) \in Nat
  BY Numbers DEF FirstPeer, NextPeer, IsLast

LEMMA TypesStep ==
  ASSUME Types, NEW p \in PEs, Where(p), Step(p)
  PROVE  Types'
<1>1. prog' = prog
  BY OthersStay
<1>2. /\ DOMAIN pc' = PEs /\ DOMAIN todo' = PEs
      /\ returned' \in [PEs -> Nat] /\ phase' \in [PEs -> Nat] /\ step' \in [PEs -> Nat]
      /\ alltoall_sequence_number' \in [PEs -> Nat]
      /\ entered' \in [PEs -> Nat] /\ left' \in [PEs -> Nat]
  <2>0. /\ NextPeer(p) \in Nat /\ FirstPeer(p) \in Nat /\ Call(p) \in Nat
        /\ step[p] \in Nat /\ phase[p] \in Nat
    BY Numbers DEF NextPeer, FirstPeer, Call, Types
  <2>1. CASE Enter(p)
    BY <2>1 DEF Types, Enter, Goto, Steps, shared, barrier
  <2>2. CASE Seed(p)
    BY <2>0, <2>2 DEF Types, Seed, Goto, Steps, barrier
  <2>3. CASE PutWork(p) \/ PutFlag(p) \/ SeeFlag(p) \/ AddWork(p)
    BY <2>0, <2>3 DEF Types, PutWork, PutFlag, RaiseFlag, SeeFlag, AddWork, Goto, Steps, local, barrier
  <2>4. CASE RingPut(p) \/ RingPutFlag(p) \/ RingSeeFlag(p) \/ RingAdd(p)
    <3>1. CASE RingPut(p)
      BY <2>0, <3>1 DEF Types, RingPut, Goto, local, barrier
    <3>2. CASE RingPutFlag(p)
      BY <2>0, <3>2 DEF Types, RingPutFlag, Goto, local, barrier
    <3>3. CASE RingSeeFlag(p)
      BY <2>0, <3>3 DEF Types, RingSeeFlag, Goto, Steps, local, barrier
    <3>4. CASE RingAdd(p)
      <4>1. /\ \E s : pc' = [pc EXCEPT ![p] = s]
            /\ step' = [step EXCEPT ![p] = step[p] + 1]
            /\ UNCHANGED <<todo, returned, phase, alltoall_sequence_number, entered, left>>
        BY <3>4 DEF RingAdd, Goto, Steps, local, barrier
      <4> QED
        BY <2>0, <4>1 DEF Types
    <3> QED
      BY <2>4, <3>1, <3>2, <3>3, <3>4
  <2>5. CASE ResetFlags(p)
    BY <2>0, <2>5 DEF Types, ResetFlags, Goto, barrier
  <2>6. CASE \E q \in PEs : ThreadPut(p, q) \/ ThreadAdd(p, q) \/ ThreadSee(p, q) \/ ThreadReset(p, q)
    BY <2>6 DEF Types, ThreadPut, ThreadAdd, ThreadSee, ThreadReset, Served, Goto, barrier
  <2>7. CASE CountCall(p)
    BY <2>0, <2>7 DEF Types, CountCall, Returns, Goto, barrier
  <2>8. CASE LinearPut(p) \/ NothingToPut(p)
    <3>1. CASE LinearPut(p)
      BY <2>0, <3>1 DEF Types, LinearPut, Goto, Steps, local, barrier
    <3>2. CASE NothingToPut(p)
      BY <3>2 DEF Types, NothingToPut, Goto, local, barrier
    <3> QED
      BY <2>8, <3>1, <3>2
  <2>9. CASE EnterBarrier(p)
    BY <2>9 DEF Types, EnterBarrier, Barrier!Enter, Goto
  <2>10. CASE LeaveBarrier(p)
    <3>1. returned' = returned \/ returned' = [returned EXCEPT ![p] = Call(p)]
      BY <2>10 DEF LeaveBarrier, Returns
    <3>2. \E k \in Nat : phase' = [phase EXCEPT ![p] = k]
      <4>1. phase' = [phase EXCEPT ![p] = phase[p] + IF phase[p] < Len(Phases(p)) THEN 1 ELSE 0]
        BY <2>10 DEF LeaveBarrier
      <4>2. phase[p] + (IF phase[p] < Len(Phases(p)) THEN 1 ELSE 0) \in Nat
        BY <2>0
      <4> QED
        BY <4>1, <4>2
    <3>3. \E s : pc' = [pc EXCEPT ![p] = s]
      BY <2>10 DEF LeaveBarrier, Goto
    <3>4. left' = [left EXCEPT ![p] = entered[p]] /\ entered' = entered
      BY <2>10 DEF LeaveBarrier, Barrier!Leave
    <3>5. step' = step /\ todo' = todo /\ alltoall_sequence_number' = alltoall_sequence_number
      BY <2>10 DEF LeaveBarrier
    <3> QED
      <4>1. returned' \in [PEs -> Nat]
        BY <2>0, <3>1 DEF Types
      <4>2. phase' \in [PEs -> Nat]
        BY <3>2 DEF Types
      <4>3. DOMAIN pc' = PEs
        BY <3>3 DEF Types
      <4>4. left' \in [PEs -> Nat] /\ entered' \in [PEs -> Nat]
        BY <3>4 DEF Types
      <4> QED
        BY <3>5, <4>1, <4>2, <4>3, <4>4 DEF Types
  <2> QED
    BY <2>1, <2>2, <2>3, <2>4, <2>5, <2>6, <2>7, <2>8, <2>9, <2>10 DEF Step
<1>3. /\ DOMAIN pWrk' = PEs /\ DOMAIN reduce_pSync' = PEs /\ DOMAIN alltoall_pSync' = PEs
      /\ \A q \in PEs : /\ DOMAIN pWrk'[q] = PEs
                        /\ DOMAIN reduce_pSync'[q] = 0 .. 2 * N - 1
                        /\ DOMAIN alltoall_pSync'[q] = 0 .. 2 * N - 1
  <2>1. CASE Enter(p) \/ Seed(p) \/ CountCall(p)
    BY <2>1 DEF Types, Enter, Seed, CountCall, shared
  <2>2. CASE PutWork(p) \/ PutFlag(p) \/ SeeFlag(p) \/ AddWork(p)
    BY <2>2 DEF Types, PutWork, PutFlag, RaiseFlag, SeeFlag, AddWork, Put, shared
  <2>3. CASE RingPut(p) \/ RingPutFlag(p) \/ RingSeeFlag(p) \/ RingAdd(p)
    BY <2>3 DEF Types, RingPut, RingPutFlag, RingSeeFlag, RingAdd, Put, shared
  <2>4. CASE ResetFlags(p)
    BY <2>4 DEF Types, ResetFlags
  <2>5. CASE \E q \in PEs : ThreadPut(p, q) \/ ThreadAdd(p, q) \/ ThreadSee(p, q) \/ ThreadReset(p, q)
    BY <2>5 DEF Types, ThreadPut, ThreadAdd, ThreadSee, ThreadReset, Put, shared
  <2>6. CASE LinearPut(p) \/ NothingToPut(p)
    BY <2>6 DEF Types, LinearPut, NothingToPut, shared
  <2>7. CASE EnterBarrier(p) \/ LeaveBarrier(p)
    BY <2>7 DEF Types, EnterBarrier, LeaveBarrier, shared
  <2> QED
    BY <2>1, <2>2, <2>3, <2>4, <2>5, <2>6, <2>7 DEF Step
<1>4. /\ DOMAIN dst' = PEs
      /\ \A q \in PEs : /\ DOMAIN dst'[q] = 1 .. Len(prog)
                        /\ \A n \in 1 .. Len(prog) : DOMAIN dst'[q][n] = Cells(prog[n])
  <2> USE DEF Types
  <2>1. dst' = dst => /\ DOMAIN dst' = PEs
                      /\ \A q \in PEs : /\ DOMAIN dst'[q] = 1 .. Len(prog)
                                        /\ \A n \in 1 .. Len(prog) : DOMAIN dst'[q][n] = Cells(prog[n])
    OBVIOUS
  <2>2. \A q, c, v : PutDst(p, q, c, v) => 
          /\ DOMAIN dst' = PEs
          /\ \A x \in PEs : /\ DOMAIN dst'[x] = 1 .. Len(prog)
                            /\ \A n \in 1 .. Len(prog) : DOMAIN dst'[x][n] = Cells(prog[n])
    BY DEF PutDst
  <2>3. CASE Enter(p) \/ CountCall(p) \/ PutWork(p) \/ PutFlag(p) \/ SeeFlag(p)
    BY <2>1, <2>3 DEF Enter, CountCall, PutWork, PutFlag, RaiseFlag, SeeFlag, shared
  <2>4. CASE Seed(p)
    <3>1. CASE Segments(p) = 0
      BY <2>2, <2>4, <3>1 DEF Seed
    <3>2. CASE Segments(p) # 0
      <4> DEFINE f == [c \in DOMAIN dst[p][Call(p)] |->
                        IF c \in RingCells(phase[p], Segments(p)) THEN {<<p, c, Call(p)>>}
                        ELSE dst[p][Call(p)][c]]
      <4>1. dst' = [dst EXCEPT ![p] = [dst[p] EXCEPT ![Call(p)] = f]]
        BY <2>4, <3>2 DEF Seed
      <4>2. DOMAIN f = DOMAIN dst[p][Call(p)]
        OBVIOUS
      <4> HIDE DEF f
      <4> QED
        BY <4>1, <4>2
    <3> QED
      BY <3>1, <3>2
  <2>5. CASE AddWork(p) \/ RingAdd(p)
    BY <2>2, <2>5 DEF AddWork, RingAdd, Add
  <2>6. CASE RingPut(p)
    BY <2>1, <2>2, <2>6 DEF RingPut
  <2>7. CASE RingPutFlag(p) \/ RingSeeFlag(p) \/ ResetFlags(p)
    BY <2>1, <2>7 DEF RingPutFlag, RingSeeFlag, ResetFlags, shared
  <2>8. CASE \E q \in PEs : ThreadPut(p, q)
    BY <2>2, <2>8 DEF ThreadPut
  <2>9. CASE \E q \in PEs : ThreadAdd(p, q) \/ ThreadSee(p, q) \/ ThreadReset(p, q)
    BY <2>1, <2>9 DEF ThreadAdd, ThreadSee, ThreadReset, shared
  <2>10. CASE LinearPut(p)
    BY <2>2, <2>10 DEF LinearPut
  <2>11. CASE NothingToPut(p) \/ EnterBarrier(p) \/ LeaveBarrier(p)
    BY <2>1, <2>11 DEF NothingToPut, EnterBarrier, LeaveBarrier, shared
  <2> QED
    BY <2>3, <2>4, <2>5, <2>6, <2>7, <2>8, <2>9, <2>10, <2>11 DEF Step
<1> QED
  BY <1>1, <1>2, <1>3, <1>4 DEF Types

LEMMA EnterWhere ==
  ASSUME Types, NEW p \in PEs, Where(p), Enter(p)
  PROVE  Where(p)'
<1>1. /\ Calling(p) /\ pc[p] = "out" /\ phase'[p] = 1 /\ step'[p] = 0 /\ todo'[p] = PEs
      /\ prog' = prog /\ returned'[p] = returned[p] /\ left'[p] = left[p]
      /\ entered'[p] = entered[p]
  BY DEF Types, Enter, Goto, Steps, barrier
<1>2. entered[p] = left[p] /\ left[p] \in Nat
  BY <1>1 DEF Where, Types
<1>3. pc'[p] = CASE Op(p) \in Reductions \cup {"SCATTER"} -> "seed"
                 [] Op(p) = "ALLTOALL_THREADS" -> "aput"
                 [] OTHER -> "lput"
  BY DEF Types, Enter, Goto
<1>4. CASE IsPhased(p)
  <2>1. pc'[p] = "seed"
    BY <1>3, <1>4 DEF IsPhased, Reductions
  <2>2. 1 \in 1 .. Len(Phases(p))
    BY <1>1, <1>4, PhasesAre
  <2> QED
    BY <1>1, <1>2, <1>4, <2>1, <2>2, PhaseWhere DEF Phasing, DirectPc, RingPc
<1>5. CASE Op(p) = "ALLTOALL_THREADS"
  <2>1. pc'[p] = "aput" /\ PEs # {}
    BY <1>3, <1>5, Numbers DEF Reductions
  <2> QED
    BY <1>1, <1>2, <1>5, <2>1, LanesWhere DEF Lanes
<1>6. CASE ~IsPhased(p) /\ Op(p) # "ALLTOALL_THREADS"
  <2>1. Op(p) \in {"ALLTOALL", "FCOLLECT", "BROADCAST"}
    BY <1>1, <1>6, PhasesAre DEF IsPhased
  <2>2. pc'[p] = "lput" /\ 0 \in PEs
    BY <1>3, <2>1, Numbers DEF Reductions
  <2> QED
    BY <1>1, <1>2, <2>1, <2>2, PutsWhere
<1> QED
  BY <1>4, <1>5, <1>6

(* What a phase's step leaves. *)
LEMMA LocalStays ==
  ASSUME Types, NEW p \in PEs, Where(p), UNCHANGED local, pc[p] \notin {"out", "inside"}
  PROVE  /\ prog' = prog /\ returned'[p] = returned[p] /\ left'[p] = left[p]
         /\ entered'[p] = entered[p] /\ entered[p] = left[p] /\ left[p] \in Nat
         /\ phase'[p] = phase[p] /\ todo'[p] = todo[p]
         /\ alltoall_sequence_number'[p] = alltoall_sequence_number[p]
         /\ Calling(p)
  BY DEF local, barrier, Where, Types

LEMMA DirectWhere ==
  ASSUME Types, NEW p \in PEs, Where(p), PutWork(p) \/ PutFlag(p) \/ SeeFlag(p) \/ AddWork(p)
  PROVE  Where(p)'
<1>1. pc[p] \in DirectPc /\ UNCHANGED local
  BY DEF PutWork, PutFlag, RaiseFlag, SeeFlag, AddWork, Goto, DirectPc
<1>2. pc[p] \in Phasing /\ pc[p] \notin {"out", "inside"}
  BY <1>1 DEF DirectPc, Phasing
<1>3. Calling(p) /\ IsPhased(p) /\ phase[p] \in 1 .. Len(Phases(p)) /\ InPhase(p)
  BY <1>2, InPhaseIs
<1>4. Phases(p)[phase[p]] = 0 /\ step[p] \in PEs \ {p}
  BY <1>1, <1>3 DEF InPhase, Segments
<1>5. pc'[p] \in DirectPc \cup {"reset"} /\ (pc'[p] \in DirectPc => step'[p] \in PEs \ {p})
  <2>0. FirstPeer(p) \in PEs \ {p} /\ (~IsLast(p) => NextPeer(p) \in PEs \ {p})
    BY <1>4, Peers
  <2>1. CASE PutWork(p) \/ SeeFlag(p)
    BY <1>4, <2>1 DEF Types, PutWork, SeeFlag, Goto, DirectPc
  <2>2. CASE PutFlag(p)
    BY <2>0, <2>2 DEF Types, PutFlag, RaiseFlag, Goto, Steps, DirectPc
  <2>3. CASE AddWork(p)
    <3>1. pc'[p] = (IF IsLast(p) THEN "reset" ELSE "wait") /\ step'[p] = NextPeer(p)
      BY <2>3 DEF Types, AddWork, Goto, Steps
    <3> QED
      BY <2>0, <3>1 DEF DirectPc
  <2> QED
    BY <2>1, <2>2, <2>3
<1>6. /\ prog' = prog /\ returned'[p] = returned[p] /\ left'[p] = left[p]
      /\ entered'[p] = entered[p] /\ entered[p] = left[p] /\ left[p] \in Nat
      /\ phase'[p] = phase[p]
  BY <1>1, <1>2, LocalStays
<1> QED
  BY <1>3, <1>4, <1>5, <1>6, PhaseWhere DEF DirectPc, RingPc, Phasing

LEMMA RingWhere ==
  ASSUME Types, NEW p \in PEs, Where(p), RingPut(p) \/ RingPutFlag(p) \/ RingSeeFlag(p) \/ RingAdd(p)
  PROVE  Where(p)'
<1>1. pc[p] \in RingPc /\ UNCHANGED local
  BY DEF RingPut, RingPutFlag, RingSeeFlag, RingAdd, Goto, RingPc
<1>2. pc[p] \in Phasing /\ pc[p] \notin {"out", "inside"}
  BY <1>1 DEF RingPc, Phasing
<1>3. /\ Calling(p) /\ IsPhased(p) /\ phase[p] \in 1 .. Len(Phases(p)) /\ InPhase(p)
      /\ Its(p) = Segments(p) * Iterations /\ Its(p) \in Nat
  BY <1>2, InPhaseIs
<1>4. Phases(p)[phase[p]] # 0 /\ step[p] \in 0 .. Its(p) - 1
  BY <1>1, <1>3 DEF InPhase, Segments
<1>5. /\ pc'[p] \in RingPc \cup {"reset"}
      /\ pc'[p] \in RingPc => step'[p] \in 0 .. Its(p) - 1
      /\ pc'[p] = "radd" => step'[p] = step[p] /\ FirstLoop(p)
  <2>1. CASE RingPut(p) \/ RingPutFlag(p)
    BY <1>4, <2>1 DEF Types, RingPut, RingPutFlag, Goto, RingPc
  <2>2. AfterIteration(p) = (IF step[p] + 1 = Its(p) THEN "reset" ELSE "rput")
    BY <1>3 DEF AfterIteration
  <2>3. CASE RingSeeFlag(p)
    <3>1. /\ pc'[p] = (IF FirstLoop(p) THEN "radd" ELSE AfterIteration(p))
          /\ step'[p] = IF FirstLoop(p) THEN step[p] ELSE step[p] + 1
      BY <2>3 DEF Types, RingSeeFlag, Goto, Steps
    <3> QED
      BY <1>3, <1>4, <2>2, <3>1 DEF RingPc
  <2>4. CASE RingAdd(p)
    <3>1. pc'[p] = AfterIteration(p) /\ step'[p] = step[p] + 1
      BY <2>4 DEF Types, RingAdd, Goto, Steps
    <3> QED
      BY <1>3, <1>4, <2>2, <3>1 DEF RingPc
  <2> QED
    BY <2>1, <2>3, <2>4
<1>6. /\ prog' = prog /\ returned'[p] = returned[p] /\ left'[p] = left[p]
      /\ entered'[p] = entered[p] /\ entered[p] = left[p] /\ left[p] \in Nat
      /\ phase'[p] = phase[p]
  BY <1>1, <1>2, LocalStays
<1>7. pc'[p] = "radd" => step'[p] % Iterations < N - 1
  BY <1>5 DEF FirstLoop, Iter
<1>8. Its(p) = Phases(p)[phase[p]] * Iterations
  BY <1>3 DEF Segments
<1> QED
  BY <1>3, <1>4, <1>5, <1>6, <1>7, <1>8, PhaseWhere DEF DirectPc, RingPc, Phasing

LEMMA SeedWhere ==
  ASSUME Types, NEW p \in PEs, Where(p), Seed(p)
  PROVE  Where(p)'
<1>1. pc[p] = "seed" /\ pc'[p] = (IF Segments(p) = 0 THEN "put" ELSE "rput")
      /\ step'[p] = (IF Segments(p) = 0 THEN FirstPeer(p) ELSE 0)
      /\ prog' = prog /\ returned' = returned /\ phase' = phase /\ left' = left /\ entered' = entered
  BY DEF Types, Seed, Goto, Steps, barrier
<1>2. entered[p] = left[p] /\ left[p] \in Nat
  BY <1>1 DEF Where, Types
<1>3. /\ Calling(p) /\ IsPhased(p) /\ phase[p] \in 1 .. Len(Phases(p))
      /\ Segments(p) \in Nat
  BY <1>1, InPhaseIs DEF Phasing
<1>4. Segments(p) = Phases(p)[phase[p]]
  BY DEF Segments
<1>5. FirstPeer(p) \in PEs \ {p}
  BY Peers
<1>6. Segments(p) # 0 => Segments(p) * Iterations \in Nat \ {0}
  <2> SUFFICES ASSUME Segments(p) # 0 PROVE Segments(p) * Iterations \in Nat \ {0}
    OBVIOUS
  <2>1. 0 < Segments(p) /\ Iterations \in Nat \ {0}
    BY <1>3, Numbers
  <2>2. Segments(p) * Iterations \in Nat /\ 0 * Iterations + Iterations <= Segments(p) * Iterations
    BY <1>3, <2>1, InSegments
  <2> QED
    BY <2>1, <2>2
<1> QED
  BY <1>1, <1>2, <1>3, <1>4, <1>5, <1>6, PhaseWhere DEF DirectPc, RingPc, Phasing

LEMMA ResetWhere ==
  ASSUME Types, NEW p \in PEs, Where(p), ResetFlags(p)
  PROVE  /\ Where(p)'
         /\ pc[p] = "reset" /\ pc'[p] = "barrier" /\ phase' = phase /\ ~NextPhase(p)
<1>1. /\ pc[p] = "reset" /\ pc'[p] = (IF NextPhase(p) THEN "seed" ELSE "barrier")
      /\ phase' = [phase EXCEPT ![p] = phase[p] + IF NextPhase(p) THEN 1 ELSE 0]
      /\ prog' = prog /\ returned' = returned /\ left' = left /\ entered' = entered
  BY DEF Types, ResetFlags, Goto, barrier
<1>2. entered[p] = left[p] /\ left[p] \in Nat
  BY <1>1 DEF Where, Types
<1>3. Calling(p) /\ IsPhased(p) /\ phase[p] \in 1 .. Len(Phases(p))
  BY <1>1, InPhaseIs DEF Phasing
<1>4. ~NextPhase(p)
  <2>1. CASE Op(p) = "REDUCE"
    <3>1. Len(Phases(p)) = 1
      BY <1>3, <2>1, PhasesAre
    <3>2. phase[p] = 1
      BY <1>3, <3>1
    <3> QED
      BY <3>1, <3>2 DEF NextPhase
  <2>2. CASE Op(p) = "SCATTER"
    BY <2>2 DEF NextPhase, Reductions
  <2> QED
    BY <1>3, <2>1, <2>2 DEF IsPhased
<1>5. phase' = phase
  BY <1>1, <1>4 DEF Types
<1>6. pc'[p] = "barrier"
  BY <1>1, <1>4
<1> QED
  BY <1>1, <1>2, <1>3, <1>4, <1>5, <1>6, PhaseWhere DEF Ending, DirectPc, RingPc

LEMMA ThreadWhere ==
  ASSUME Types, NEW p \in PEs, Where(p), NEW q \in PEs,
         ThreadPut(p, q) \/ ThreadAdd(p, q) \/ ThreadSee(p, q) \/ ThreadReset(p, q)
  PROVE  Where(p)'
<1>1. /\ pc[p] \in {"aput", "aadd", "await", "areset"} /\ pc'[p] \in Lanes
      /\ todo'[p] = IF todo[p] = {q} THEN PEs ELSE todo[p] \ {q}
      /\ prog' = prog /\ returned' = returned /\ left' = left /\ entered' = entered
      /\ phase' = phase /\ q \in todo[p]
  <2>1. CASE ThreadPut(p, q)
    BY <2>1 DEF Types, ThreadPut, Served, Goto, Lanes, barrier
  <2>2. CASE ThreadAdd(p, q)
    BY <2>2 DEF Types, ThreadAdd, Served, Goto, Lanes, barrier
  <2>3. CASE ThreadSee(p, q)
    BY <2>3 DEF Types, ThreadSee, Served, Goto, Lanes, barrier
  <2>4. CASE ThreadReset(p, q)
    BY <2>4 DEF Types, ThreadReset, Served, Goto, Lanes, barrier
  <2> QED
    BY <2>1, <2>2, <2>3, <2>4
<1>2. entered[p] = left[p]
  BY <1>1 DEF Where, Types
<1>3. Calling(p) /\ InLanes(p)
  BY <1>1 DEF Where, InPhase, InPuts, Phasing, Ending
<1>4. todo'[p] \in SUBSET PEs /\ todo'[p] # {}
  BY <1>1, <1>3, Numbers DEF InLanes
<1> QED
  BY <1>1, <1>2, <1>3, <1>4, LanesWhere DEF InLanes

LEMMA LinearWhere ==
  ASSUME Types, NEW p \in PEs, Where(p), LinearPut(p) \/ NothingToPut(p)
  PROVE  Where(p)'
<1>1. pc[p] = "lput" /\ UNCHANGED local
  BY DEF LinearPut, NothingToPut, Goto
<1>2. Calling(p) /\ InPuts(p)
  BY <1>1 DEF Where, InPhase, InLanes, Phasing, Ending, Lanes
<1>3. pc'[p] \in {"lput", "barrier"} /\ (pc'[p] = "lput" => step'[p] \in PEs)
  <2>1. CASE LinearPut(p)
    <3>1. pc'[p] = (IF step[p] = N - 1 THEN "barrier" ELSE "lput") /\ step'[p] = step[p] + 1
      BY <2>1 DEF Types, LinearPut, Goto, Steps
    <3>2. step[p] \in 0 .. N - 1
      BY <1>1, <1>2, Numbers DEF InPuts
    <3> QED
      BY <3>1, <3>2, Numbers
  <2>2. CASE NothingToPut(p)
    BY <2>2 DEF Types, NothingToPut, Goto
  <2> QED
    BY <2>1, <2>2
<1>4. /\ prog' = prog /\ returned'[p] = returned[p] /\ left'[p] = left[p]
      /\ entered'[p] = entered[p] /\ entered[p] = left[p] /\ left[p] \in Nat
      /\ phase'[p] = phase[p]
  BY <1>1, LocalStays
<1> QED
  BY <1>2, <1>3, <1>4, PutsWhere DEF InPuts, Ending
LEMMA CountWhere ==
  ASSUME Types, NEW p \in PEs, Where(p), CountCall(p)
  PROVE  Where(p)'
<1>1. /\ pc[p] = "count" /\ pc'[p] = "out" /\ returned'[p] = Call(p)
      /\ prog' = prog /\ left' = left /\ entered' = entered
  BY DEF Types, CountCall, Goto, Returns, barrier
<1>2. Calling(p) /\ entered[p] = left[p] /\ left[p] \in Nat
  BY <1>1 DEF Where, Types
<1> QED
  BY <1>1, <1>2, OutWhere DEF Calling

LEMMA EnterBarrierWhere ==
  ASSUME Types, NEW p \in PEs, Where(p), EnterBarrier(p)
  PROVE  Where(p)'
<1>1. /\ pc[p] = "barrier" /\ pc'[p] = "inside" /\ entered'[p] = entered[p] + 1
      /\ prog' = prog /\ returned' = returned /\ left' = left /\ phase' = phase
  BY DEF Types, EnterBarrier, Barrier!Enter, Goto
<1>2. Calling(p) /\ entered[p] = left[p] /\ left[p] \in Nat
  BY <1>1 DEF Where, Types
<1>3. InPhase(p) \/ InPuts(p)
  BY <1>1 DEF Where, InLanes, Lanes
<1>4. CASE InPhase(p)
  BY <1>1, <1>2, <1>4, PhaseWhere DEF InPhase, Ending, DirectPc, RingPc
<1>5. CASE InPuts(p)
  BY <1>1, <1>2, <1>5, PutsWhere DEF InPuts, Ending
<1> QED
  BY <1>3, <1>4, <1>5

(* Out of the barrier a PE goes to the next phase or out of the call. *)
LEMMA Leaves ==
  ASSUME Types, NEW p \in PEs, Where(p), LeaveBarrier(p)
  PROVE  /\ pc[p] = "inside" /\ Calling(p) /\ entered[p] = left[p] + 1 /\ left[p] \in Nat
         /\ prog' = prog /\ entered' = entered /\ left'[p] = left[p] + 1
         /\ alltoall_sequence_number' = alltoall_sequence_number /\ todo' = todo /\ step' = step
         /\ Ph(p) = phase[p] /\ phase[p] \in Nat
         /\ phase[p] < Len(Phases(p)) =>
              /\ IsPhased(p) /\ phase[p] + 1 \in 1 .. Len(Phases(p))
              /\ pc'[p] = "seed" /\ phase'[p] = phase[p] + 1 /\ returned'[p] = returned[p]
         /\ ~(phase[p] < Len(Phases(p))) =>
              pc'[p] = "out" /\ returned'[p] = Call(p) /\ phase'[p] = phase[p]
         /\ \A q \in PEs : entered[p] <= entered[q]
<1>1. pc[p] = "inside"
  BY DEF LeaveBarrier, Goto
<1>2. Calling(p) /\ entered[p] = left[p] + 1 /\ left[p] \in Nat /\ (InPhase(p) \/ InPuts(p))
  BY <1>1 DEF Where, Types, InLanes, Lanes
<1>3. prog' = prog /\ entered' = entered /\ left'[p] = left[p] + 1
      /\ alltoall_sequence_number' = alltoall_sequence_number /\ todo' = todo /\ step' = step
      /\ \A q \in PEs : entered[p] <= entered[q]
  BY <1>2 DEF LeaveBarrier, Barrier!Leave, Types
<1>4. /\ pc'[p] = (IF phase[p] < Len(Phases(p)) THEN "seed" ELSE "out")
      /\ phase'[p] = phase[p] + IF phase[p] < Len(Phases(p)) THEN 1 ELSE 0
      /\ IF phase[p] < Len(Phases(p)) THEN returned' = returned ELSE returned'[p] = Call(p)
  BY DEF LeaveBarrier, Goto, Returns, Types
<1>5. Ph(p) = phase[p] /\ phase[p] \in Nat
  BY <1>1 DEF Ph, Types
<1>6. phase[p] < Len(Phases(p)) => IsPhased(p) /\ phase[p] + 1 \in 1 .. Len(Phases(p))
  <2>1. CASE IsPhased(p)
    BY <1>2, <1>5, <2>1, PhasesAre
  <2>2. CASE ~IsPhased(p)
    BY <1>2, <1>5, <2>2, PhasesAre
  <2> QED
    BY <2>1, <2>2
<1> QED
  BY <1>1, <1>2, <1>3, <1>4, <1>5, <1>6

LEMMA LeaveWhere ==
  ASSUME Types, NEW p \in PEs, Where(p), LeaveBarrier(p)
  PROVE  Where(p)'
<1>1. entered'[p] = left'[p] /\ left'[p] \in Nat
  BY Leaves
<1>2. CASE phase[p] < Len(Phases(p))
  <2>1. /\ IsPhased(p) /\ phase'[p] \in 1 .. Len(Phases(p)) /\ pc'[p] = "seed"
        /\ returned'[p] = returned[p] /\ prog' = prog /\ Calling(p)
    BY <1>2, Leaves
  <2>2. /\ Calling(p)' = Calling(p) /\ IsPhased(p)' = IsPhased(p) /\ Phases(p)' = Phases(p)
    BY <2>1, CallStays
  <2>3. InPhase(p)'
    BY <2>1, <2>2 DEF InPhase, Phasing, DirectPc, RingPc
  <2>4. returned'[p] <= Len(prog')
    BY <2>1 DEF Where
  <2> QED
    BY <1>1, <2>1, <2>2, <2>3, <2>4 DEF Where
<1>3. CASE ~(phase[p] < Len(Phases(p)))
  <2>1. /\ pc'[p] = "out" /\ returned'[p] = Call(p) /\ prog' = prog /\ Calling(p)
    BY <1>3, Leaves
  <2> QED
    BY <1>1, <2>1, OutWhere DEF Calling
<1> QED
  BY <1>2, <1>3

(* Each PE's place is a place of the program. *)
LEMMA WhereStep ==
  ASSUME Types, \A x \in PEs : Where(x), NEW p \in PEs, Step(p)
  PROVE  \A x \in PEs : Where(x)'
<1>1. \A x \in PEs \ {p} : Where(x)'
  BY OthersStay, StayWhere
<1>2. Where(p)'
  BY EnterWhere, SeedWhere, DirectWhere, RingWhere, ResetWhere, ThreadWhere, CountWhere,
     LinearWhere, EnterBarrierWhere, LeaveWhere DEF Step
<1> QED
  BY <1>1, <1>2

Placed == Types /\ \A p \in PEs : Where(p)

LEMMA PlaceNumbers ==
  ASSUME Types, NEW p \in PEs
  PROVE  /\ returned[p] \in Nat /\ Ph(p) \in Nat /\ left[p] \in Nat /\ entered[p] \in Nat
         /\ alltoall_sequence_number[p] \in Nat
  BY DEF Types, Ph

(* Level and ahead exclude each other. *)
LEMMA Exclusive ==
  ASSUME Types, NEW p \in PEs, NEW q \in PEs
  PROVE  /\ Level(p, p) /\ (Level(p, q) <=> Level(q, p))
         /\ Follows(q, p) => ~Level(p, q) /\ ~Follows(p, q)
         /\ Ahead(q, p) => ~Level(p, q) /\ ~Level(q, p) /\ ~Ahead(p, q)
<1>1. /\ returned[p] \in Nat /\ Ph(p) \in Nat /\ returned[q] \in Nat /\ Ph(q) \in Nat
  BY PlaceNumbers
<1>2. Level(p, p) /\ (Level(p, q) <=> Level(q, p))
  BY DEF Level
<1>3. Follows(q, p) => ~Level(p, q) /\ ~Follows(p, q)
  BY <1>1 DEF Level, Follows
<1> QED
  BY <1>2, <1>3 DEF Ahead

(* A step within a part of a call. *)
Inner(p) ==
  /\ returned'[p] = returned[p] /\ left'[p] = left[p] /\ Ph(p)' = Ph(p)
  /\ alltoall_sequence_number'[p] = alltoall_sequence_number[p]
  /\ pc[p] # "inside" /\ \A q \in PEs : Added(p, q) => Added(p, q)'

LEMMA StayPlace ==
  ASSUME NEW x \in PEs, prog' = prog, Same(x)
  PROVE  /\ returned'[x] = returned[x] /\ Ph(x)' = Ph(x) /\ left'[x] = left[x] /\ pc'[x] = pc[x]
         /\ alltoall_sequence_number'[x] = alltoall_sequence_number[x]
         /\ Call(x)' = Call(x) /\ Calling(x)' = Calling(x) /\ Op(x)' = Op(x)
         /\ Phases(x)' = Phases(x) /\ IsPhased(x)' = IsPhased(x) /\ phase'[x] = phase[x]
         /\ \A q \in PEs : Added(x, q)' <=> Added(x, q)
  BY DEF Same, Ph, Call, Calling, Op, Phases, IsPhased, Added

LEMMA InnerSteps ==
  ASSUME Placed, NEW p \in PEs, Step(p), ~LeaveBarrier(p), ~CountCall(p)
  PROVE  Inner(p)
<1> USE DEF Placed
<1>0. Types /\ Where(p)
  OBVIOUS
<1>1. CASE Enter(p)
  <2>1. pc[p] = "out" /\ phase'[p] = 1 /\ pc'[p] # "out"
    BY <1>1 DEF Types, Enter, Goto
  <2>2. returned' = returned /\ left' = left /\ alltoall_sequence_number' = alltoall_sequence_number
    BY <1>1 DEF Enter, barrier
  <2> QED
    BY <2>1, <2>2 DEF Inner, Ph, Added
<1>2. CASE Seed(p) \/ PutWork(p) \/ PutFlag(p) \/ SeeFlag(p) \/ AddWork(p)
  <2>1. /\ pc[p] \in {"seed", "put", "flag", "wait", "add"} /\ pc'[p] # "out"
        /\ returned' = returned /\ left' = left /\ phase' = phase
        /\ alltoall_sequence_number' = alltoall_sequence_number
    BY <1>2 DEF Types, Seed, PutWork, PutFlag, RaiseFlag, SeeFlag, AddWork, Goto, local, barrier
  <2> QED
    BY <2>1 DEF Inner, Ph, Added
<1>3. CASE RingPut(p) \/ RingPutFlag(p) \/ RingSeeFlag(p) \/ RingAdd(p)
  <2>1. /\ pc[p] \in RingPc /\ pc'[p] # "out"
        /\ returned' = returned /\ left' = left /\ phase' = phase
        /\ alltoall_sequence_number' = alltoall_sequence_number
    BY <1>3 DEF Types, RingPut, RingPutFlag, RingSeeFlag, RingAdd, AfterIteration, Goto, local,
                barrier, RingPc
  <2> QED
    BY <2>1 DEF Inner, Ph, Added, RingPc
<1>4. CASE ResetFlags(p)
  <2>1. /\ pc[p] = "reset" /\ pc'[p] = "barrier" /\ phase' = phase
    BY <1>4, ResetWhere
  <2>2. returned' = returned /\ left' = left /\ alltoall_sequence_number' = alltoall_sequence_number
    BY <1>4 DEF ResetFlags, barrier
  <2> QED
    BY <2>1, <2>2 DEF Inner, Ph, Added
<1>5. CASE \E q \in PEs : ThreadPut(p, q) \/ ThreadAdd(p, q) \/ ThreadSee(p, q) \/ ThreadReset(p, q)
  <2>1. PICK q \in PEs : ThreadPut(p, q) \/ ThreadAdd(p, q) \/ ThreadSee(p, q) \/ ThreadReset(p, q)
    BY <1>5
  <2>2. /\ returned' = returned /\ left' = left /\ phase' = phase
        /\ alltoall_sequence_number' = alltoall_sequence_number
    BY <2>1 DEF ThreadPut, ThreadAdd, ThreadSee, ThreadReset, barrier
  <2>3. /\ q \in todo[p] /\ todo'[p] = IF todo[p] = {q} THEN PEs ELSE todo[p] \ {q}
        /\ \/ pc[p] = "aput" /\ pc'[p] = IF todo[p] = {q} THEN "aadd" ELSE "aput"
           \/ pc[p] = "aadd" /\ pc'[p] = IF todo[p] = {q} THEN "await" ELSE "aadd"
           \/ pc[p] = "await" /\ pc'[p] = IF todo[p] = {q} THEN "areset" ELSE "await"
           \/ pc[p] = "areset" /\ pc'[p] = IF todo[p] = {q} THEN "count" ELSE "areset"
    BY <2>1 DEF Types, ThreadPut, ThreadAdd, ThreadSee, ThreadReset, Served, Goto
  <2>4. \A r \in PEs : Added(p, r) => Added(p, r)'
    BY <2>3 DEF Added
  <2>5. Ph(p)' = Ph(p) /\ pc[p] # "inside"
    BY <2>2, <2>3 DEF Ph
  <2> QED
    BY <2>2, <2>4, <2>5 DEF Inner
<1>6. CASE LinearPut(p) \/ NothingToPut(p)
  <2>1. /\ pc[p] = "lput" /\ pc'[p] # "out"
        /\ returned' = returned /\ left' = left /\ phase' = phase
        /\ alltoall_sequence_number' = alltoall_sequence_number
    BY <1>6 DEF Types, LinearPut, NothingToPut, Goto, local, barrier
  <2> QED
    BY <2>1 DEF Inner, Ph, Added
<1>7. CASE EnterBarrier(p)
  <2>1. /\ pc[p] = "barrier" /\ pc'[p] = "inside"
        /\ returned' = returned /\ left' = left /\ phase' = phase
        /\ alltoall_sequence_number' = alltoall_sequence_number
    BY <1>7 DEF Types, EnterBarrier, Barrier!Enter, Goto
  <2> QED
    BY <2>1 DEF Inner, Ph, Added
<1> QED
  BY <1>1, <1>2, <1>3, <1>4, <1>5, <1>6, <1>7 DEF Step

(* Such a step leaves who is ahead of whom. *)
LEMMA InnerRelations ==
  ASSUME Placed, Lockstep, NEW p \in PEs, prog' = prog, \A x \in PEs \ {p} : Same(x), Inner(p)
  PROVE  /\ Lockstep'
         /\ \A x, y \in PEs : (Level(x, y)' <=> Level(x, y)) /\ (Ahead(x, y)' <=> Ahead(x, y))
<1>1. \A x \in PEs : /\ returned'[x] = returned[x] /\ Ph(x)' = Ph(x) /\ left'[x] = left[x]
                     /\ alltoall_sequence_number'[x] = alltoall_sequence_number[x]
  BY StayPlace DEF Inner
<1>2. \A x \in PEs : Calling(x)' = Calling(x) /\ Phases(x)' = Phases(x)
  BY <1>1, CallStays
<1>3. \A x, y \in PEs : Level(x, y)' <=> Level(x, y)
  BY <1>1 DEF Level, seq
<1>4. \A x, y \in PEs : Follows(x, y)' <=> Follows(x, y)
  BY <1>1, <1>2 DEF Follows
<1>5. \A x, y \in PEs : Ahead(x, y) => Ahead(x, y)'
  <2> SUFFICES ASSUME NEW x \in PEs, NEW y \in PEs, Ahead(x, y) PROVE Ahead(x, y)'
    OBVIOUS
  <2>1. pc[y] = "inside" => pc'[y] = "inside"
    BY StayPlace DEF Inner
  <2>2. Added(y, x) => Added(y, x)'
    BY StayPlace DEF Inner
  <2> QED
    BY <1>1, <1>4, <2>1, <2>2 DEF Ahead, seq
<1>6. \A x, y \in PEs : Ahead(x, y)' => Ahead(x, y)
  <2> SUFFICES ASSUME NEW x \in PEs, NEW y \in PEs, Ahead(x, y)' PROVE Ahead(x, y)
    OBVIOUS
  <2>1. Follows(x, y)
    BY <1>4 DEF Ahead
  <2>2. ~Level(y, x) /\ ~Follows(y, x)
    BY <2>1, Exclusive DEF Placed
  <2>3. ~Ahead(y, x)
    BY <2>2 DEF Ahead
  <2> QED
    BY <2>2, <2>3 DEF Lockstep
<1>7. \A x, y \in PEs : (Level(x, y)' <=> Level(x, y)) /\ (Ahead(x, y)' <=> Ahead(x, y))
  BY <1>3, <1>5, <1>6
<1>8. Lockstep'
  BY <1>7 DEF Lockstep
<1> QED
  BY <1>7, <1>8

(* p goes past those it was level with, and draws level with those ahead. *)
MovesOn(p) ==
  \A q \in PEs \ {p} : (Level(p, q) /\ Ahead(p, q)') \/ (Ahead(q, p) /\ Level(p, q)')

(* The part after the one p is in. *)
LEMMA NextPart ==
  ASSUME Types, NEW p \in PEs, NEW q \in PEs, prog' = prog,
         Calling(p), Ph(p) = phase[p],
         phase[p] < Len(Phases(p)) => Ph(p)' = Ph(p) + 1 /\ returned'[p] = returned[p],
         ~(phase[p] < Len(Phases(p))) => Ph(p)' = 1 /\ returned'[p] = returned[p] + 1,
         Ph(q)' = Ph(q), returned'[q] = returned[q]
  PROVE  /\ Level(p, q) => Follows(p, q)'
         /\ Follows(q, p) => returned'[p] = returned'[q] /\ Ph(p)' = Ph(q)'
<1>1. Calling(q)' = Calling(q) /\ Phases(q)' = Phases(q)
  BY CallStays
<1>2. Level(p, q) => Follows(p, q)'
  <2> SUFFICES ASSUME Level(p, q) PROVE Follows(p, q)'
    OBVIOUS
  <2>1. Calling(q) = Calling(p) /\ Phases(q) = Phases(p) /\ Ph(q) = Ph(p) /\ returned[q] = returned[p]
    BY DEF Level, Calling, Phases, Call
  <2> QED
    BY <1>1, <2>1 DEF Follows
<1>3. Follows(q, p) => returned'[p] = returned'[q] /\ Ph(p)' = Ph(q)'
  BY DEF Follows
<1> QED
  BY <1>2, <1>3

LEMMA LeaveMoves ==
  ASSUME Placed, Lockstep, NEW p \in PEs, LeaveBarrier(p)
  PROVE  MovesOn(p)
<1> USE DEF Placed
<1>0. Types /\ Where(p) /\ Step(p)
  BY DEF Step
<1>1. /\ pc[p] = "inside" /\ Calling(p) /\ entered[p] = left[p] + 1 /\ left[p] \in Nat
      /\ prog' = prog /\ left'[p] = left[p] + 1 /\ alltoall_sequence_number' = alltoall_sequence_number
      /\ Ph(p) = phase[p] /\ phase[p] \in Nat
      /\ \A q \in PEs : entered[p] <= entered[q]
  BY <1>0, Leaves
<1>2. /\ phase[p] < Len(Phases(p)) => Ph(p)' = Ph(p) + 1 /\ returned'[p] = returned[p]
      /\ ~(phase[p] < Len(Phases(p))) => Ph(p)' = 1 /\ returned'[p] = returned[p] + 1
  <2>1. CASE phase[p] < Len(Phases(p))
    <3>1. pc'[p] = "seed" /\ phase'[p] = phase[p] + 1 /\ returned'[p] = returned[p]
      BY <1>0, <2>1, Leaves
    <3> QED
      BY <1>1, <2>1, <3>1 DEF Ph
  <2>2. CASE ~(phase[p] < Len(Phases(p)))
    <3>1. pc'[p] = "out" /\ returned'[p] = Call(p)
      BY <1>0, <2>2, Leaves
    <3> QED
      BY <2>2, <3>1 DEF Ph, Call
  <2> QED
    BY <2>1, <2>2
<1> SUFFICES ASSUME NEW q \in PEs \ {p}
             PROVE  (Level(p, q) /\ Ahead(p, q)') \/ (Ahead(q, p) /\ Level(p, q)')
  BY DEF MovesOn
<1>3. /\ Ph(q)' = Ph(q) /\ returned'[q] = returned[q] /\ left'[q] = left[q] /\ pc'[q] = pc[q]
  <2>1. Same(q)
    BY <1>0, OthersStay
  <2> QED
    BY <1>1, <2>1, StayPlace
<1>4. /\ Level(p, q) => Follows(p, q)'
      /\ Follows(q, p) => returned'[p] = returned'[q] /\ Ph(p)' = Ph(q)'
  BY <1>0, <1>1, <1>2, <1>3, NextPart
<1>5. entered[q] = left[q] + (IF pc[q] = "inside" THEN 1 ELSE 0) /\ left[q] \in Nat
  BY DEF Where, Types
<1>6. CASE Level(p, q)
  <2>1. left[q] = left[p] /\ pc[q] = "inside" /\ seq[q] = seq[p]
    BY <1>1, <1>5, <1>6 DEF Level
  <2> QED
    BY <1>1, <1>3, <1>4, <1>6, <2>1 DEF Ahead, seq
<1>7. CASE Ahead(q, p)
  <2>1. Follows(q, p) /\ left[q] = left[p] + 1 /\ seq[q] = seq[p]
    BY <1>1, <1>7 DEF Ahead, Added
  <2> QED
    BY <1>1, <1>3, <1>4, <1>7, <2>1 DEF Level, seq
<1>8. CASE Ahead(p, q)
  <2>1. CASE pc[q] = "inside" /\ left[p] = left[q] + 1
    BY <1>1, <1>5, <2>1
  <2>2. CASE Added(q, p) /\ left[p] = left[q]
    BY <1>1, <1>5, <2>2 DEF Added
  <2> QED
    BY <1>8, <2>1, <2>2 DEF Ahead
<1> QED
  BY <1>6, <1>7, <1>8 DEF Lockstep

LEMMA CountMoves ==
  ASSUME Placed, Lockstep, LaneFlags, NEW p \in PEs, CountCall(p)
  PROVE  MovesOn(p)
<1> USE DEF Placed
<1>0. Types /\ Where(p) /\ Step(p)
  BY DEF Step
<1>1. /\ pc[p] = "count" /\ pc'[p] = "out" /\ returned'[p] = Call(p)
      /\ prog' = prog /\ left' = left
      /\ alltoall_sequence_number'[p] = alltoall_sequence_number[p] + 1
  BY DEF Types, CountCall, Goto, Returns, barrier
<1>2. Calling(p) /\ InLanes(p) /\ phase[p] = 1 /\ Ph(p) = 1
  BY <1>1 DEF Where, InPhase, InPuts, InLanes, Phasing, Ending, Ph
<1>3. Len(Phases(p)) = 0 /\ returned[p] \in Nat
  BY <1>2, PhasesAre DEF InLanes, IsPhased, Types
<1>4. Ph(p)' = 1 /\ returned'[p] = returned[p] + 1
  BY <1>1, <1>3 DEF Ph, Call
<1> SUFFICES ASSUME NEW q \in PEs \ {p}
             PROVE  (Level(p, q) /\ Ahead(p, q)') \/ (Ahead(q, p) /\ Level(p, q)')
  BY DEF MovesOn
<1>5. /\ Ph(q)' = Ph(q) /\ returned'[q] = returned[q] /\ pc'[q] = pc[q]
      /\ alltoall_sequence_number'[q] = alltoall_sequence_number[q] /\ (Added(q, p)' <=> Added(q, p))
  <2>1. Same(q)
    BY <1>0, OthersStay
  <2> QED
    BY <1>1, <2>1, StayPlace
<1>6. /\ Level(p, q) => Follows(p, q)'
      /\ Follows(q, p) => returned'[p] = returned'[q] /\ Ph(p)' = Ph(q)'
  BY <1>0, <1>1, <1>2, <1>3, <1>4, <1>5, NextPart
<1>7. Adds(q, p) > seq[p]
  BY <1>1 DEF LaneFlags, Saw
<1>8. seq[p] \in Nat /\ seq[q] \in Nat
  BY DEF Types, seq
<1>9. CASE Level(p, q)
  <2>1. left[q] = left[p] /\ seq[q] = seq[p] /\ Added(q, p)
    BY <1>7, <1>8, <1>9 DEF Level, Adds
  <2> QED
    BY <1>1, <1>5, <1>6, <1>9, <2>1 DEF Ahead, seq
<1>10. CASE Ahead(q, p)
  <2>1. Follows(q, p) /\ left[q] = left[p] /\ seq[q] = seq[p] + 1
    BY <1>1, <1>10 DEF Ahead
  <2> QED
    BY <1>1, <1>5, <1>6, <1>10, <2>1 DEF Level, seq
<1>11. CASE Ahead(p, q)
  <2>1. CASE pc[q] = "inside" /\ seq[p] = seq[q]
    BY <1>7, <1>8, <2>1 DEF Adds, Added
  <2>2. CASE seq[p] = seq[q] + 1
    BY <1>7, <1>8, <2>2 DEF Adds
  <2> QED
    BY <1>11, <2>1, <2>2 DEF Ahead
<1> QED
  BY <1>9, <1>10, <1>11 DEF Lockstep

(* Who does not move stays where it is to the others. *)
LEMMA OthersRelations ==
  ASSUME Placed, NEW p \in PEs, prog' = prog, \A x \in PEs \ {p} : Same(x)
  PROVE  \A x, y \in PEs \ {p} : (Level(x, y)' <=> Level(x, y)) /\ (Ahead(x, y)' <=> Ahead(x, y))
<1> SUFFICES ASSUME NEW x \in PEs \ {p}, NEW y \in PEs \ {p}
             PROVE  (Level(x, y)' <=> Level(x, y)) /\ (Ahead(x, y)' <=> Ahead(x, y))
  OBVIOUS
<1>1. /\ returned'[x] = returned[x] /\ Ph(x)' = Ph(x) /\ left'[x] = left[x]
      /\ alltoall_sequence_number'[x] = alltoall_sequence_number[x]
  BY StayPlace
<1>2. /\ returned'[y] = returned[y] /\ Ph(y)' = Ph(y) /\ left'[y] = left[y] /\ pc'[y] = pc[y]
      /\ alltoall_sequence_number'[y] = alltoall_sequence_number[y]
      /\ Calling(y)' = Calling(y) /\ Phases(y)' = Phases(y) /\ (Added(y, x)' <=> Added(y, x))
  BY StayPlace
<1> QED
  BY <1>1, <1>2 DEF Level, Ahead, Follows, seq

LEMMA MoveLockstep ==
  ASSUME Placed, Lockstep, NEW p \in PEs, prog' = prog, \A x \in PEs \ {p} : Same(x), MovesOn(p)
  PROVE  Lockstep'
<1>1. \A x, y \in PEs \ {p} : (Level(x, y)' <=> Level(x, y)) /\ (Ahead(x, y)' <=> Ahead(x, y))
  BY OthersRelations
<1>2. Level(p, p)'
  BY DEF Level
<1>3. \A q \in PEs \ {p} : Level(p, q)' => Level(q, p)'
  BY DEF Level
<1> SUFFICES ASSUME NEW x \in PEs, NEW y \in PEs
             PROVE  Level(x, y)' \/ Ahead(x, y)' \/ Ahead(y, x)'
  BY DEF Lockstep
<1>4. CASE x # p /\ y # p
  BY <1>1, <1>4 DEF Lockstep
<1>5. CASE x = p /\ y # p
  BY <1>5 DEF MovesOn
<1>6. CASE x # p /\ y = p
  BY <1>3, <1>6 DEF MovesOn
<1> QED
  BY <1>2, <1>4, <1>5, <1>6

LEMMA LockstepStep ==
  ASSUME Placed, Lockstep, LaneFlags, NEW p \in PEs, Step(p)
  PROVE  Lockstep'
<1>1. prog' = prog /\ \A x \in PEs \ {p} : Same(x)
  BY OthersStay DEF Placed
<1>2. CASE LeaveBarrier(p) \/ CountCall(p)
  BY <1>1, <1>2, LeaveMoves, CountMoves, MoveLockstep
<1>3. CASE ~LeaveBarrier(p) /\ ~CountCall(p)
  BY <1>1, <1>3, InnerSteps, InnerRelations
<1> QED
  BY <1>2, <1>3

LEMMA Parity ==
  ASSUME NEW a \in Nat
  PROVE  a % 2 \in 0 .. 1 /\ (a + 1) % 2 # a % 2 /\ (a + 2) % 2 = a % 2
  OBVIOUS

(* Calls r to a - 1 are added and not reset; flags are told by parity. *)
Holds(r, a, b) == IF \E j \in r .. a - 1 : j % 2 = b THEN 1 ELSE 0

LEMMA HoldsNone ==
  ASSUME NEW r \in Nat, NEW b
  PROVE  Holds(r, r, b) = 0
  BY DEF Holds

LEMMA HoldsAdd ==
  ASSUME NEW r \in Nat, NEW a \in Nat, r <= a, a <= r + 1, NEW b \in 0 .. 1
  PROVE  Holds(r, a + 1, b) = IF b = a % 2 THEN Holds(r, a, b) + 1 ELSE Holds(r, a, b)
<1>0. a % 2 \in 0 .. 1 /\ (r + 1) % 2 # r % 2
  BY Parity
<1>1. \A j : j \in r .. a <=> j \in r .. a - 1 \/ j = a
  OBVIOUS
<1>2. (a + 1) - 1 = a
  OBVIOUS
<1>3. \A j \in r .. a - 1 : j = r /\ a = r + 1
  OBVIOUS
<1>4. CASE b = a % 2
  <2>1. \A j \in r .. a - 1 : j % 2 # b
    BY <1>0, <1>3, <1>4
  <2>2. a \in r .. a /\ a % 2 = b
    BY <1>4
  <2> QED
    BY <1>2, <1>4, <2>1, <2>2 DEF Holds
<1>5. CASE b # a % 2
  <2>1. (\E j \in r .. a : j % 2 = b) <=> (\E j \in r .. a - 1 : j % 2 = b)
    BY <1>1, <1>5
  <2> QED
    BY <1>2, <1>5, <2>1 DEF Holds
<1> QED
  BY <1>4, <1>5

LEMMA HoldsReset ==
  ASSUME NEW r \in Nat, NEW a \in Nat, r < a, a <= r + 2, NEW b \in 0 .. 1
  PROVE  Holds(r + 1, a, b) = IF b = r % 2 THEN 0 ELSE Holds(r, a, b)
<1>0. r % 2 \in 0 .. 1 /\ (r + 1) % 2 # r % 2
  BY Parity
<1>1. \A j : j \in r .. a - 1 <=> j \in r + 1 .. a - 1 \/ j = r
  OBVIOUS
<1>2. \A j \in r + 1 .. a - 1 : j = r + 1
  OBVIOUS
<1>3. CASE b = r % 2
  <2>1. \A j \in r + 1 .. a - 1 : j % 2 # b
    BY <1>0, <1>2, <1>3
  <2> QED
    BY <1>3, <2>1 DEF Holds
<1>4. CASE b # r % 2
  <2>1. (\E j \in r + 1 .. a - 1 : j % 2 = b) <=> (\E j \in r .. a - 1 : j % 2 = b)
    BY <1>1, <1>4
  <2> QED
    BY <1>4, <2>1 DEF Holds
<1> QED
  BY <1>3, <1>4

LaneFlag(p, q) ==
  /\ Saw(q, p) => Adds(p, q) > seq[q]
  /\ \A b \in 0 .. 1 : alltoall_pSync[q][b * N + p] = Holds(Resets(q, p), Adds(p, q), b)

LEMMA LaneFlagsAre == LaneFlags <=> \A p, q \in PEs : LaneFlag(p, q)
  BY DEF LaneFlags, LaneFlag, Holds

(* What lies between the two counts of a pair. *)
LEMMA LaneWindow ==
  ASSUME Placed, Lockstep, LaneFlags, NEW p \in PEs, NEW q \in PEs
  PROVE  /\ Adds(p, q) \in Nat /\ Resets(q, p) \in Nat /\ seq[p] \in Nat /\ seq[q] \in Nat
         /\ Resets(q, p) <= Adds(p, q) /\ Adds(p, q) <= Resets(q, p) + 2
         /\ pc[p] = "aadd" /\ ~Added(p, q) => Adds(p, q) <= Resets(q, p) + 1
         /\ Adds(p, q) <= seq[q] + 2
<1>1. seq[p] \in Nat /\ seq[q] \in Nat
  BY DEF Placed, Types, seq
<1>2. Adds(p, q) \in Nat /\ Resets(q, p) \in Nat /\ Adds(p, q) \in {seq[p], seq[p] + 1}
      /\ Resets(q, p) \in {seq[q], seq[q] + 1}
  BY <1>1 DEF Adds, Resets
<1>3. Resets(q, p) = seq[q] + 1 => Adds(p, q) > seq[q]
  BY <1>1 DEF LaneFlags, Resets, Saw
<1>4. CASE Level(p, q)
  <2>1. seq[p] = seq[q]
    BY <1>4 DEF Level
  <2> QED
    BY <1>1, <1>2, <1>3, <2>1
<1>5. CASE Ahead(p, q)
  <2>1. seq[p] = seq[q] \/ seq[p] = seq[q] + 1
    BY <1>5 DEF Ahead
  <2>2. ~Added(p, q) => Adds(p, q) = seq[p]
    BY <1>1 DEF Adds
  <2> QED
    BY <1>1, <1>2, <1>3, <2>1, <2>2
<1>6. CASE Ahead(q, p)
  <2>1. CASE pc[p] = "inside" /\ seq[q] = seq[p]
    BY <1>1, <1>2, <1>3, <2>1
  <2>2. CASE Added(p, q) /\ seq[q] = seq[p] + 1
    <3>1. Adds(p, q) = seq[p] + 1
      BY <2>2 DEF Adds
    <3> QED
      BY <1>1, <1>2, <1>3, <2>2, <3>1
  <2> QED
    BY <1>6, <2>1, <2>2 DEF Ahead
<1> QED
  BY <1>4, <1>5, <1>6 DEF Lockstep

LEMMA LaneKept ==
  ASSUME LaneFlags, alltoall_pSync' = alltoall_pSync,
         \A x, y \in PEs : /\ Adds(x, y)' = Adds(x, y) /\ (Saw(x, y)' <=> Saw(x, y))
                           /\ Resets(x, y)' = Resets(x, y) /\ seq'[x] = seq[x]
  PROVE  LaneFlags'
<1>1. \A x, y \in PEs : LaneFlag(x, y)
  BY LaneFlagsAre
<1>2. \A x, y \in PEs : LaneFlag(x, y)'
  BY <1>1 DEF LaneFlag, Holds
<1> QED
  BY <1>2 DEF LaneFlags, LaneFlag, Holds

LEMMA LaneStay ==
  ASSUME NEW x \in PEs, prog' = prog, Same(x)
  PROVE  \A y \in PEs : /\ Adds(x, y)' = Adds(x, y) /\ (Saw(x, y)' <=> Saw(x, y))
                        /\ Resets(x, y)' = Resets(x, y) /\ seq'[x] = seq[x]
                        /\ (Added(x, y)' <=> Added(x, y))
  BY DEF Same, Adds, Added, Saw, Resets, seq

(* A step outside the lanes. *)
LEMMA LaneFrame ==
  ASSUME Placed, LaneFlags, NEW p \in PEs, prog' = prog, \A x \in PEs \ {p} : Same(x),
         alltoall_pSync' = alltoall_pSync, alltoall_sequence_number'[p] = alltoall_sequence_number[p],
         pc[p] \notin {"aadd", "await", "areset", "count"},
         pc'[p] \notin {"await", "areset", "count"},
         pc'[p] = "aadd" => todo'[p] = PEs
  PROVE  LaneFlags'
<1>1. \A y \in PEs : /\ Adds(p, y)' = Adds(p, y) /\ (Saw(p, y)' <=> Saw(p, y))
                     /\ Resets(p, y)' = Resets(p, y) /\ seq'[p] = seq[p]
  BY DEF Adds, Added, Saw, Resets, seq
<1> QED
  BY <1>1, LaneStay, LaneKept

(* A cell after a put. *)
LEMMA PutCell ==
  ASSUME NEW array, NEW q, NEW k, NEW v, NEW y \in DOMAIN array, NEW j \in DOMAIN array[y]
  PROVE  Put(array, q, k, v)[y][j] = IF y = q /\ j = k THEN v ELSE array[y][j]
  BY DEF Put

LEMMA LaneCell ==
  ASSUME Types, NEW x \in PEs, NEW y \in PEs, NEW b \in 0 .. 1
  PROVE  y \in DOMAIN alltoall_pSync /\ b * N + x \in DOMAIN alltoall_pSync[y]
<1>1. (b = 0 /\ b * N = 0) \/ (b = 1 /\ b * N = N)
  BY Numbers
<1>2. b * N + x \in 0 .. 2 * N - 1
  BY <1>1, Numbers
<1> QED
  BY <1>2 DEF Types

(* What a thread's step leaves of the program and of the other PEs. *)
LEMMA LaneNow ==
  ASSUME Placed, NEW p \in PEs, pc[p] \in Lanes
  PROVE  /\ todo[p] \in SUBSET PEs /\ todo[p] # {} /\ Calling(p) /\ InLanes(p)
         /\ seq[p] \in Nat /\ seq[p] % 2 \in 0 .. 1
         /\ \A q \in PEs : /\ FlagOf(p, q) = (seq[p] % 2) * N + q
                           /\ FlagOf(p, q) \in 0 .. 2 * N - 1
         /\ \A q \in PEs, x \in PEs, b \in 0 .. 1 :
              b * N + x = FlagOf(p, q) <=> x = q /\ b = seq[p] % 2
<1> USE DEF Placed
<1>1. Calling(p) /\ InLanes(p)
  BY DEF Lanes, Where, InPhase, InPuts, Phasing, Ending
<1>2. seq[p] \in Nat /\ seq[p] % 2 \in 0 .. 1
  BY Parity DEF Types, seq
<1>3. \A q \in PEs : FlagOf(p, q) = (seq[p] % 2) * N + q
  BY DEF FlagOf, seq
<1> DEFINE m == seq[p] % 2
<1>4. m \in 0 .. 1
  BY <1>2
<1> HIDE DEF m
<1>5. \A q \in PEs : m * N + q \in 0 .. 2 * N - 1
  <2>1. m * N = 0 \/ m * N = N
    BY <1>4, Numbers
  <2> QED
    BY <2>1, Numbers
<1>6. \A q \in PEs, x \in PEs, b \in 0 .. 1 : b * N + x = m * N + q <=> x = q /\ b = m
  <2> TAKE q \in PEs, x \in PEs, b \in 0 .. 1
  <2>1. (m = 0 /\ m * N = 0) \/ (m = 1 /\ m * N = N)
    BY <1>4, Numbers
  <2>2. (b = 0 /\ b * N = 0) \/ (b = 1 /\ b * N = N)
    BY Numbers
  <2> QED
    BY <2>1, <2>2, Numbers
<1>7. \A q \in PEs : FlagOf(p, q) = m * N + q
  BY <1>3 DEF m
<1>8. \A q \in PEs, x \in PEs, b \in 0 .. 1 : b * N + x = FlagOf(p, q) <=> x = q /\ b = m
  BY <1>6, <1>7
<1> QED
  BY <1>1, <1>2, <1>3, <1>5, <1>7, <1>8 DEF InLanes, m

LEMMA ThreadAddLanes ==
  ASSUME Placed, Lockstep, LaneFlags, NEW p \in PEs, NEW q \in PEs, ThreadAdd(p, q)
  PROVE  LaneFlags'
<1> USE DEF Placed
<1>1. /\ pc[p] = "aadd" /\ pc'[p] = (IF todo[p] = {q} THEN "await" ELSE "aadd")
      /\ q \in todo[p] /\ todo'[p] = (IF todo[p] = {q} THEN PEs ELSE todo[p] \ {q})
      /\ alltoall_sequence_number' = alltoall_sequence_number
      /\ alltoall_pSync' = Put(alltoall_pSync, q, FlagOf(p, p), alltoall_pSync[q][FlagOf(p, p)] + 1)
  BY DEF Types, ThreadAdd, Served, Goto
<1>2. prog' = prog /\ \A x \in PEs \ {p} : Same(x)
  BY OthersStay DEF Step
<1>3. /\ \A y \in PEs : FlagOf(p, y) = (seq[p] % 2) * N + y /\ FlagOf(p, y) \in 0 .. 2 * N - 1
      /\ \A y \in PEs, x \in PEs, b \in 0 .. 1 :
           b * N + x = FlagOf(p, y) <=> x = y /\ b = seq[p] % 2
      /\ seq[p] \in Nat
  BY <1>1, LaneNow DEF Lanes
<1>4. /\ ~Added(p, q) /\ Added(p, q)' /\ Adds(p, q) = seq[p] /\ Adds(p, q)' = seq[p] + 1
      /\ \A y \in PEs \ {q} : Adds(p, y)' = Adds(p, y)
      /\ \A y \in PEs : ~Saw(p, y) /\ ~Saw(p, y)' /\ Resets(p, y)' = Resets(p, y)
  BY <1>1, <1>3 DEF Added, Adds, Saw, Resets, seq
<1>5. seq' = seq
  BY <1>1 DEF seq
<1>6. \A x, y \in PEs : LaneFlag(x, y)
  BY LaneFlagsAre
<1>7. \A x, y \in PEs, b \in 0 .. 1 :
        alltoall_pSync'[y][b * N + x] =
          IF y = q /\ x = p /\ b = seq[p] % 2 THEN alltoall_pSync[y][b * N + x] + 1
          ELSE alltoall_pSync[y][b * N + x]
  <2> TAKE x, y \in PEs, b \in 0 .. 1
  <2>1. alltoall_pSync'[y][b * N + x] =
          IF y = q /\ b * N + x = FlagOf(p, p) THEN alltoall_pSync[q][FlagOf(p, p)] + 1
          ELSE alltoall_pSync[y][b * N + x]
    BY <1>1, PutCell, LaneCell
  <2>2. b * N + x = FlagOf(p, p) <=> x = p /\ b = seq[p] % 2
    BY <1>3
  <2> QED
    BY <2>1, <2>2
<1>8. \A x, y \in PEs : LaneFlag(x, y)'
  <2> TAKE x, y \in PEs
  <2>0. LaneFlag(x, y)
    BY <1>6
  <2>1. CASE x = p /\ y = q
    <3>1. /\ Resets(q, p) \in Nat /\ Adds(p, q) \in Nat /\ Resets(q, p) <= Adds(p, q)
          /\ Adds(p, q) <= Resets(q, p) + 1 /\ seq[q] \in Nat
      BY <1>1, <1>4, LaneWindow
    <3>2. Resets(q, p)' = Resets(q, p) /\ (Saw(q, p)' <=> Saw(q, p))
      BY <1>2, <1>4, LaneStay
    <3>3. \A b \in 0 .. 1 : alltoall_pSync'[q][b * N + p] = Holds(Resets(q, p), Adds(p, q) + 1, b)
      <4> TAKE b \in 0 .. 1
      <4>1. alltoall_pSync[q][b * N + p] = Holds(Resets(q, p), Adds(p, q), b)
        BY <2>0, <2>1 DEF LaneFlag
      <4>2. Holds(Resets(q, p), Adds(p, q) + 1, b) =
              IF b = Adds(p, q) % 2 THEN Holds(Resets(q, p), Adds(p, q), b) + 1
              ELSE Holds(Resets(q, p), Adds(p, q), b)
        BY <3>1, HoldsAdd
      <4>3. alltoall_pSync'[q][b * N + p] = IF b = seq[p] % 2 THEN alltoall_pSync[q][b * N + p] + 1
                                            ELSE alltoall_pSync[q][b * N + p]
        BY <1>7
      <4> QED
        BY <1>4, <4>1, <4>2, <4>3
    <3>4. Saw(q, p)' => Adds(p, q)' > seq[q]
      BY <1>3, <1>4, <2>0, <2>1, <3>1, <3>2 DEF LaneFlag
    <3> QED
      BY <1>4, <1>5, <2>1, <3>2, <3>3, <3>4 DEF LaneFlag, Holds
  <2>2. CASE ~(x = p /\ y = q)
    <3>1. Adds(x, y)' = Adds(x, y)
      BY <1>2, <1>4, <2>2, LaneStay
    <3>2. Resets(y, x)' = Resets(y, x) /\ (Saw(y, x)' <=> Saw(y, x))
      BY <1>2, <1>4, LaneStay
    <3>3. \A b \in 0 .. 1 : alltoall_pSync'[y][b * N + x] = alltoall_pSync[y][b * N + x]
      BY <1>7, <2>2
    <3> QED
      BY <1>5, <2>0, <3>1, <3>2, <3>3 DEF LaneFlag, Holds
  <2> QED
    BY <2>1, <2>2
<1> QED
  BY <1>8 DEF LaneFlags, LaneFlag, Holds

LEMMA ThreadSeeLanes ==
  ASSUME Placed, Lockstep, LaneFlags, NEW p \in PEs, NEW q \in PEs, ThreadSee(p, q)
  PROVE  LaneFlags'
<1> USE DEF Placed
<1>1. /\ pc[p] = "await" /\ pc'[p] = (IF todo[p] = {q} THEN "areset" ELSE "await")
      /\ q \in todo[p] /\ todo'[p] = (IF todo[p] = {q} THEN PEs ELSE todo[p] \ {q})
      /\ alltoall_sequence_number' = alltoall_sequence_number
      /\ alltoall_pSync' = alltoall_pSync /\ alltoall_pSync[p][FlagOf(p, q)] = 1
  BY DEF Types, ThreadSee, Served, Goto, shared
<1>2. prog' = prog /\ \A x \in PEs \ {p} : Same(x)
  BY OthersStay DEF Step
<1>3. /\ FlagOf(p, q) = (seq[p] % 2) * N + q /\ seq[p] % 2 \in 0 .. 1 /\ seq[p] \in Nat
  BY <1>1, LaneNow DEF Lanes
<1>4. /\ \A y \in PEs : /\ Adds(p, y)' = Adds(p, y) /\ Resets(p, y)' = Resets(p, y)
                        /\ Resets(p, y) = seq[p]
      /\ \A y \in PEs : Saw(p, y)' => Saw(p, y) \/ y = q
  BY <1>1, <1>3 DEF Added, Adds, Saw, Resets, seq
<1>5. seq' = seq
  BY <1>1 DEF seq
<1>6. \A x, y \in PEs : LaneFlag(x, y)
  BY LaneFlagsAre
<1>7. Adds(q, p) > seq[p]
  <2>1. Holds(Resets(p, q), Adds(q, p), seq[p] % 2) = 1
    BY <1>1, <1>3, <1>6 DEF LaneFlag
  <2>2. Adds(q, p) \in Nat
    BY LaneWindow
  <2>3. \E j \in seq[p] .. Adds(q, p) - 1 : j % 2 = seq[p] % 2
    BY <1>4, <2>1 DEF Holds
  <2> QED
    BY <1>3, <2>2, <2>3
<1>8. \A x, y \in PEs : LaneFlag(x, y)'
  <2> TAKE x, y \in PEs
  <2>0. LaneFlag(x, y)
    BY <1>6
  <2>1. Adds(x, y)' = Adds(x, y) /\ Resets(y, x)' = Resets(y, x)
    BY <1>2, <1>4, LaneStay
  <2>2. Saw(y, x)' => Adds(x, y) > seq[y]
    <3>1. CASE y = p
      BY <1>4, <1>7, <2>0, <3>1 DEF LaneFlag
    <3>2. CASE y # p
      BY <1>2, <2>0, <3>2, LaneStay DEF LaneFlag
    <3> QED
      BY <3>1, <3>2
  <2> QED
    BY <1>1, <1>5, <2>0, <2>1, <2>2 DEF LaneFlag, Holds
<1> QED
  BY <1>8 DEF LaneFlags, LaneFlag, Holds

LEMMA ThreadResetLanes ==
  ASSUME Placed, Lockstep, LaneFlags, NEW p \in PEs, NEW q \in PEs, ThreadReset(p, q)
  PROVE  LaneFlags'
<1> USE DEF Placed
<1>1. /\ pc[p] = "areset" /\ pc'[p] = (IF todo[p] = {q} THEN "count" ELSE "areset")
      /\ q \in todo[p] /\ todo'[p] = (IF todo[p] = {q} THEN PEs ELSE todo[p] \ {q})
      /\ alltoall_sequence_number' = alltoall_sequence_number
      /\ alltoall_pSync' = Put(alltoall_pSync, p, FlagOf(p, q), 0)
  BY DEF Types, ThreadReset, Served, Goto
<1>2. prog' = prog /\ \A x \in PEs \ {p} : Same(x)
  BY OthersStay DEF Step
<1>3. /\ \A y \in PEs : FlagOf(p, y) = (seq[p] % 2) * N + y /\ FlagOf(p, y) \in 0 .. 2 * N - 1
      /\ \A y \in PEs, x \in PEs, b \in 0 .. 1 :
           b * N + x = FlagOf(p, y) <=> x = y /\ b = seq[p] % 2
      /\ seq[p] \in Nat
  BY <1>1, LaneNow DEF Lanes
<1>4. /\ \A y \in PEs : Adds(p, y)' = Adds(p, y) /\ Saw(p, y) /\ Saw(p, y)'
      /\ \A y \in PEs \ {q} : Resets(p, y)' = Resets(p, y)
      /\ Resets(p, q) = seq[p] /\ Resets(p, q)' = seq[p] + 1
  BY <1>1, <1>3 DEF Added, Adds, Saw, Resets, seq
<1>5. seq' = seq
  BY <1>1 DEF seq
<1>6. \A x, y \in PEs : LaneFlag(x, y)
  BY LaneFlagsAre
<1>7. \A x, y \in PEs, b \in 0 .. 1 :
        alltoall_pSync'[y][b * N + x] =
          IF y = p /\ x = q /\ b = seq[p] % 2 THEN 0 ELSE alltoall_pSync[y][b * N + x]
  <2> TAKE x, y \in PEs, b \in 0 .. 1
  <2>1. alltoall_pSync'[y][b * N + x] =
          IF y = p /\ b * N + x = FlagOf(p, q) THEN 0 ELSE alltoall_pSync[y][b * N + x]
    BY <1>1, PutCell, LaneCell
  <2>2. b * N + x = FlagOf(p, q) <=> x = q /\ b = seq[p] % 2
    BY <1>3
  <2> QED
    BY <2>1, <2>2
<1>8. \A x, y \in PEs : LaneFlag(x, y)'
  <2> TAKE x, y \in PEs
  <2>0. LaneFlag(x, y)
    BY <1>6
  <2>1. Adds(x, y)' = Adds(x, y)
    BY <1>2, <1>4, LaneStay
  <2>2. Saw(y, x)' <=> Saw(y, x)
    BY <1>2, <1>4, LaneStay
  <2>3. CASE x = q /\ y = p
    <3>1. Adds(q, p) \in Nat /\ Adds(q, p) > seq[p] /\ Adds(q, p) <= seq[p] + 2
      BY <1>4, <1>6, LaneWindow DEF LaneFlag
    <3>2. \A b \in 0 .. 1 : alltoall_pSync'[p][b * N + q] = Holds(seq[p] + 1, Adds(q, p), b)
      <4> TAKE b \in 0 .. 1
      <4>1. alltoall_pSync[p][b * N + q] = Holds(seq[p], Adds(q, p), b)
        BY <1>4, <2>0, <2>3 DEF LaneFlag
      <4>2. Holds(seq[p] + 1, Adds(q, p), b) = IF b = seq[p] % 2 THEN 0 ELSE Holds(seq[p], Adds(q, p), b)
        BY <1>3, <3>1, HoldsReset
      <4>3. alltoall_pSync'[p][b * N + q] = IF b = seq[p] % 2 THEN 0 ELSE alltoall_pSync[p][b * N + q]
        BY <1>7
      <4> QED
        BY <4>1, <4>2, <4>3
    <3> QED
      BY <1>4, <1>5, <2>0, <2>1, <2>2, <2>3, <3>2 DEF LaneFlag, Holds
  <2>4. CASE ~(x = q /\ y = p)
    <3>1. Resets(y, x)' = Resets(y, x)
      BY <1>2, <1>4, <2>4, LaneStay
    <3>2. \A b \in 0 .. 1 : alltoall_pSync'[y][b * N + x] = alltoall_pSync[y][b * N + x]
      BY <1>7, <2>4
    <3> QED
      BY <1>5, <2>0, <2>1, <2>2, <3>1, <3>2 DEF LaneFlag, Holds
  <2> QED
    BY <2>3, <2>4
<1> QED
  BY <1>8 DEF LaneFlags, LaneFlag, Holds

LEMMA CountLanes ==
  ASSUME Placed, Lockstep, LaneFlags, NEW p \in PEs, CountCall(p)
  PROVE  LaneFlags'
<1> USE DEF Placed
<1>1. /\ pc[p] = "count" /\ pc'[p] = "out" /\ alltoall_pSync' = alltoall_pSync
      /\ alltoall_sequence_number'[p] = alltoall_sequence_number[p] + 1
  BY DEF Types, CountCall, Goto, shared
<1>2. prog' = prog /\ \A x \in PEs \ {p} : Same(x)
  BY OthersStay DEF Step
<1>3. /\ seq[p] \in Nat
      /\ \A y \in PEs : /\ Adds(p, y)' = Adds(p, y) /\ Resets(p, y)' = Resets(p, y)
                        /\ ~Saw(p, y)'
  BY <1>1 DEF Added, Adds, Saw, Resets, seq, Types
<1>4. \A x, y \in PEs : LaneFlag(x, y)
  BY LaneFlagsAre
<1>5. \A x, y \in PEs : LaneFlag(x, y)'
  <2> TAKE x, y \in PEs
  <2>1. Adds(x, y)' = Adds(x, y) /\ Resets(y, x)' = Resets(y, x)
    BY <1>2, <1>3, LaneStay
  <2>2. Saw(y, x)' => Saw(y, x) /\ seq'[y] = seq[y]
    <3>1. CASE y = p
      BY <1>3, <3>1
    <3>2. CASE y # p
      BY <1>2, <3>2, LaneStay
    <3> QED
      BY <3>1, <3>2
  <2> QED
    BY <1>1, <1>4, <2>1, <2>2 DEF LaneFlag, Holds
<1> QED
  BY <1>5 DEF LaneFlags, LaneFlag, Holds

LEMMA LanesStep ==
  ASSUME Placed, Lockstep, LaneFlags, NEW p \in PEs, Step(p)
  PROVE  LaneFlags'
<1> USE DEF Placed
<1>0. Types /\ Where(p) /\ prog' = prog /\ \A x \in PEs \ {p} : Same(x)
  BY OthersStay
<1>1. CASE Enter(p)
  <2>1. /\ pc[p] = "out" /\ pc'[p] \in {"seed", "aput", "lput"}
        /\ alltoall_sequence_number' = alltoall_sequence_number /\ alltoall_pSync' = alltoall_pSync
    BY <1>1 DEF Types, Enter, Goto, shared
  <2> QED
    BY <1>0, <2>1, LaneFrame
<1>2. CASE Seed(p) \/ PutWork(p) \/ PutFlag(p) \/ SeeFlag(p) \/ AddWork(p)
  <2>1. /\ pc[p] \in {"seed", "put", "flag", "wait", "add"}
        /\ pc'[p] \in {"put", "rput", "flag", "wait", "add", "reset"}
        /\ alltoall_sequence_number' = alltoall_sequence_number /\ alltoall_pSync' = alltoall_pSync
    BY <1>2 DEF Types, Seed, PutWork, PutFlag, RaiseFlag, SeeFlag, AddWork, Goto, local, shared
  <2> QED
    BY <1>0, <2>1, LaneFrame
<1>3. CASE RingPut(p) \/ RingPutFlag(p) \/ RingSeeFlag(p) \/ RingAdd(p)
  <2>1. /\ pc[p] \in RingPc /\ pc'[p] \in RingPc \cup {"reset"}
        /\ alltoall_sequence_number' = alltoall_sequence_number /\ alltoall_pSync' = alltoall_pSync
    BY <1>3 DEF Types, RingPut, RingPutFlag, RingSeeFlag, RingAdd, AfterIteration, Goto, local,
                shared, RingPc
  <2> QED
    BY <1>0, <2>1, LaneFrame DEF RingPc
<1>4. CASE ResetFlags(p)
  <2>1. pc[p] = "reset" /\ pc'[p] = "barrier"
    BY <1>0, <1>4, ResetWhere
  <2>2. alltoall_sequence_number' = alltoall_sequence_number /\ alltoall_pSync' = alltoall_pSync
    BY <1>4 DEF ResetFlags
  <2> QED
    BY <1>0, <2>1, <2>2, LaneFrame
<1>5. CASE \E q \in PEs : ThreadPut(p, q)
  <2>1. PICK q \in PEs : ThreadPut(p, q)
    BY <1>5
  <2>2. /\ pc[p] = "aput" /\ pc'[p] = (IF todo[p] = {q} THEN "aadd" ELSE "aput")
        /\ todo'[p] = (IF todo[p] = {q} THEN PEs ELSE todo[p] \ {q})
        /\ alltoall_sequence_number' = alltoall_sequence_number /\ alltoall_pSync' = alltoall_pSync
    BY <2>1 DEF Types, ThreadPut, Served, Goto
  <2> QED
    BY <1>0, <2>2, LaneFrame
<1>6. CASE \E q \in PEs : ThreadAdd(p, q) \/ ThreadSee(p, q) \/ ThreadReset(p, q)
  BY <1>6, ThreadAddLanes, ThreadSeeLanes, ThreadResetLanes
<1>7. CASE CountCall(p)
  BY <1>7, CountLanes
<1>8. CASE LinearPut(p) \/ NothingToPut(p)
  <2>1. /\ pc[p] = "lput" /\ pc'[p] \in {"lput", "barrier"}
        /\ alltoall_sequence_number' = alltoall_sequence_number /\ alltoall_pSync' = alltoall_pSync
    BY <1>8 DEF Types, LinearPut, NothingToPut, Goto, local, shared
  <2> QED
    BY <1>0, <2>1, LaneFrame
<1>9. CASE EnterBarrier(p)
  <2>1. /\ pc[p] = "barrier" /\ pc'[p] = "inside"
        /\ alltoall_sequence_number' = alltoall_sequence_number /\ alltoall_pSync' = alltoall_pSync
    BY <1>9 DEF Types, EnterBarrier, Goto, shared
  <2> QED
    BY <1>0, <2>1, LaneFrame
<1>10. CASE LeaveBarrier(p)
  <2>1. /\ pc[p] = "inside" /\ pc'[p] \in {"seed", "out"}
        /\ alltoall_sequence_number' = alltoall_sequence_number
    BY <1>0, <1>10, Leaves
  <2>2. alltoall_pSync' = alltoall_pSync
    BY <1>10 DEF LeaveBarrier, shared
  <2> QED
    BY <1>0, <2>1, <2>2, LaneFrame
<1> QED
  BY <1>1, <1>2, <1>3, <1>4, <1>5, <1>6, <1>7, <1>8, <1>9, <1>10 DEF Step

(* What is told by the place of a PE that stays. *)
LEMMA StayPart ==
  ASSUME NEW x \in PEs, prog' = prog, Same(x)
  PROVE  /\ (Direct(x)' <=> Direct(x)) /\ (Ring(x)' <=> Ring(x)) /\ Its(x)' = Its(x)
         /\ (Before(x)' <=> Before(x)) /\ Ph(x)' = Ph(x) /\ Call(x)' = Call(x)
         /\ Ended(x)' = Ended(x) /\ Awaited(x)' = Awaited(x) /\ Flags(x)' = Flags(x)
         /\ Puts(x)' = Puts(x) /\ Segments(x)' = Segments(x) /\ pc'[x] = pc[x]
         /\ Calling(x)' = Calling(x)
         /\ \A y \in PEs : /\ (Flagged(x, y)' <=> Flagged(x, y)) /\ (Worked(x, y)' <=> Worked(x, y))
                           /\ (Taken(x, y)' <=> Taken(x, y)) /\ (Noticed(x, y)' <=> Noticed(x, y))
         /\ \A y, n : (HasPut(x, y, n)' <=> HasPut(x, y, n)) /\ (Over(x, n, y)' <=> Over(x, n, y))
<1>1. /\ Ph(x)' = Ph(x) /\ pc'[x] = pc[x] /\ phase'[x] = phase[x] /\ step'[x] = step[x]
      /\ todo'[x] = todo[x] /\ returned'[x] = returned[x] /\ prog' = prog
      /\ Call(x)' = Call(x) /\ Calling(x)' = Calling(x) /\ Phases(x)' = Phases(x)
      /\ IsPhased(x)' = IsPhased(x)
  BY StayPlace DEF Same
<1>2. (Direct(x)' <=> Direct(x)) /\ (Ring(x)' <=> Ring(x)) /\ Its(x)' = Its(x)
  BY <1>1 DEF Direct, Ring, Its, Iterations
<1>3. (Before(x)' <=> Before(x)) /\ Segments(x)' = Segments(x)
  BY <1>1 DEF Before, Segments
<1>4. /\ Ended(x)' = Ended(x) /\ Awaited(x)' = Awaited(x) /\ Flags(x)' = Flags(x)
      /\ Puts(x)' = Puts(x)
  BY <1>1, <1>2 DEF Ended, Awaited, Flags, Puts
<1>5. \A y \in PEs : /\ (Flagged(x, y)' <=> Flagged(x, y)) /\ (Worked(x, y)' <=> Worked(x, y))
                     /\ (Taken(x, y)' <=> Taken(x, y)) /\ (Noticed(x, y)' <=> Noticed(x, y))
  BY <1>1 DEF Flagged, Worked, Taken, Noticed
<1>6. \A y, n : (HasPut(x, y, n)' <=> HasPut(x, y, n)) /\ (Over(x, n, y)' <=> Over(x, n, y))
  BY <1>1 DEF HasPut, Over
<1> QED
  BY <1>1, <1>2, <1>3, <1>4, <1>5, <1>6

(* A step within a part leaves the part. *)
LEMMA InnerPart ==
  ASSUME NEW p \in PEs, prog' = prog, Inner(p)
  PROVE  /\ (Direct(p)' <=> Direct(p)) /\ (Ring(p)' <=> Ring(p)) /\ Its(p)' = Its(p)
         /\ Ph(p)' = Ph(p) /\ Call(p)' = Call(p) /\ Calling(p)' = Calling(p)
         /\ returned'[p] = returned[p]
<1>1. /\ Call(p)' = Call(p) /\ Calling(p)' = Calling(p) /\ Phases(p)' = Phases(p)
      /\ IsPhased(p)' = IsPhased(p) /\ Ph(p)' = Ph(p) /\ returned'[p] = returned[p]
  BY CallStays DEF Inner
<1> QED
  BY <1>1 DEF Direct, Ring, Its, Iterations

(* A call that p is in is one of the program's, and its cells are. *)
LEMMA CallCells ==
  ASSUME Placed, NEW p \in PEs, pc[p] # "out"
  PROVE  /\ Calling(p) /\ Call(p) \in 1 .. Len(prog) /\ Call(p) = returned[p] + 1
         /\ returned[p] \in Nat
         /\ \A q \in PEs : DOMAIN dst[q][Call(p)] = Cells(prog[Call(p)])
<1>1. Types /\ Calling(p)
  BY DEF Placed, Where
<1> QED
  BY <1>1, CallNumber DEF Types

(* A cell of a destination after a put. *)
LEMMA DstCell ==
  ASSUME Types, NEW p \in PEs, NEW q, NEW c, NEW v, PutDst(p, q, c, v),
         NEW x \in PEs, NEW n \in 1 .. Len(prog), NEW d \in DOMAIN dst[x][n]
  PROVE  dst'[x][n][d] = IF x = q /\ n = Call(p) /\ d = c THEN v ELSE dst[x][n][d]
<1>1. x \in DOMAIN dst /\ n \in DOMAIN dst[x]
  BY DEF Types
<1> QED
  BY <1>1 DEF PutDst

(* The cells of a call without phases. *)
LEMMA PlainCell ==
  ASSUME Types, NEW n \in 1 .. Len(prog), IsPlain(n), NEW x \in PEs, NEW y \in PEs
  PROVE  <<0, x>> \in DOMAIN dst[y][n]
  BY DEF Types, IsPlain, Cells

----------------------------------------------------------------------------

LEMMA PlainFrame ==
  ASSUME Placed, PlainCells, NEW p \in PEs, prog' = prog, \A x \in PEs \ {p} : Same(x),
         \A q \in PEs, n \in 1 .. Len(prog) :
           IsPlain(n) => /\ dst'[q][n] = dst[q][n]
                         /\ HasPut(p, q, n)' <=> HasPut(p, q, n)
  PROVE  PlainCells'
<1>1. \A x, q \in PEs, n \in 1 .. Len(prog) : IsPlain(n) => (HasPut(x, q, n)' <=> HasPut(x, q, n))
  BY StayPart
<1>2. \A n : (IsPlain(n)' <=> IsPlain(n)) /\ \A x, q : PutTo(x, q, n)' = PutTo(x, q, n)
  BY DEF IsPlain, PutTo
<1>3. \A x, q \in PEs, n \in 1 .. Len(prog) : IsPlain(n) =>
        dst'[q][n][<<0, x>>] = IF HasPut(x, q, n)' THEN PutTo(x, q, n) ELSE {}
  BY <1>1 DEF PlainCells
<1> QED
  BY <1>2, <1>3 DEF PlainCells

(* A put: the cell of p at q. *)
LEMMA PlainPut ==
  ASSUME Placed, PlainCells, NEW p \in PEs, NEW q \in PEs, prog' = prog,
         \A x \in PEs \ {p} : Same(x), pc[p] # "out", IsPlain(Call(p)),
         PutDst(p, q, <<0, p>>, PutTo(p, q, Call(p))),
         \A r \in PEs, n \in 1 .. Len(prog) :
           HasPut(p, r, n)' <=> HasPut(p, r, n) \/ (r = q /\ n = Call(p))
  PROVE  PlainCells'
<1>0. Types /\ Call(p) \in 1 .. Len(prog)
  BY CallCells DEF Placed
<1>1. \A x, r \in PEs, n \in 1 .. Len(prog) : IsPlain(n) =>
        (HasPut(x, r, n)' <=> HasPut(x, r, n) \/ (x = p /\ r = q /\ n = Call(p)))
  BY StayPart
<1>2. \A n : (IsPlain(n)' <=> IsPlain(n)) /\ \A x, r : PutTo(x, r, n)' = PutTo(x, r, n)
  BY DEF IsPlain, PutTo
<1>3. \A x, r \in PEs, n \in 1 .. Len(prog) : IsPlain(n) =>
        dst'[r][n][<<0, x>>] = IF r = q /\ n = Call(p) /\ x = p THEN PutTo(p, q, Call(p))
                               ELSE dst[r][n][<<0, x>>]
  <2> TAKE x, r \in PEs, n \in 1 .. Len(prog)
  <2> HAVE IsPlain(n)
  <2>1. <<0, x>> \in DOMAIN dst[r][n]
    BY <1>0, PlainCell
  <2> DEFINE c == <<0, p>>
             v == PutTo(p, q, Call(p))
             d == <<0, x>>
  <2>2. PutDst(p, q, c, v) /\ d \in DOMAIN dst[r][n] /\ (d = c <=> x = p)
    BY <2>1
  <2> HIDE DEF c, v, d
  <2>3. dst'[r][n][d] = IF r = q /\ n = Call(p) /\ d = c THEN v ELSE dst[r][n][d]
    BY <1>0, <2>2, DstCell
  <2> QED
    BY <2>2, <2>3 DEF d, v
<1>4. \A x, r \in PEs, n \in 1 .. Len(prog) : IsPlain(n) =>
        dst'[r][n][<<0, x>>] = IF HasPut(x, r, n)' THEN PutTo(x, r, n) ELSE {}
  BY <1>1, <1>3 DEF PlainCells
<1> QED
  BY <1>2, <1>4 DEF PlainCells

(* Only destinations of the call that a PE is in are written by it. *)
LEMMA PutElsewhere ==
  ASSUME Types, NEW p \in PEs, NEW q, NEW c, NEW v, PutDst(p, q, c, v), NEW x \in PEs,
         NEW n \in 1 .. Len(prog), n # Call(p)
  PROVE  dst'[x][n] = dst[x][n]
<1>1. x \in DOMAIN dst /\ n \in DOMAIN dst[x]
  BY DEF Types
<1> QED
  BY <1>1 DEF PutDst

LEMMA WritesCall ==
  ASSUME Placed, NEW p \in PEs, Step(p)
  PROVE  \A x \in PEs, n \in 1 .. Len(prog) : n # Call(p) => dst'[x][n] = dst[x][n]
<1> USE DEF Placed
<1> SUFFICES ASSUME NEW x \in PEs, NEW n \in 1 .. Len(prog), n # Call(p)
             PROVE  dst'[x][n] = dst[x][n]
  OBVIOUS
<1>1. CASE Enter(p) \/ PutWork(p) \/ PutFlag(p) \/ SeeFlag(p)
  BY <1>1 DEF Enter, PutWork, PutFlag, RaiseFlag, SeeFlag, shared
<1>2. CASE RingPutFlag(p) \/ RingSeeFlag(p) \/ ResetFlags(p)
  BY <1>2 DEF RingPutFlag, RingSeeFlag, ResetFlags, shared
<1>3. CASE \E q \in PEs : ThreadAdd(p, q) \/ ThreadSee(p, q) \/ ThreadReset(p, q)
  BY <1>3 DEF ThreadAdd, ThreadSee, ThreadReset, shared
<1>4. CASE CountCall(p) \/ NothingToPut(p) \/ EnterBarrier(p) \/ LeaveBarrier(p)
  BY <1>4 DEF CountCall, NothingToPut, EnterBarrier, LeaveBarrier, shared
<1>5. CASE Seed(p)
  <2>1. CASE Segments(p) = 0
    BY <1>5, <2>1, PutElsewhere DEF Seed
  <2>2. CASE Segments(p) # 0
    <3> DEFINE f == [c \in DOMAIN dst[p][Call(p)] |->
                      IF c \in RingCells(phase[p], Segments(p)) THEN {<<p, c, Call(p)>>}
                      ELSE dst[p][Call(p)][c]]
    <3>1. dst' = [dst EXCEPT ![p] = [dst[p] EXCEPT ![Call(p)] = f]]
      BY <1>5, <2>2 DEF Seed
    <3> HIDE DEF f
    <3>2. x \in DOMAIN dst /\ n \in DOMAIN dst[x]
      BY DEF Types
    <3> QED
      BY <3>1, <3>2
  <2> QED
    BY <2>1, <2>2
<1>6. CASE AddWork(p) \/ RingAdd(p)
  BY <1>6, PutElsewhere DEF AddWork, RingAdd, Add
<1>7. CASE RingPut(p)
  <2>1. dst' = dst \/ \E q, c, v : PutDst(p, q, c, v)
    BY <1>7 DEF RingPut
  <2> QED
    BY <2>1, PutElsewhere
<1>8. CASE \E q \in PEs : ThreadPut(p, q)
  BY <1>8, PutElsewhere DEF ThreadPut
<1>9. CASE LinearPut(p)
  BY <1>9, PutElsewhere DEF LinearPut
<1> QED
  BY <1>1, <1>2, <1>3, <1>4, <1>5, <1>6, <1>7, <1>8, <1>9 DEF Step

(* Calls of phases and calls of puts. *)
LEMMA PlainIs ==
  ASSUME Types, NEW p \in PEs, Calling(p)
  PROVE  IsPlain(Call(p)) <=> ~IsPhased(p)
<1>1. CASE IsPhased(p)
  <2>1. Len(Phases(p)) >= 1
    BY <1>1, PhasesAre
  <2>2. Phases(p) # <<>>
    BY <2>1
  <2> QED
    BY <1>1, <2>2 DEF IsPlain, Phases
<1>2. CASE ~IsPhased(p)
  BY <1>2, PhasesAre DEF IsPlain, Phases
<1> QED
  BY <1>1, <1>2

LEMMA PlainPhases ==
  ASSUME Placed, PlainCells, NEW p \in PEs, Step(p), pc[p] \in Phasing
  PROVE  PlainCells'
<1> USE DEF Placed
<1>0. Types /\ Where(p) /\ prog' = prog /\ \A x \in PEs \ {p} : Same(x)
  BY OthersStay
<1>1. ~LeaveBarrier(p) /\ ~CountCall(p) /\ pc[p] # "out"
  BY DEF LeaveBarrier, CountCall, Goto, Phasing
<1>2. returned'[p] = returned[p] /\ Call(p)' = Call(p)
  BY <1>0, <1>1, InnerSteps, InnerPart
<1>3. ~IsPlain(Call(p)) /\ Call(p) \in 1 .. Len(prog)
  BY <1>0, <1>1, InPhaseIs, PlainIs, CallCells
<1>4. \A q, n : n # Call(p) => (HasPut(p, q, n)' <=> HasPut(p, q, n))
  BY <1>0, <1>2 DEF HasPut
<1> QED
  BY <1>0, <1>3, <1>4, WritesCall, PlainFrame

LEMMA PlainThreadPut ==
  ASSUME Placed, PlainCells, NEW p \in PEs, NEW q \in PEs, ThreadPut(p, q)
  PROVE  PlainCells'
<1> USE DEF Placed
<1>0. Types /\ Where(p) /\ prog' = prog /\ \A x \in PEs \ {p} : Same(x)
  BY OthersStay DEF Step
<1>1. /\ pc[p] = "aput" /\ pc'[p] = (IF todo[p] = {q} THEN "aadd" ELSE "aput")
      /\ q \in todo[p] /\ todo'[p] = (IF todo[p] = {q} THEN PEs ELSE todo[p] \ {q})
      /\ returned' = returned /\ PutDst(p, q, <<0, p>>, {<<p, q, Call(p)>>})
  BY DEF Types, ThreadPut, Served, Goto
<1>2. /\ InLanes(p) /\ Calling(p) /\ todo[p] \in SUBSET PEs
  BY <1>1, LaneNow DEF Lanes
<1>3. prog[Call(p)].op = "ALLTOALL_THREADS" /\ IsPlain(Call(p))
  BY <1>0, <1>2, PlainIs DEF InLanes, IsPhased, Op
<1>4. PutTo(p, q, Call(p)) = {<<p, q, Call(p)>>}
  BY <1>3 DEF PutTo
<1>5. Call(p)' = Call(p) /\ Call(p) = returned[p] + 1 /\ returned[p] \in Nat
  BY <1>0, <1>1, CallStays, CallNumber DEF Types
<1>6. \A r \in PEs, n \in 1 .. Len(prog) :
        HasPut(p, r, n)' <=> HasPut(p, r, n) \/ (r = q /\ n = Call(p))
  <2> TAKE r \in PEs, n \in 1 .. Len(prog)
  <2>1. CASE n # Call(p)
    BY <1>0, <1>1, <1>5, <2>1 DEF HasPut
  <2>2. CASE n = Call(p)
    <3>1. HasPut(p, r, n) <=> r \notin todo[p]
      BY <1>1, <1>3, <1>5, <2>2 DEF HasPut, Ending
    <3>2. HasPut(p, r, n)' <=> pc'[p] = "aadd" \/ r \notin todo'[p]
      <4>1. pc'[p] \in {"aput", "aadd"} /\ prog'[n].op = "ALLTOALL_THREADS"
            /\ n = Call(p)' /\ ~(n <= returned'[p])
        BY <1>0, <1>1, <1>3, <1>5, <2>2
      <4> QED
        BY <4>1 DEF HasPut, Ending
    <3>3. pc'[p] = "aadd" \/ r \notin todo'[p] <=> r \notin todo[p] \/ r = q
      BY <1>1, <1>2
    <3> QED
      BY <2>2, <3>1, <3>2, <3>3
  <2> QED
    BY <2>1, <2>2
<1>7. PutDst(p, q, <<0, p>>, PutTo(p, q, Call(p))) /\ pc[p] # "out"
  BY <1>1, <1>4
<1> QED
  BY <1>0, <1>3, <1>6, <1>7, PlainPut

LEMMA PlainLinearPut ==
  ASSUME Placed, PlainCells, NEW p \in PEs, LinearPut(p)
  PROVE  PlainCells'
<1> USE DEF Placed
<1>0. Types /\ Where(p) /\ prog' = prog /\ \A x \in PEs \ {p} : Same(x)
  BY OthersStay DEF Step
<1>1. /\ pc[p] = "lput" /\ pc'[p] = (IF step[p] = N - 1 THEN "barrier" ELSE "lput")
      /\ step'[p] = step[p] + 1
      /\ Op(p) = "BROADCAST" => p = 0
      /\ returned' = returned
      /\ PutDst(p, step[p], <<0, p>>,
                {<<p, IF Op(p) = "ALLTOALL" THEN step[p] ELSE 0, Call(p)>>})
  BY DEF Types, LinearPut, Goto, Steps, local
<1>2. /\ InPuts(p) /\ Calling(p)
  BY <1>1 DEF Where, InPhase, InLanes, Phasing, Ending, Lanes
<1>3. /\ prog[Call(p)].op \in {"ALLTOALL", "FCOLLECT", "BROADCAST"} /\ IsPlain(Call(p))
      /\ step[p] \in PEs
  BY <1>0, <1>1, <1>2, PlainIs DEF InPuts, IsPhased, Op
<1>4. PutTo(p, step[p], Call(p)) =
        {<<p, IF Op(p) = "ALLTOALL" THEN step[p] ELSE 0, Call(p)>>}
  BY <1>3 DEF PutTo, Op
<1>5. Call(p)' = Call(p) /\ Call(p) = returned[p] + 1 /\ returned[p] \in Nat
  BY <1>0, <1>1, CallStays, CallNumber DEF Types
<1>6. \A r \in PEs : (r < step[p] + 1 <=> r < step[p] \/ r = step[p]) /\ (step[p] = N - 1 => r < step[p] + 1)
  BY <1>3, Numbers
<1>7. \A r \in PEs, n \in 1 .. Len(prog) :
        HasPut(p, r, n)' <=> HasPut(p, r, n) \/ (r = step[p] /\ n = Call(p))
  <2> TAKE r \in PEs, n \in 1 .. Len(prog)
  <2>1. CASE n # Call(p)
    BY <1>0, <1>1, <1>5, <2>1 DEF HasPut
  <2>2. CASE n = Call(p)
    <3>1. HasPut(p, r, n) <=> r < step[p]
      BY <1>1, <1>5, <2>2 DEF HasPut, Ending, Op
    <3>2. HasPut(p, r, n)' <=> pc'[p] = "barrier" \/ r < step'[p]
      BY <1>0, <1>1, <1>5, <2>2 DEF HasPut, Ending, Op
    <3>3. pc'[p] = "barrier" \/ r < step'[p] <=> r < step[p] \/ r = step[p]
      BY <1>1, <1>3, <1>6
    <3> QED
      BY <2>2, <3>1, <3>2, <3>3
  <2> QED
    BY <2>1, <2>2
<1> QED
  BY <1>0, <1>1, <1>3, <1>4, <1>7, PlainPut

(* Steps that write no destination. *)
LEMMA PlainRest ==
  ASSUME Placed, PlainCells, NEW p \in PEs,
         \/ Enter(p) \/ CountCall(p) \/ NothingToPut(p) \/ EnterBarrier(p) \/ LeaveBarrier(p)
         \/ \E q \in PEs : ThreadAdd(p, q) \/ ThreadSee(p, q) \/ ThreadReset(p, q)
  PROVE  PlainCells'
<1> USE DEF Placed
<1>0. Types /\ Where(p) /\ prog' = prog /\ \A x \in PEs \ {p} : Same(x)
  BY OthersStay DEF Step
<1>00. Call(p) = returned[p] + 1 /\ returned[p] \in Nat
  BY CallNumber DEF Types
<1>1. CASE Enter(p)
  <2>1. /\ pc[p] = "out" /\ pc'[p] \in {"seed", "aput", "lput"} /\ returned' = returned
        /\ step'[p] = 0 /\ todo'[p] = PEs /\ dst' = dst
    BY <1>1 DEF Types, Enter, Goto, Steps, shared
  <2>2. \A q \in PEs : \A n : HasPut(p, q, n)' <=> HasPut(p, q, n)
    BY <1>0, <2>1, Numbers, CallStays DEF HasPut, Ending
  <2> QED
    BY <1>0, <2>1, <2>2, PlainFrame
<1>2. CASE CountCall(p)
  <2>1. /\ pc[p] = "count" /\ pc'[p] = "out" /\ returned'[p] = Call(p) /\ dst' = dst
    BY <1>2 DEF Types, CountCall, Goto, Returns, shared
  <2>2. InLanes(p) /\ Calling(p)
    BY <2>1, LaneNow DEF Lanes
  <2>3. prog[Call(p)].op = "ALLTOALL_THREADS"
    BY <2>2 DEF InLanes, Op
  <2>4. \A q \in PEs, n \in 1 .. Len(prog) : HasPut(p, q, n)' <=> HasPut(p, q, n)
    BY <1>0, <1>00, <2>1, <2>3 DEF HasPut, Ending
  <2> QED
    BY <1>0, <2>1, <2>4, PlainFrame
<1>3. CASE NothingToPut(p)
  <2>1. /\ pc[p] = "lput" /\ pc'[p] = "barrier" /\ returned' = returned /\ dst' = dst
        /\ Op(p) = "BROADCAST" /\ p # 0
    BY <1>3 DEF Types, NothingToPut, Goto, local, shared
  <2>2. \A q \in PEs, n \in 1 .. Len(prog) : HasPut(p, q, n)' <=> HasPut(p, q, n)
    BY <1>0, <1>00, <2>1, CallStays DEF HasPut, Ending, Op
  <2> QED
    BY <1>0, <2>1, <2>2, PlainFrame
<1>4. CASE EnterBarrier(p)
  <2>1. /\ pc[p] = "barrier" /\ pc'[p] = "inside" /\ returned' = returned /\ dst' = dst
    BY <1>4 DEF Types, EnterBarrier, Goto, shared
  <2>2. \A q \in PEs, n \in 1 .. Len(prog) : HasPut(p, q, n)' <=> HasPut(p, q, n)
    BY <1>0, <1>00, <2>1, CallStays DEF HasPut, Ending
  <2> QED
    BY <1>0, <2>1, <2>2, PlainFrame
<1>5. CASE LeaveBarrier(p)
  <2>1. dst' = dst
    BY <1>5 DEF LeaveBarrier, shared
  <2>2. pc[p] = "inside" /\ Calling(p)
    BY <1>0, <1>5, Leaves
  <2>3. CASE phase[p] < Len(Phases(p))
    <3>1. IsPhased(p) /\ returned'[p] = returned[p]
      BY <1>0, <1>5, <2>3, Leaves
    <3>2. ~IsPlain(Call(p)) /\ Call(p)' = Call(p)
      BY <1>0, <2>2, <3>1, PlainIs, CallStays
    <3>3. \A q \in PEs, n \in 1 .. Len(prog) : IsPlain(n) => (HasPut(p, q, n)' <=> HasPut(p, q, n))
      BY <1>0, <3>1, <3>2 DEF HasPut
    <3> QED
      BY <1>0, <2>1, <3>3, PlainFrame
  <2>4. CASE ~(phase[p] < Len(Phases(p)))
    <3>1. pc'[p] = "out" /\ returned'[p] = Call(p)
      BY <1>0, <1>5, <2>4, Leaves
    <3>2. \A q \in PEs, n \in 1 .. Len(prog) : HasPut(p, q, n)' <=> HasPut(p, q, n)
      BY <1>0, <1>00, <2>2, <3>1 DEF HasPut, Ending
    <3> QED
      BY <1>0, <2>1, <3>2, PlainFrame
  <2> QED
    BY <2>3, <2>4
<1>6. CASE \E q \in PEs : ThreadAdd(p, q) \/ ThreadSee(p, q) \/ ThreadReset(p, q)
  <2>1. /\ pc[p] \in {"aadd", "await", "areset"} /\ pc'[p] \in {"aadd", "await", "areset", "count"}
        /\ returned' = returned /\ dst' = dst
    BY <1>6 DEF Types, ThreadAdd, ThreadSee, ThreadReset, Served, Goto, shared
  <2>2. \A q \in PEs, n \in 1 .. Len(prog) : HasPut(p, q, n)' <=> HasPut(p, q, n)
    BY <1>0, <1>00, <2>1, CallStays DEF HasPut, Ending
  <2> QED
    BY <1>0, <2>1, <2>2, PlainFrame
<1> QED
  BY <1>1, <1>2, <1>3, <1>4, <1>5, <1>6

LEMMA PlainStep ==
  ASSUME Placed, PlainCells, NEW p \in PEs, Step(p)
  PROVE  PlainCells'
<1>1. CASE \/ Seed(p) \/ PutWork(p) \/ PutFlag(p) \/ SeeFlag(p) \/ AddWork(p) \/ RingPut(p)
           \/ RingPutFlag(p) \/ RingSeeFlag(p) \/ RingAdd(p) \/ ResetFlags(p)
  <2>1. pc[p] \in Phasing
    BY <1>1 DEF Seed, PutWork, PutFlag, RaiseFlag, SeeFlag, AddWork, RingPut, RingPutFlag,
                RingSeeFlag, RingAdd, ResetFlags, Goto, Phasing
  <2> QED
    BY <2>1, PlainPhases
<1> QED
  BY <1>1, PlainThreadPut, PlainLinearPut, PlainRest DEF Step

(* PEs that are level are in the same part. *)
LEMMA LevelPart ==
  ASSUME NEW p \in PEs, NEW q \in PEs, Level(p, q)
  PROVE  /\ Call(p) = Call(q) /\ Calling(p) = Calling(q) /\ Op(p) = Op(q) /\ Phases(p) = Phases(q)
         /\ IsPhased(p) = IsPhased(q) /\ Ph(p) = Ph(q)
         /\ Direct(p) = Direct(q) /\ Ring(p) = Ring(q) /\ Its(p) = Its(q)
<1>1. /\ Call(p) = Call(q) /\ Calling(p) = Calling(q) /\ Op(p) = Op(q) /\ Phases(p) = Phases(q)
      /\ IsPhased(p) = IsPhased(q) /\ Ph(p) = Ph(q)
  BY DEF Level, Call, Calling, Op, Phases, IsPhased
<1> QED
  BY <1>1 DEF Direct, Ring, Its

(* Who is behind is inside the barrier, or past its adds. *)
LEMMA Behind ==
  ASSUME Placed, NEW p \in PEs, NEW q \in PEs, Ahead(q, p)
  PROVE  /\ pc[p] \in {"inside", "aadd", "await", "areset", "count"}
         /\ Calling(p)
         /\ IsPhased(p) => pc[p] = "inside"
<1>1. Calling(p) /\ pc[p] \in {"inside", "aadd", "await", "areset", "count"}
  BY DEF Ahead, Follows, Added
<1>2. pc[p] \in Lanes => Op(p) = "ALLTOALL_THREADS"
  BY DEF Placed, Where, InPhase, InPuts, InLanes, Phasing, Ending, Lanes
<1> QED
  BY <1>1, <1>2 DEF Lanes, IsPhased

LEMMA PhasingIs ==
  ASSUME NEW p \in PEs, pc[p] \in Phasing
  PROVE  /\ Before(p) /\ pc[p] # "out" /\ \A q \in PEs : ~Ahead(q, p)
         /\ pc[p] \notin Ending
<1>1. Before(p) /\ pc[p] # "out" /\ pc[p] \notin Ending
  BY DEF Phasing, Before, Ending
<1>2. \A q \in PEs : ~Ahead(q, p)
  BY DEF Phasing, Ahead, Added
<1> QED
  BY <1>1, <1>2

(* Those whose flags can be in q's arrays are in one part. *)
LEMMA LiveSame ==
  ASSUME Placed, NEW p \in PEs, NEW q \in PEs, NEW r \in PEs,
         Direct(p) \/ Ring(p), Direct(r) \/ Ring(r), Live(p, q), Live(r, q)
  PROVE  Level(p, r)
<1>0. IsPhased(p) /\ Calling(p) /\ IsPhased(r)
  BY DEF Direct, Ring
<1>1. CASE Level(p, q) /\ Before(q)
  <2>1. IsPhased(q)
    BY <1>0, <1>1, LevelPart
  <2>2. ~Ahead(r, q)
    BY <1>1, <2>1, Behind DEF Before, Ending
  <2>3. Level(r, q)
    BY <2>2 DEF Live
  <2> QED
    BY <1>1, <2>3 DEF Level
<1>2. CASE Ahead(p, q)
  <2>1. CASE pc[q] = "inside"
    <3>1. Ahead(r, q)
      BY <2>1 DEF Live, Before, Ending
    <3>2. ~Added(q, p) /\ ~Added(q, r)
      BY <2>1 DEF Added
    <3>3. left[p] = left[r] /\ seq[p] = seq[r] /\ Follows(p, q) /\ Follows(r, q)
      BY <1>2, <3>1, <3>2 DEF Ahead
    <3>4. returned[p] = returned[r] /\ Ph(p) = Ph(r)
      <4>1. CASE Ph(q) < Len(Phases(q))
        BY <3>3, <4>1 DEF Follows
      <4>2. CASE ~(Ph(q) < Len(Phases(q)))
        BY <3>3, <4>2 DEF Follows
      <4> QED
        BY <4>1, <4>2
    <3> QED
      BY <3>3, <3>4 DEF Level
  <2>2. CASE pc[q] # "inside"
    <3>1. Calling(q) /\ ~IsPhased(q) /\ Len(Phases(q)) = 0 /\ Ph(q) \in Nat
      BY <1>2, <2>2, Behind, PhasesAre, PlaceNumbers DEF Placed
    <3>2. Ahead(r, q)
      <4> SUFFICES ASSUME Level(r, q) PROVE Ahead(r, q)
        BY DEF Live
      <4>1. ~IsPhased(r)
        BY <3>1, LevelPart
      <4> QED
        BY <1>0, <4>1
    <3>3. /\ Follows(p, q) /\ left[p] = left[q] /\ seq[p] = seq[q] + 1
          /\ Follows(r, q) /\ left[r] = left[q] /\ seq[r] = seq[q] + 1
      BY <1>2, <2>2, <3>2 DEF Ahead
    <3>4. ~(Ph(q) < Len(Phases(q)))
      BY <3>1
    <3> QED
      BY <3>3, <3>4 DEF Follows, Level
  <2> QED
    BY <2>1, <2>2
<1> QED
  BY <1>1, <1>2 DEF Live

(* Who puts for q puts where q looks for it. *)
LEMMA Pairs ==
  ASSUME Lockstep, NEW p \in PEs, NEW q \in PEs, pc[p] \in Phasing
  PROVE  Level(p, q) \/ Ahead(p, q)
  BY PhasingIs DEF Lockstep

LEMMA DirectLive ==
  ASSUME Placed, Lockstep, DirectOrder, NEW p \in PEs, pc[p] \in {"put", "flag"}
  PROVE  /\ step[p] \in PEs \ {p} /\ Live(p, step[p]) /\ Direct(p)
         /\ Segments(p) = 0 /\ Ph(p) = phase[p] /\ IsPhased(p) /\ Calling(p)
<1> DEFINE q == step[p]
<1>1. pc[p] \in Phasing /\ pc[p] \in DirectPc
  BY DEF Phasing, DirectPc
<1>2. q \in PEs \ {p} /\ Direct(p) /\ Segments(p) = 0 /\ Ph(p) = phase[p] /\ IsPhased(p) /\ Calling(p)
  BY <1>1, InPhaseIs DEF InPhase, Placed
<1>3. ~Flagged(p, q)
  BY <1>2, Numbers DEF Flagged, Ending
<1> HIDE DEF q
<1>4. Level(p, q) => Before(q)
  <2> SUFFICES ASSUME Level(p, q), ~Before(q) PROVE FALSE
    OBVIOUS
  <2>1. Noticed(q, p) /\ Direct(q) /\ Level(q, p)
    BY <1>2, LevelPart DEF Before, Noticed, Taken, Level
  <2> QED
    BY <1>2, <1>3, <2>1 DEF DirectOrder
<1>5. Live(p, q)
  BY <1>1, <1>2, <1>4, Pairs DEF Live
<1> QED
  BY <1>2, <1>5 DEF q

LEMMA RingNumbers ==
  ASSUME Placed, NEW p \in PEs, Ring(p)
  PROVE  /\ Its(p) \in Nat /\ Its(p) >= Iterations /\ Ended(p) \in 0 .. Its(p)
         /\ Awaited(p) \in Nat /\ Awaited(p) \in {Ended(p), Ended(p) + 1}
         /\ Flags(p) \in Nat /\ Flags(p) >= Awaited(p) /\ Flags(p) <= Awaited(p) + 1
         /\ Puts(p) \in Nat /\ Puts(p) >= Flags(p) /\ Puts(p) <= Awaited(p) + 1
         /\ Puts(p) <= Its(p)
         /\ Op(p) = "REDUCE" /\ Len(Phases(p)) = 1 /\ Ph(p) = 1
<1>1. Calling(p) /\ IsPhased(p) /\ Phases(p)[Ph(p)] # 0 /\ Types /\ Where(p)
  BY DEF Ring, Placed
<1>2. Phases(p) \in Seq(Nat) /\ Len(Phases(p)) >= 1 /\ Len(Phases(p)) \in Nat
  BY <1>1, PhasesAre
<1>3. Ph(p) \in 1 .. Len(Phases(p))
  <2>1. CASE pc[p] = "out"
    BY <1>2, <2>1 DEF Ph
  <2>2. CASE pc[p] # "out"
    BY <1>1, <2>2 DEF Where, InPhase, InLanes, InPuts, IsPhased, Ph
  <2> QED
    BY <2>1, <2>2
<1>4. Op(p) = "REDUCE" /\ Len(Phases(p)) = 1 /\ Ph(p) = 1
  <2>1. Op(p) # "SCATTER"
    BY <1>1, <1>3, PhasesAre
  <2>2. Op(p) = "REDUCE"
    BY <1>1, <2>1 DEF IsPhased
  <2>3. Len(Phases(p)) = 1
    BY <1>1, <2>2, PhasesAre
  <2> QED
    BY <1>3, <2>2, <2>3
<1>5. Its(p) \in Nat /\ Its(p) >= Iterations
  <2>1. Phases(p)[Ph(p)] \in Nat /\ 0 < Phases(p)[Ph(p)]
    BY <1>1, <1>2, <1>3
  <2>2. Iterations \in Nat \ {0}
    BY Numbers
  <2>3. 0 * Iterations + Iterations <= Phases(p)[Ph(p)] * Iterations /\ Phases(p)[Ph(p)] * Iterations \in Nat
    BY <2>1, <2>2, InSegments
  <2> QED
    BY <2>2, <2>3 DEF Its
<1>6. pc[p] \in RingPc => step[p] \in 0 .. Its(p) - 1
  BY <1>1, RingIteration
<1>7. Ended(p) \in 0 .. Its(p) /\ (pc[p] \in RingPc => Ended(p) = step[p])
  BY <1>5, <1>6 DEF Ended, RingPc
<1>8. /\ Awaited(p) = Ended(p) + IF pc[p] = "radd" THEN 1 ELSE 0
      /\ Flags(p) = Ended(p) + IF pc[p] \in {"rwait", "radd"} THEN 1 ELSE 0
      /\ Puts(p) = Ended(p) + IF pc[p] \in {"rflag", "rwait", "radd"} THEN 1 ELSE 0
  BY DEF Awaited, Flags, Puts
<1>9. Puts(p) <= Its(p)
  <2>1. CASE pc[p] \in RingPc
    BY <1>5, <1>6, <1>7, <1>8, <2>1
  <2>2. CASE pc[p] \notin RingPc
    BY <1>5, <1>7, <1>8, <2>2 DEF RingPc
  <2> QED
    BY <2>1, <2>2
<1> QED
  BY <1>4, <1>5, <1>7, <1>8, <1>9

LEMMA RingLive ==
  ASSUME Placed, Lockstep, RingOrder, NEW p \in PEs, pc[p] \in {"rput", "rflag"}
  PROVE  Live(p, Send(p)) /\ Ring(p) /\ Send(p) \in PEs /\ Send(p) # p
<1>1. PICK q \in PEs : q = Send(p) /\ q # p /\ Back(q, 1) = p
  BY SendIs
<1>2. pc[p] \in Phasing /\ pc[p] \in RingPc
  BY DEF Phasing, RingPc
<1>3. Ring(p) /\ step[p] \in 0 .. Its(p) - 1
  BY <1>2, RingIteration DEF Placed
<1>4. Flags(p) < Its(p) /\ Its(p) \in Nat /\ Flags(p) \in Nat
  BY <1>2, <1>3, RingNumbers DEF Flags, Ended, RingPc
<1>5. Level(p, q) => Before(q)
  <2> SUFFICES ASSUME Level(p, q), ~Before(q) PROVE FALSE
    OBVIOUS
  <2>1. Ring(q) /\ Level(q, p) /\ Its(q) = Its(p)
    BY <1>3, LevelPart DEF Level
  <2>2. Awaited(q) = Its(q)
    <3>1. pc[q] \in Ending /\ Its(q) \in Nat
      BY <1>4, <2>1 DEF Before
    <3> QED
      BY <3>1 DEF Awaited, Ended, Ending, RingPc
  <2>3. 1 \in 1 .. N - 1
    BY Numbers
  <2>4. Awaited(q) <= Flags(p) + 1 - 1
    BY <1>1, <2>1, <2>3 DEF RingOrder
  <2> QED
    BY <1>4, <2>1, <2>2, <2>4
<1>6. Live(p, q)
  BY <1>2, <1>5, Pairs DEF Live
<1> QED
  BY <1>1, <1>3, <1>6

(* Outside the phases no array of theirs is written. *)
LEMMA QuietSteps ==
  ASSUME Placed, NEW p \in PEs, Step(p), pc[p] \notin Phasing, ~LeaveBarrier(p), ~CountCall(p)
  PROVE  /\ pWrk' = pWrk /\ reduce_pSync' = reduce_pSync /\ Inner(p)
         /\ prog' = prog /\ \A x \in PEs \ {p} : Same(x)
         /\ Before(p)' => Before(p)
         /\ Direct(p) \/ Ring(p) => \/ pc[p] = "out" /\ pc'[p] = "seed" /\ phase'[p] = 1
                                    \/ pc[p] = "barrier" /\ pc'[p] = "inside" /\ phase'[p] = phase[p]
<1> USE DEF Placed
<1>0. /\ Inner(p) /\ prog' = prog /\ \A x \in PEs \ {p} : Same(x)
  BY InnerSteps, OthersStay
<1>1. CASE Enter(p)
  <2>1. /\ pWrk' = pWrk /\ reduce_pSync' = reduce_pSync /\ pc[p] = "out" /\ phase'[p] = 1
        /\ pc'[p] = CASE Op(p) \in Reductions \cup {"SCATTER"} -> "seed"
                     [] Op(p) = "ALLTOALL_THREADS" -> "aput"
                     [] OTHER -> "lput"
    BY <1>1 DEF Types, Enter, Goto, shared
  <2>2. IsPhased(p) => pc'[p] = "seed"
    BY <2>1 DEF IsPhased, Reductions
  <2> QED
    BY <1>0, <2>1, <2>2 DEF Before, Ending, Direct, Ring
<1>2. CASE \E q \in PEs : ThreadPut(p, q) \/ ThreadAdd(p, q) \/ ThreadSee(p, q) \/ ThreadReset(p, q)
  <2>1. /\ pWrk' = pWrk /\ reduce_pSync' = reduce_pSync /\ pc[p] \in Lanes /\ pc[p] \notin Ending
    BY <1>2 DEF ThreadPut, ThreadAdd, ThreadSee, ThreadReset, Served, Goto, shared, Lanes, Ending
  <2>2. ~IsPhased(p)
    BY <2>1, LaneNow DEF InLanes, IsPhased
  <2> QED
    BY <1>0, <2>1, <2>2 DEF Before, Direct, Ring
<1>3. CASE LinearPut(p) \/ NothingToPut(p)
  <2>1. /\ pWrk' = pWrk /\ reduce_pSync' = reduce_pSync /\ pc[p] = "lput"
    BY <1>3 DEF LinearPut, NothingToPut, Goto, shared
  <2>2. ~IsPhased(p)
    BY <2>1 DEF Where, InPhase, InLanes, InPuts, Phasing, Lanes, Ending, IsPhased
  <2> QED
    BY <1>0, <2>1, <2>2 DEF Before, Ending, Direct, Ring
<1>4. CASE EnterBarrier(p)
  <2>1. /\ pWrk' = pWrk /\ reduce_pSync' = reduce_pSync /\ pc[p] = "barrier" /\ pc'[p] = "inside"
        /\ phase'[p] = phase[p]
    BY <1>4 DEF Types, EnterBarrier, Goto, shared
  <2> QED
    BY <1>0, <2>1 DEF Before, Ending
<1>5. pc[p] \in Phasing => TRUE
  OBVIOUS
<1>6. ~(\/ Seed(p) \/ PutWork(p) \/ PutFlag(p) \/ SeeFlag(p) \/ AddWork(p) \/ RingPut(p)
        \/ RingPutFlag(p) \/ RingSeeFlag(p) \/ RingAdd(p) \/ ResetFlags(p))
  BY DEF Seed, PutWork, PutFlag, RaiseFlag, SeeFlag, AddWork, RingPut, RingPutFlag,
         RingSeeFlag, RingAdd, ResetFlags, Goto, Phasing
<1> QED
  BY <1>1, <1>2, <1>3, <1>4, <1>6 DEF Step

(* A PE that moves on begins a part, and writes nothing. *)
LEMMA MoveIs ==
  ASSUME Placed, Lockstep, LaneFlags, NEW p \in PEs, LeaveBarrier(p) \/ CountCall(p)
  PROVE  /\ pWrk' = pWrk /\ reduce_pSync' = reduce_pSync /\ dst' = dst
         /\ prog' = prog /\ \A x \in PEs \ {p} : Same(x)
         /\ MovesOn(p) /\ pc'[p] \in {"out", "seed"} /\ pc[p] \in {"inside", "count"}
         /\ Calling(p) /\ (IsPhased(p) => pc[p] = "inside")
<1> USE DEF Placed
<1>1. /\ MovesOn(p) /\ prog' = prog /\ \A x \in PEs \ {p} : Same(x)
  BY LeaveMoves, CountMoves, OthersStay DEF Step
<1>2. CASE LeaveBarrier(p)
  <2>1. /\ pWrk' = pWrk /\ reduce_pSync' = reduce_pSync /\ dst' = dst
    BY <1>2 DEF LeaveBarrier, shared
  <2>2. pc[p] = "inside" /\ pc'[p] \in {"out", "seed"} /\ Calling(p)
    BY <1>2, Leaves
  <2> QED
    BY <1>1, <2>1, <2>2
<1>3. CASE CountCall(p)
  <2>1. /\ pWrk' = pWrk /\ reduce_pSync' = reduce_pSync /\ dst' = dst /\ pc[p] = "count"
        /\ pc'[p] = "out"
    BY <1>3 DEF Types, CountCall, Goto, shared
  <2>2. ~IsPhased(p) /\ Calling(p)
    BY <2>1, LaneNow DEF Lanes, InLanes, IsPhased
  <2> QED
    BY <1>1, <2>1, <2>2
<1> QED
  BY <1>2, <1>3

(* Who is live stays so, or is no longer, until somebody moves on. *)
LEMMA LiveInner ==
  ASSUME Placed, Lockstep, NEW p \in PEs, prog' = prog, \A x \in PEs \ {p} : Same(x), Inner(p)
  PROVE  /\ \A a, b \in PEs : /\ Level(a, b)' <=> Level(a, b)
                              /\ Ahead(a, b)' <=> Ahead(a, b)
         /\ \A a \in PEs : /\ (Direct(a)' <=> Direct(a)) /\ (Ring(a)' <=> Ring(a))
                           /\ Call(a)' = Call(a) /\ Ph(a)' = Ph(a) /\ Its(a)' = Its(a)
                           /\ Calling(a)' = Calling(a)
         /\ \A a, b \in PEs : /\ b # p => (Live(a, b)' <=> Live(a, b))
                              /\ (Before(p)' <=> Before(p)) => (Live(a, b)' <=> Live(a, b))
                              /\ (Before(p)' => Before(p)) => (Live(a, b)' => Live(a, b))
<1>1. \A a, b \in PEs : (Level(a, b)' <=> Level(a, b)) /\ (Ahead(a, b)' <=> Ahead(a, b))
  BY InnerRelations
<1>2. \A a \in PEs : /\ (Direct(a)' <=> Direct(a)) /\ (Ring(a)' <=> Ring(a))
                     /\ Call(a)' = Call(a) /\ Ph(a)' = Ph(a) /\ Its(a)' = Its(a)
                     /\ Calling(a)' = Calling(a)
  BY InnerPart, StayPart
<1>3. \A b \in PEs \ {p} : Before(b)' <=> Before(b)
  BY StayPart
<1>4. \A a, b \in PEs : /\ b # p => (Live(a, b)' <=> Live(a, b))
                        /\ (Before(p)' <=> Before(p)) => (Live(a, b)' <=> Live(a, b))
                        /\ (Before(p)' => Before(p)) => (Live(a, b)' => Live(a, b))
  <2> TAKE a, b \in PEs
  <2>1. /\ Live(a, b) <=> (Level(a, b) /\ Before(b)) \/ Ahead(a, b)
        /\ Live(a, b)' <=> (Level(a, b)' /\ Before(b)') \/ Ahead(a, b)'
    BY DEF Live
  <2>2. Live(a, b)' <=> (Level(a, b) /\ Before(b)') \/ Ahead(a, b)
    BY <1>1, <2>1
  <2>3. b # p => (Before(b)' <=> Before(b))
    BY <1>3
  <2>4. CASE b # p
    BY <2>1, <2>2, <2>3, <2>4
  <2>5. CASE b = p
    BY <2>1, <2>2, <2>5
  <2> QED
    BY <2>4, <2>5
<1> QED
  BY <1>1, <1>2, <1>4

(* What a step does to how far p is in a direct reduction. *)
LEMMA DirectPlaces ==
  ASSUME Placed, NEW p \in PEs, Step(p), pc[p] \in Phasing, Direct(p)
  PROVE  \A y \in PEs \ {p} :
           /\ Flagged(p, y)' <=> Flagged(p, y) \/ (PutFlag(p) /\ y = step[p])
           /\ Worked(p, y)' <=> Worked(p, y) \/ (PutWork(p) /\ y = step[p])
           /\ Noticed(p, y)' <=> Noticed(p, y) \/ (SeeFlag(p) /\ y = step[p])
           /\ Taken(p, y)' <=> Taken(p, y) \/ (AddWork(p) /\ y = step[p])
<1> USE DEF Placed
<1>0. Types /\ Where(p) /\ Segments(p) = 0 /\ InPhase(p)
  BY InPhaseIs
<1>1. pc[p] \in DirectPc => step[p] \in PEs \ {p}
  BY <1>0 DEF InPhase
<1>2. /\ \A y \in PEs \ {p} : ~(y < FirstPeer(p))
      /\ step[p] \in PEs \ {p} =>
           \A y \in PEs \ {p} : y < NextPeer(p) <=> y < step[p] \/ y = step[p]
  BY Peers
<1>3. NextPeer(p) >= N => \A y \in PEs : y < NextPeer(p)
  <2>1. step[p] \in Nat
    BY <1>0 DEF Types
  <2> QED
    BY <2>1, Numbers DEF NextPeer
<1>4. CASE Seed(p)
  <2>1. pc[p] = "seed" /\ pc'[p] = "put" /\ step'[p] = FirstPeer(p)
    BY <1>0, <1>4 DEF Types, Seed, Goto, Steps
  <2>2. ~PutFlag(p) /\ ~PutWork(p) /\ ~SeeFlag(p) /\ ~AddWork(p)
    BY <2>1 DEF PutFlag, RaiseFlag, PutWork, SeeFlag, AddWork, Goto
  <2>3. \A y \in PEs : ~Flagged(p, y) /\ ~Worked(p, y) /\ ~Noticed(p, y) /\ ~Taken(p, y)
    BY <2>1 DEF Flagged, Worked, Noticed, Taken, Ending
  <2>4. \A y \in PEs \ {p} :
          ~Flagged(p, y)' /\ ~Worked(p, y)' /\ ~Noticed(p, y)' /\ ~Taken(p, y)'
    BY <1>2, <2>1 DEF Flagged, Worked, Noticed, Taken, Ending
  <2> QED
    BY <2>2, <2>3, <2>4
<1>5. CASE PutWork(p)
  <2>1. pc[p] = "put" /\ pc'[p] = "flag" /\ step'[p] = step[p]
    BY <1>5 DEF Types, PutWork, Goto
  <2>2. ~PutFlag(p) /\ ~SeeFlag(p) /\ ~AddWork(p)
    BY <2>1 DEF PutFlag, RaiseFlag, SeeFlag, AddWork, Goto
  <2> QED
    BY <1>5, <2>1, <2>2 DEF Flagged, Worked, Noticed, Taken, Ending
<1>6. CASE PutFlag(p)
  <2>1. /\ pc[p] = "flag" /\ pc'[p] = (IF IsLast(p) THEN "wait" ELSE "put")
        /\ step'[p] = (IF IsLast(p) THEN FirstPeer(p) ELSE NextPeer(p)) /\ step[p] \in PEs \ {p}
    BY <1>1, <1>6 DEF Types, PutFlag, RaiseFlag, Goto, Steps, DirectPc
  <2>2. ~PutWork(p) /\ ~SeeFlag(p) /\ ~AddWork(p)
    BY <2>1 DEF PutWork, SeeFlag, AddWork, Goto
  <2>3. CASE IsLast(p)
    <3>1. \A y \in PEs \ {p} : y < step[p] \/ y = step[p]
      BY <1>2, <1>3, <2>1, <2>3 DEF IsLast
    <3> QED
      BY <1>2, <1>6, <2>1, <2>2, <2>3, <3>1 DEF Flagged, Worked, Noticed, Taken, Ending
  <2>4. CASE ~IsLast(p)
    BY <1>2, <1>6, <2>1, <2>2, <2>4 DEF Flagged, Worked, Noticed, Taken, Ending
  <2> QED
    BY <2>3, <2>4
<1>7. CASE SeeFlag(p)
  <2>1. pc[p] = "wait" /\ pc'[p] = "add" /\ step'[p] = step[p]
    BY <1>7 DEF Types, SeeFlag, Goto
  <2>2. ~PutFlag(p) /\ ~PutWork(p) /\ ~AddWork(p)
    BY <2>1 DEF PutFlag, RaiseFlag, PutWork, AddWork, Goto
  <2> QED
    BY <1>7, <2>1, <2>2 DEF Flagged, Worked, Noticed, Taken, Ending
<1>8. CASE AddWork(p)
  <2>1. /\ pc[p] = "add" /\ pc'[p] = (IF IsLast(p) THEN "reset" ELSE "wait")
        /\ step'[p] = NextPeer(p) /\ step[p] \in PEs \ {p}
    BY <1>1, <1>8 DEF Types, AddWork, Goto, Steps, DirectPc
  <2>2. ~PutFlag(p) /\ ~PutWork(p) /\ ~SeeFlag(p)
    BY <2>1 DEF PutFlag, RaiseFlag, PutWork, SeeFlag, Goto
  <2>3. CASE IsLast(p)
    <3>1. \A y \in PEs \ {p} : y < step[p] \/ y = step[p]
      BY <1>2, <1>3, <2>1, <2>3 DEF IsLast
    <3> QED
      BY <1>2, <1>8, <2>1, <2>2, <2>3, <3>1 DEF Flagged, Worked, Noticed, Taken, Ending
  <2>4. CASE ~IsLast(p)
    BY <1>2, <1>8, <2>1, <2>2, <2>4 DEF Flagged, Worked, Noticed, Taken, Ending
  <2> QED
    BY <2>3, <2>4
<1>9. CASE ResetFlags(p)
  <2>1. pc[p] = "reset" /\ pc'[p] = "barrier"
    BY <1>0, <1>9, ResetWhere
  <2>2. ~PutFlag(p) /\ ~PutWork(p) /\ ~SeeFlag(p) /\ ~AddWork(p)
    BY <2>1 DEF PutFlag, RaiseFlag, PutWork, SeeFlag, AddWork, Goto
  <2> QED
    BY <2>1, <2>2 DEF Flagged, Worked, Noticed, Taken, Ending
<1>10. pc[p] \notin RingPc
  BY <1>0 DEF InPhase
<1>11. \/ Seed(p) \/ PutWork(p) \/ PutFlag(p) \/ SeeFlag(p) \/ AddWork(p) \/ RingPut(p)
       \/ RingPutFlag(p) \/ RingSeeFlag(p) \/ RingAdd(p) \/ ResetFlags(p)
  BY DEF Step, Enter, ThreadPut, ThreadAdd, ThreadSee, ThreadReset, Served, CountCall, LinearPut,
         NothingToPut, EnterBarrier, LeaveBarrier, Goto, Phasing
<1>12. ~RingPut(p) /\ ~RingPutFlag(p) /\ ~RingSeeFlag(p) /\ ~RingAdd(p)
  BY <1>10 DEF RingPut, RingPutFlag, RingSeeFlag, RingAdd, Goto, RingPc
<1> QED
  BY <1>4, <1>5, <1>6, <1>7, <1>8, <1>9, <1>11, <1>12

LEMMA QuietPlaces ==
  ASSUME Placed, NEW p \in PEs, Step(p), pc[p] \notin Phasing, ~LeaveBarrier(p), ~CountCall(p),
         Direct(p) \/ Ring(p)
  PROVE  /\ \A y \in PEs : /\ (Flagged(p, y)' <=> Flagged(p, y)) /\ (Worked(p, y)' <=> Worked(p, y))
                           /\ (Noticed(p, y)' <=> Noticed(p, y)) /\ (Taken(p, y)' <=> Taken(p, y))
         /\ Ended(p)' = Ended(p) /\ Awaited(p)' = Awaited(p) /\ Flags(p)' = Flags(p)
         /\ Puts(p)' = Puts(p) /\ (Before(p)' <=> Before(p))
<1>1. \/ pc[p] = "out" /\ pc'[p] = "seed"
      \/ pc[p] = "barrier" /\ pc'[p] = "inside"
  BY QuietSteps
<1>2. Its(p)' = Its(p)
  BY QuietSteps, InnerPart
<1> QED
  BY <1>1, <1>2 DEF Flagged, Worked, Noticed, Taken, Ending, Ended, Awaited, Flags, Puts, Before, RingPc

----------------------------------------------------------------------------

LEMMA DirectOrderKept ==
  ASSUME Placed, Lockstep, DirectOrder, NEW p \in PEs, prog' = prog,
         \A x \in PEs \ {p} : Same(x), Inner(p),
         Direct(p) => \A y \in PEs \ {p} :
           /\ Flagged(p, y) => Flagged(p, y)'
           /\ Noticed(p, y)' => Noticed(p, y) \/ (Level(p, y) /\ Flagged(y, p))
  PROVE  DirectOrder'
<1> SUFFICES ASSUME NEW a \in PEs, NEW b \in PEs, a # b, Direct(a)'
             PROVE  /\ Level(a, b)' /\ Noticed(a, b)' => Flagged(b, a)'
                    /\ Ahead(a, b)' => ~Noticed(a, b)'
  BY DEF DirectOrder
<1>1. Direct(a) /\ (Level(a, b)' <=> Level(a, b)) /\ (Ahead(a, b)' <=> Ahead(a, b))
  BY LiveInner
<1>2. Noticed(a, b)' => Noticed(a, b) \/ (Level(a, b) /\ Flagged(b, a))
  BY <1>1, StayPart
<1>3. Level(a, b) /\ Flagged(b, a) => Flagged(b, a)'
  <2>1. Level(a, b) => Direct(b)
    BY <1>1, LevelPart
  <2> QED
    BY <2>1, StayPart
<1>4. Ahead(a, b) => ~Level(a, b)
  BY Exclusive DEF Placed
<1> QED
  BY <1>1, <1>2, <1>3, <1>4 DEF DirectOrder

LEMMA DirectArraysKept ==
  ASSUME Placed, Lockstep, DirectArrays, NEW p \in PEs, prog' = prog,
         \A x \in PEs \ {p} : Same(x), Inner(p), Before(p)' => Before(p),
         \A a, b \in PEs : a # b /\ Direct(a) /\ Live(a, b) /\ Live(a, b)' =>
           /\ Flagged(a, b)' => \/ Flagged(a, b) /\ reduce_pSync'[b][a] = reduce_pSync[b][a]
                                \/ reduce_pSync'[b][a] = 1
           /\ Worked(a, b)' => \/ Worked(a, b) /\ pWrk'[b][a] = pWrk[b][a]
                               \/ pWrk'[b][a] = {Piece(a, b, Call(a), Ph(a))}
  PROVE  DirectArrays'
<1> SUFFICES ASSUME NEW a \in PEs, NEW b \in PEs, a # b, Direct(a)', Live(a, b)'
             PROVE  /\ Flagged(a, b)' => reduce_pSync'[b][a] = 1
                    /\ Worked(a, b)' => pWrk'[b][a] = {Piece(a, b, Call(a), Ph(a))}'
  BY DEF DirectArrays
<1>1. Direct(a) /\ Live(a, b) /\ Call(a)' = Call(a) /\ Ph(a)' = Ph(a)
  BY LiveInner
<1>2. Piece(a, b, Call(a), Ph(a))' = Piece(a, b, Call(a), Ph(a))
  BY <1>1 DEF Piece
<1>3. /\ Flagged(a, b) => reduce_pSync[b][a] = 1
      /\ Worked(a, b) => pWrk[b][a] = {Piece(a, b, Call(a), Ph(a))}
  BY <1>1 DEF DirectArrays
<1>4. /\ Flagged(a, b)' => \/ Flagged(a, b) /\ reduce_pSync'[b][a] = reduce_pSync[b][a]
                           \/ reduce_pSync'[b][a] = 1
      /\ Worked(a, b)' => \/ Worked(a, b) /\ pWrk'[b][a] = pWrk[b][a]
                          \/ pWrk'[b][a] = {Piece(a, b, Call(a), Ph(a))}
  BY <1>1
<1> QED
  BY <1>2, <1>3, <1>4

LEMMA FlagsDownKept ==
  ASSUME FlagsDown,
         \A a, b \in PEs, k \in 0 .. 2 * N - 1 : Live(a, b) /\ Raised(a, b, k) =>
           (Live(a, b)' /\ Raised(a, b, k)') \/ reduce_pSync'[b][k] = 0,
         \A b \in PEs, k \in 0 .. 2 * N - 1 :
           \/ reduce_pSync'[b][k] = reduce_pSync[b][k] \/ reduce_pSync'[b][k] = 0
           \/ \E a \in PEs : Live(a, b)' /\ Raised(a, b, k)'
  PROVE  FlagsDown'
<1> SUFFICES ASSUME NEW b \in PEs, NEW k \in 0 .. 2 * N - 1,
                    \A a \in PEs : Live(a, b)' => ~Raised(a, b, k)'
             PROVE  reduce_pSync'[b][k] = 0
  BY DEF FlagsDown
<1> SUFFICES ASSUME reduce_pSync'[b][k] # 0 PROVE FALSE
  OBVIOUS
<1>1. \A a \in PEs : Live(a, b) => ~Raised(a, b, k)
  OBVIOUS
<1>2. reduce_pSync[b][k] = 0
  BY <1>1 DEF FlagsDown
<1> QED
  BY <1>2

LEMMA PhasingActions ==
  ASSUME NEW p \in PEs, Step(p), pc[p] \in Phasing
  PROVE  \/ Seed(p) \/ PutWork(p) \/ PutFlag(p) \/ SeeFlag(p) \/ AddWork(p) \/ RingPut(p)
         \/ RingPutFlag(p) \/ RingSeeFlag(p) \/ RingAdd(p) \/ ResetFlags(p)
  BY DEF Step, Enter, ThreadPut, ThreadAdd, ThreadSee, ThreadReset, Served, CountCall, LinearPut,
         NothingToPut, EnterBarrier, LeaveBarrier, Goto, Phasing

LEMMA PhasingInner ==
  ASSUME Placed, NEW p \in PEs, Step(p), pc[p] \in Phasing
  PROVE  /\ Inner(p) /\ prog' = prog /\ \A x \in PEs \ {p} : Same(x)
         /\ Types /\ Where(p)
<1>1. ~LeaveBarrier(p) /\ ~CountCall(p)
  BY DEF LeaveBarrier, CountCall, Goto, Phasing
<1> QED
  BY <1>1, InnerSteps, OthersStay DEF Placed

(* Which cells of the flags a step writes, and what. *)
LEMMA FlagWrites ==
  ASSUME Placed, NEW p \in PEs, Step(p), pc[p] \in Phasing,
         NEW b \in PEs, NEW k \in 0 .. 2 * N - 1
  PROVE  \/ reduce_pSync'[b][k] = reduce_pSync[b][k]
         \/ PutFlag(p) /\ b = step[p] /\ k = p /\ reduce_pSync'[b][k] = 1
         \/ /\ RingPutFlag(p) /\ b = Send(p) /\ k = Iter(p)
            /\ reduce_pSync'[b][k] = RingFlag(p)
         \/ ResetFlags(p) /\ b = p /\ reduce_pSync'[b][k] = 0
<1>0. Types /\ Where(p) /\ b \in DOMAIN reduce_pSync /\ k \in DOMAIN reduce_pSync[b]
  BY DEF Placed, Types
<1>1. CASE Seed(p) \/ PutWork(p) \/ SeeFlag(p) \/ AddWork(p) \/ RingPut(p) \/ RingSeeFlag(p) \/ RingAdd(p)
  BY <1>1 DEF Seed, PutWork, SeeFlag, AddWork, RingPut, RingSeeFlag, RingAdd, shared
<1>2. CASE PutFlag(p)
  <2>1. reduce_pSync' = Put(reduce_pSync, step[p], p, 1)
    BY <1>2 DEF PutFlag, RaiseFlag
  <2>2. reduce_pSync'[b][k] = IF b = step[p] /\ k = p THEN 1 ELSE reduce_pSync[b][k]
    BY <1>0, <2>1, PutCell
  <2> QED
    BY <1>2, <2>2
<1>3. CASE RingPutFlag(p)
  <2>1. reduce_pSync' = Put(reduce_pSync, Send(p), Iter(p), RingFlag(p))
    BY <1>3 DEF RingPutFlag
  <2>2. reduce_pSync'[b][k] = IF b = Send(p) /\ k = Iter(p) THEN RingFlag(p) ELSE reduce_pSync[b][k]
    BY <1>0, <2>1, PutCell
  <2> QED
    BY <1>3, <2>2
<1>4. CASE ResetFlags(p)
  <2>1. reduce_pSync' =
          [reduce_pSync EXCEPT ![p] =
             [j \in DOMAIN reduce_pSync[p] |->
                IF j < (IF Segments(p) = 0 THEN N ELSE Iterations) THEN 0 ELSE reduce_pSync[p][j]]]
    BY <1>4 DEF ResetFlags
  <2>2. CASE b = p
    BY <1>0, <1>4, <2>1, <2>2
  <2>3. CASE b # p
    BY <1>0, <2>1, <2>3
  <2> QED
    BY <2>2, <2>3
<1> QED
  BY <1>1, <1>2, <1>3, <1>4, PhasingActions

LEMMA WorkWrites ==
  ASSUME Placed, NEW p \in PEs, Step(p), pc[p] \in Phasing, NEW b \in PEs, NEW k \in PEs
  PROVE  \/ pWrk'[b][k] = pWrk[b][k]
         \/ PutWork(p) /\ b = step[p] /\ k = p /\ pWrk'[b][k] = Contribution(p, b)
         \/ /\ RingPut(p) /\ FirstLoop(p) /\ b = Send(p) /\ k = SendChunk(p)
            /\ pWrk'[b][k] = dst[p][Call(p)][Chunk(p, SendChunk(p))]
<1>0. Types /\ Where(p) /\ b \in DOMAIN pWrk /\ k \in DOMAIN pWrk[b]
  BY DEF Placed, Types
<1>1. CASE \/ Seed(p) \/ PutFlag(p) \/ SeeFlag(p) \/ AddWork(p) \/ RingPutFlag(p) \/ RingSeeFlag(p)
           \/ RingAdd(p) \/ ResetFlags(p)
  BY <1>1 DEF Seed, PutFlag, RaiseFlag, SeeFlag, AddWork, RingPutFlag, RingSeeFlag, RingAdd,
              ResetFlags, shared
<1>2. CASE PutWork(p)
  <2>1. pWrk' = Put(pWrk, step[p], p, Contribution(p, step[p]))
    BY <1>2 DEF PutWork
  <2>2. pWrk'[b][k] = IF b = step[p] /\ k = p THEN Contribution(p, step[p]) ELSE pWrk[b][k]
    BY <1>0, <2>1, PutCell
  <2> QED
    BY <1>2, <2>2
<1>3. CASE RingPut(p)
  <2> DEFINE v == dst[p][Call(p)][Chunk(p, SendChunk(p))]
  <2>1. IF FirstLoop(p) THEN pWrk' = Put(pWrk, Send(p), SendChunk(p), v) ELSE pWrk' = pWrk
    BY <1>3 DEF RingPut
  <2> HIDE DEF v
  <2>2. FirstLoop(p) =>
          pWrk'[b][k] = IF b = Send(p) /\ k = SendChunk(p) THEN v ELSE pWrk[b][k]
    BY <1>0, <2>1, PutCell
  <2>3. ~FirstLoop(p) => pWrk'[b][k] = pWrk[b][k]
    BY <2>1
  <2> QED
    BY <1>3, <2>2, <2>3 DEF v
<1> QED
  BY <1>1, <1>2, <1>3, PhasingActions

(* A flag that p sees is that of the peer it waits for, for this part. *)
LEMMA SeenIsRaised ==
  ASSUME Placed, Lockstep, FlagsDown, NEW p \in PEs, SeeFlag(p)
  PROVE  step[p] \in PEs \ {p} /\ Level(p, step[p]) /\ Flagged(step[p], p)
<1>1. pc[p] = "wait" /\ reduce_pSync[p][step[p]] = 1
  BY DEF SeeFlag, Goto
<1>2. pc[p] \in Phasing /\ pc[p] \in DirectPc
  BY <1>1 DEF Phasing, DirectPc
<1>3. step[p] \in PEs \ {p} /\ Direct(p) /\ ~Ring(p)
  BY <1>2, InPhaseIs DEF InPhase, Placed
<1>4. step[p] \in 0 .. 2 * N - 1
  BY <1>3, Numbers
<1>5. PICK r \in PEs : Live(r, p) /\ Raised(r, p, step[p])
  BY <1>1, <1>4 DEF FlagsDown
<1>6. Live(p, p) /\ ~Ahead(r, p)
  BY <1>2, PhasingIs, Exclusive DEF Live, Placed
<1>7. Level(r, p)
  BY <1>5, <1>6 DEF Live
<1>8. Direct(r) /\ ~Ring(r)
  BY <1>3, <1>7, LevelPart
<1>9. r = step[p] /\ Flagged(r, p)
  BY <1>5, <1>8 DEF Raised
<1> QED
  BY <1>3, <1>7, <1>9 DEF Level

(* How p stands to each other PE once it has moved on. *)
LEMMA Moved ==
  ASSUME Types', NEW p \in PEs, MovesOn(p), NEW q \in PEs \ {p}
  PROVE  \/ /\ Level(p, q) /\ Ahead(p, q)'
            /\ ~Level(p, q)' /\ ~Level(q, p)' /\ ~Ahead(q, p)'
         \/ /\ Ahead(q, p) /\ Level(p, q)' /\ Level(q, p)' /\ ~Ahead(p, q)' /\ ~Ahead(q, p)'
<1>1. returned'[p] \in Nat /\ returned'[q] \in Nat /\ Ph(p)' \in Nat /\ Ph(q)' \in Nat
  BY DEF Types, Ph
<1>2. Level(p, q)' <=> Level(q, p)'
  BY DEF Level
<1>3. /\ Follows(p, q)' => ~Level(p, q)' /\ ~Follows(q, p)'
      /\ Follows(q, p)' => ~Level(p, q)'
  BY <1>1 DEF Level, Follows
<1>4. (Ahead(p, q)' => Follows(p, q)') /\ (Ahead(q, p)' => Follows(q, p)')
  BY DEF Ahead
<1> QED
  BY <1>2, <1>3, <1>4 DEF MovesOn

LEMMA DirectOrderStep ==
  ASSUME Placed, Lockstep, LaneFlags, DirectOrder, FlagsDown, NEW p \in PEs, Step(p)
  PROVE  DirectOrder'
<1>1. CASE pc[p] \in Phasing
  <2>1. Inner(p) /\ prog' = prog /\ \A x \in PEs \ {p} : Same(x)
    BY <1>1, PhasingInner
  <2>2. SeeFlag(p) => Level(p, step[p]) /\ Flagged(step[p], p)
    BY SeenIsRaised
  <2>3. Direct(p) => \A y \in PEs \ {p} :
          /\ Flagged(p, y) => Flagged(p, y)'
          /\ Noticed(p, y)' => Noticed(p, y) \/ (Level(p, y) /\ Flagged(y, p))
    BY <1>1, <2>2, DirectPlaces
  <2> QED
    BY <2>1, <2>3, DirectOrderKept
<1>2. CASE pc[p] \notin Phasing /\ ~LeaveBarrier(p) /\ ~CountCall(p)
  <2>1. Inner(p) /\ prog' = prog /\ \A x \in PEs \ {p} : Same(x)
    BY <1>2, QuietSteps
  <2>2. Direct(p) => \A y \in PEs \ {p} :
          /\ Flagged(p, y) => Flagged(p, y)'
          /\ Noticed(p, y)' => Noticed(p, y) \/ (Level(p, y) /\ Flagged(y, p))
    BY <1>2, QuietPlaces
  <2> QED
    BY <2>1, <2>2, DirectOrderKept
<1>3. CASE LeaveBarrier(p) \/ CountCall(p)
  <2>1. /\ prog' = prog /\ \A x \in PEs \ {p} : Same(x)
        /\ MovesOn(p) /\ pc'[p] \in {"out", "seed"}
    BY <1>3, MoveIs
  <2>2. \A x, y \in PEs \ {p} : (Level(x, y)' <=> Level(x, y)) /\ (Ahead(x, y)' <=> Ahead(x, y))
    BY <2>1, OthersRelations
  <2>3. Types'
    BY TypesStep DEF Placed
  <2> SUFFICES ASSUME NEW a \in PEs, NEW b \in PEs, a # b, Direct(a)'
               PROVE  /\ Level(a, b)' /\ Noticed(a, b)' => Flagged(b, a)'
                      /\ Ahead(a, b)' => ~Noticed(a, b)'
    BY DEF DirectOrder
  <2>4. CASE a = p
    BY <2>1, <2>4 DEF Noticed, Taken, Ending
  <2>5. CASE a # p /\ b # p
    <3>1. Direct(a) /\ (Noticed(a, b)' <=> Noticed(a, b)) /\ (Flagged(b, a)' <=> Flagged(b, a))
      BY <2>1, <2>5, StayPart
    <3> QED
      BY <2>2, <2>5, <3>1 DEF DirectOrder
  <2>6. CASE a # p /\ b = p
    <3>1. Direct(a) /\ (Noticed(a, p)' <=> Noticed(a, p))
      BY <2>1, <2>6, StayPart
    <3>2. CASE Level(p, a) /\ Ahead(p, a)'
      <4>1. ~Level(a, p)' /\ ~Ahead(a, p)'
        BY <2>1, <2>3, <2>6, <3>2, Moved
      <4> QED
        BY <2>6, <4>1
    <3>3. CASE Ahead(a, p) /\ Level(p, a)'
      <4>1. ~Noticed(a, p)
        BY <2>6, <3>1, <3>3 DEF DirectOrder
      <4>2. ~Ahead(a, p)'
        BY <2>1, <2>3, <2>6, <3>3, Moved
      <4> QED
        BY <2>6, <3>1, <4>1, <4>2
    <3> QED
      BY <2>1, <2>6, <3>2, <3>3 DEF MovesOn
  <2> QED
    BY <2>4, <2>5, <2>6
<1> QED
  BY <1>1, <1>2, <1>3

(* What a step does to how far p is round the ring. *)
LEMMA RingPlaces ==
  ASSUME Placed, NEW p \in PEs, Step(p), pc[p] \in Phasing, Ring(p)
  PROVE  /\ Ended(p)' = Ended(p) + IF RingAdd(p) \/ (RingSeeFlag(p) /\ ~FirstLoop(p)) THEN 1 ELSE 0
         /\ Awaited(p)' = Awaited(p) + IF RingSeeFlag(p) THEN 1 ELSE 0
         /\ Flags(p)' = Flags(p) + IF RingPutFlag(p) THEN 1 ELSE 0
         /\ Puts(p)' = Puts(p) + IF RingPut(p) THEN 1 ELSE 0
<1> USE DEF Placed
<1>0. /\ Types /\ Where(p) /\ Segments(p) # 0 /\ InPhase(p) /\ Its(p) \in Nat
      /\ Its(p) = Segments(p) * Iterations
  BY InPhaseIs
<1>1. Its(p)' = Its(p)
  BY PhasingInner, InnerPart
<1>2. step[p] \in Nat /\ pc[p] \notin DirectPc
  BY <1>0 DEF Types, InPhase
<1>3. AfterIteration(p) = (IF step[p] + 1 = Its(p) THEN "reset" ELSE "rput")
  BY <1>0 DEF AfterIteration
<1>4. CASE Seed(p)
  <2>1. pc[p] = "seed" /\ pc'[p] = "rput" /\ step'[p] = 0
    BY <1>0, <1>4 DEF Types, Seed, Goto, Steps
  <2>2. ~RingPut(p) /\ ~RingPutFlag(p) /\ ~RingSeeFlag(p) /\ ~RingAdd(p)
    BY <2>1 DEF RingPut, RingPutFlag, RingSeeFlag, RingAdd, Goto
  <2> QED
    BY <2>1, <2>2 DEF Ended, Awaited, Flags, Puts, RingPc
<1>5. CASE RingPut(p)
  <2>1. pc[p] = "rput" /\ pc'[p] = "rflag" /\ step'[p] = step[p]
    BY <1>5 DEF Types, RingPut, Goto
  <2>2. ~RingPutFlag(p) /\ ~RingSeeFlag(p) /\ ~RingAdd(p)
    BY <2>1 DEF RingPutFlag, RingSeeFlag, RingAdd, Goto
  <2> QED
    BY <1>2, <1>5, <2>1, <2>2 DEF Ended, Awaited, Flags, Puts, RingPc
<1>6. CASE RingPutFlag(p)
  <2>1. pc[p] = "rflag" /\ pc'[p] = "rwait" /\ step'[p] = step[p]
    BY <1>6 DEF Types, RingPutFlag, Goto
  <2>2. ~RingPut(p) /\ ~RingSeeFlag(p) /\ ~RingAdd(p)
    BY <2>1 DEF RingPut, RingSeeFlag, RingAdd, Goto
  <2> QED
    BY <1>2, <1>6, <2>1, <2>2 DEF Ended, Awaited, Flags, Puts, RingPc
<1>7. CASE RingSeeFlag(p)
  <2>1. /\ pc[p] = "rwait" /\ pc'[p] = (IF FirstLoop(p) THEN "radd" ELSE AfterIteration(p))
        /\ step'[p] = IF FirstLoop(p) THEN step[p] ELSE step[p] + 1
    BY <1>7 DEF Types, RingSeeFlag, Goto, Steps
  <2>2. ~RingPut(p) /\ ~RingPutFlag(p) /\ ~RingAdd(p)
    BY <2>1 DEF RingPut, RingPutFlag, RingAdd, Goto
  <2>3. CASE FirstLoop(p)
    BY <1>2, <1>7, <2>1, <2>2, <2>3 DEF Ended, Awaited, Flags, Puts, RingPc
  <2>4. CASE ~FirstLoop(p)
    <3>1. pc'[p] \in {"reset", "rput"} /\ (pc'[p] = "reset" => step[p] + 1 = Its(p))
      BY <1>3, <2>1, <2>4
    <3>2. Ended(p)' = step[p] + 1
      BY <1>1, <2>1, <2>4, <3>1 DEF Ended, RingPc
    <3> QED
      BY <1>2, <1>7, <2>1, <2>2, <2>4, <3>1, <3>2 DEF Ended, Awaited, Flags, Puts, RingPc
  <2> QED
    BY <2>3, <2>4
<1>8. CASE RingAdd(p)
  <2>1. pc[p] = "radd" /\ pc'[p] = AfterIteration(p) /\ step'[p] = step[p] + 1
    BY <1>8 DEF Types, RingAdd, Goto, Steps
  <2>2. ~RingPut(p) /\ ~RingPutFlag(p) /\ ~RingSeeFlag(p)
    BY <2>1 DEF RingPut, RingPutFlag, RingSeeFlag, Goto
  <2>3. pc'[p] \in {"reset", "rput"} /\ (pc'[p] = "reset" => step[p] + 1 = Its(p))
    BY <1>3, <2>1
  <2>4. Ended(p)' = step[p] + 1
    BY <1>1, <2>1, <2>3 DEF Ended, RingPc
  <2> QED
    BY <1>2, <1>8, <2>1, <2>2, <2>3, <2>4 DEF Ended, Awaited, Flags, Puts, RingPc
<1>9. CASE ResetFlags(p)
  <2>1. pc[p] = "reset" /\ pc'[p] = "barrier"
    BY <1>0, <1>9, ResetWhere
  <2>2. ~RingPut(p) /\ ~RingPutFlag(p) /\ ~RingSeeFlag(p) /\ ~RingAdd(p)
    BY <2>1 DEF RingPut, RingPutFlag, RingSeeFlag, RingAdd, Goto
  <2> QED
    BY <1>0, <1>1, <2>1, <2>2 DEF Ended, Awaited, Flags, Puts, RingPc
<1>10. ~PutWork(p) /\ ~PutFlag(p) /\ ~SeeFlag(p) /\ ~AddWork(p)
  BY <1>2 DEF PutFlag, RaiseFlag, PutWork, SeeFlag, AddWork, Goto, DirectPc
<1> QED
  BY <1>4, <1>5, <1>6, <1>7, <1>8, <1>9, <1>10, PhasingActions

(* The last step of a phase is the reset; Before stays until then. *)
LEMMA BeforeStays ==
  ASSUME Placed, NEW p \in PEs, Step(p), pc[p] \in Phasing
  PROVE  /\ Before(p)
         /\ ResetFlags(p) => ~Before(p)' /\ pc[p] = "reset"
         /\ ~ResetFlags(p) => Before(p)'
<1>0. Types /\ Where(p) /\ Before(p)
  BY PhasingIs DEF Placed
<1>1. ResetFlags(p) => ~Before(p)' /\ pc[p] = "reset"
  BY <1>0, ResetWhere DEF Before, Ending
<1>2. CASE Seed(p) \/ PutWork(p) \/ PutFlag(p) \/ SeeFlag(p) \/ AddWork(p)
  <2>1. pc'[p] \in Phasing
    BY <1>0, <1>2 DEF Types, Seed, PutWork, PutFlag, RaiseFlag, SeeFlag, AddWork, Goto, Phasing
  <2> QED
    BY <1>0, <1>1, <2>1 DEF Before, Phasing, Ending
<1>3. CASE RingPut(p) \/ RingPutFlag(p) \/ RingSeeFlag(p) \/ RingAdd(p)
  <2>1. pc'[p] \in Phasing
    BY <1>0, <1>3 DEF Types, RingPut, RingPutFlag, RingSeeFlag, RingAdd, AfterIteration, Goto, Phasing
  <2> QED
    BY <1>0, <1>1, <2>1 DEF Before, Phasing, Ending
<1> QED
  BY <1>0, <1>1, <1>2, <1>3, PhasingActions

LEMMA DirectArraysStep ==
  ASSUME Placed, Lockstep, LaneFlags, DirectOrder, DirectArrays, RingOrder, NEW p \in PEs, Step(p)
  PROVE  DirectArrays'
<1>1. CASE pc[p] \in Phasing
  <2>1. Inner(p) /\ prog' = prog /\ (\A x \in PEs \ {p} : Same(x)) /\ (Before(p)' => Before(p))
    BY <1>1, PhasingInner, BeforeStays
  <2>2. ASSUME NEW a \in PEs, NEW b \in PEs, a # b, Direct(a), Live(a, b), Live(a, b)'
        PROVE  /\ Flagged(a, b)' => \/ Flagged(a, b) /\ reduce_pSync'[b][a] = reduce_pSync[b][a]
                                    \/ reduce_pSync'[b][a] = 1
               /\ Worked(a, b)' => \/ Worked(a, b) /\ pWrk'[b][a] = pWrk[b][a]
                                   \/ pWrk'[b][a] = {Piece(a, b, Call(a), Ph(a))}
    <3>0. a \in 0 .. 2 * N - 1 /\ ~Ring(a)
      BY <2>2, Numbers DEF Direct, Ring
    <3>1. ~(ResetFlags(p) /\ b = p)
      <4> SUFFICES ASSUME ResetFlags(p), b = p PROVE FALSE
        OBVIOUS
      <4>1. ~Before(p)' /\ ~Ahead(a, p) /\ pc[p] # "inside"
        BY <1>1, BeforeStays, PhasingIs DEF Ending
      <4>2. ~Ahead(a, p)'
        BY <2>1, <4>1, LiveInner
      <4> QED
        BY <2>2, <4>1, <4>2 DEF Live
    <3>2. ~((RingPut(p) \/ RingPutFlag(p)) /\ b = Send(p))
      <4> SUFFICES ASSUME RingPut(p) \/ RingPutFlag(p), b = Send(p) PROVE FALSE
        OBVIOUS
      <4>1. pc[p] \in {"rput", "rflag"}
        BY DEF RingPut, RingPutFlag, Goto
      <4>2. Live(p, b) /\ Ring(p)
        BY <4>1, RingLive
      <4>3. Level(a, p)
        BY <2>2, <4>2, LiveSame
      <4> QED
        BY <3>0, <4>2, <4>3, LevelPart
    <3>3. /\ reduce_pSync'[b][a] = reduce_pSync[b][a] \/ (PutFlag(p) /\ b = step[p] /\ a = p /\ reduce_pSync'[b][a] = 1)
          /\ pWrk'[b][a] = pWrk[b][a] \/ (PutWork(p) /\ b = step[p] /\ a = p /\ pWrk'[b][a] = Contribution(p, b))
      BY <1>1, <3>0, <3>1, <3>2, FlagWrites, WorkWrites
    <3>4. CASE a # p
      BY <2>1, <3>3, <3>4, StayPart
    <3>5. CASE a = p
      <4>1. /\ Flagged(p, b)' <=> Flagged(p, b) \/ (PutFlag(p) /\ b = step[p])
            /\ Worked(p, b)' <=> Worked(p, b) \/ (PutWork(p) /\ b = step[p])
        BY <1>1, <2>2, <3>5, DirectPlaces
      <4>2. PutFlag(p) /\ b = step[p] => reduce_pSync'[b][p] = 1
        <5> SUFFICES ASSUME PutFlag(p), b = step[p] PROVE reduce_pSync'[b][p] = 1
          OBVIOUS
        <5>1. reduce_pSync' = Put(reduce_pSync, b, p, 1)
          BY DEF PutFlag, RaiseFlag
        <5>2. b \in DOMAIN reduce_pSync /\ p \in DOMAIN reduce_pSync[b]
          BY <3>0, <3>5 DEF Placed, Types
        <5> QED
          BY <5>1, <5>2, PutCell
      <4>3. PutWork(p) /\ b = step[p] => pWrk'[b][p] = {Piece(p, b, Call(p), Ph(p))}
        <5> SUFFICES ASSUME PutWork(p), b = step[p] PROVE pWrk'[b][p] = {Piece(p, b, Call(p), Ph(p))}
          OBVIOUS
        <5>1. pWrk' = Put(pWrk, b, p, Contribution(p, b))
          BY DEF PutWork
        <5>2. b \in DOMAIN pWrk /\ p \in DOMAIN pWrk[b]
          BY DEF Placed, Types
        <5>3. pWrk'[b][p] = Contribution(p, b)
          BY <5>1, <5>2, PutCell
        <5>4. pc[p] = "put"
          BY DEF PutWork, Goto
        <5>5. Ph(p) = phase[p] /\ Op(p) \in {"REDUCE", "SCATTER"}
          BY <5>4, DirectLive DEF IsPhased
        <5>6. Contribution(p, b) = {Piece(p, b, Call(p), Ph(p))}
          BY <5>5 DEF Contribution, Piece, Reductions, Op
        <5> QED
          BY <5>3, <5>6
      <4> QED
        BY <3>3, <3>5, <4>1, <4>2, <4>3
    <3> QED
      BY <3>4, <3>5
  <2> QED
    BY <2>1, <2>2, DirectArraysKept
<1>2. CASE pc[p] \notin Phasing /\ ~LeaveBarrier(p) /\ ~CountCall(p)
  <2>1. Inner(p) /\ prog' = prog /\ (\A x \in PEs \ {p} : Same(x)) /\ (Before(p)' => Before(p))
        /\ pWrk' = pWrk /\ reduce_pSync' = reduce_pSync
    BY <1>2, QuietSteps
  <2>2. \A a, b \in PEs : Direct(a) =>
          (Flagged(a, b)' <=> Flagged(a, b)) /\ (Worked(a, b)' <=> Worked(a, b))
    BY <1>2, <2>1, QuietPlaces, StayPart
  <2> QED
    BY <2>1, <2>2, DirectArraysKept
<1>3. CASE LeaveBarrier(p) \/ CountCall(p)
  <2>1. /\ prog' = prog /\ \A x \in PEs \ {p} : Same(x)
        /\ MovesOn(p) /\ pc'[p] \in {"out", "seed"} /\ pWrk' = pWrk /\ reduce_pSync' = reduce_pSync
    BY <1>3, MoveIs
  <2>2. \A x, y \in PEs \ {p} : (Level(x, y)' <=> Level(x, y)) /\ (Ahead(x, y)' <=> Ahead(x, y))
    BY <2>1, OthersRelations DEF Placed
  <2>3. Types'
    BY TypesStep DEF Placed
  <2> SUFFICES ASSUME NEW a \in PEs, NEW b \in PEs, a # b, Direct(a)', Live(a, b)'
               PROVE  /\ Flagged(a, b)' => reduce_pSync'[b][a] = 1
                      /\ Worked(a, b)' => pWrk'[b][a] = {Piece(a, b, Call(a), Ph(a))}'
    BY DEF DirectArrays
  <2>4. CASE a = p
    BY <2>1, <2>4 DEF Flagged, Worked, Ending
  <2>5. CASE a # p
    <3>1. /\ Direct(a) /\ (Flagged(a, b)' <=> Flagged(a, b)) /\ (Worked(a, b)' <=> Worked(a, b))
          /\ Call(a)' = Call(a) /\ Ph(a)' = Ph(a)
      BY <2>1, <2>5, StayPart
    <3>2. Live(a, b)
      <4>1. CASE b = p
        BY <2>1, <2>3, <2>5, <4>1, Moved DEF Live
      <4>2. CASE b # p
        <5>1. Before(b)' <=> Before(b)
          BY <2>1, <4>2, StayPart
        <5> QED
          BY <2>2, <2>5, <4>2, <5>1 DEF Live
      <4> QED
        BY <4>1, <4>2
    <3>3. Piece(a, b, Call(a), Ph(a))' = Piece(a, b, Call(a), Ph(a))
      BY <2>1, <3>1 DEF Piece
    <3> QED
      BY <2>1, <3>1, <3>2, <3>3 DEF DirectArrays
  <2> QED
    BY <2>4, <2>5
<1> QED
  BY <1>1, <1>2, <1>3

(* What p has raised is up still after a step within a part. *)
LEMMA RaisedStays ==
  ASSUME Placed, NEW p \in PEs, Step(p), ~LeaveBarrier(p), ~CountCall(p),
         NEW a \in PEs, NEW b \in PEs, NEW k \in 0 .. 2 * N - 1, Raised(a, b, k)
  PROVE  Raised(a, b, k)'
<1>0. Inner(p) /\ prog' = prog /\ \A x \in PEs \ {p} : Same(x)
  BY InnerSteps, OthersStay DEF Placed
<1>1. Send(a)' = Send(a) /\ Iterations' = Iterations
  BY DEF Send, Iterations
<1>2. CASE a # p
  <2>1. /\ (Direct(a)' <=> Direct(a)) /\ (Ring(a)' <=> Ring(a)) /\ Flags(a)' = Flags(a)
        /\ (Flagged(a, b)' <=> Flagged(a, b))
    BY <1>0, <1>2, StayPart
  <2> QED
    BY <1>1, <2>1 DEF Raised
<1>3. CASE a = p
  <2>1. (Direct(p)' <=> Direct(p)) /\ (Ring(p)' <=> Ring(p))
    BY <1>0, InnerPart
  <2>2. CASE Direct(p) /\ k = p /\ b # p /\ Flagged(p, b)
    <3>1. Flagged(p, b)'
      <4>1. CASE pc[p] \in Phasing
        BY <2>2, <4>1, DirectPlaces
      <4>2. CASE pc[p] \notin Phasing
        BY <2>2, <4>2, QuietPlaces
      <4> QED
        BY <4>1, <4>2
    <3> QED
      BY <1>3, <2>1, <2>2, <3>1 DEF Raised
  <2>3. CASE Ring(p) /\ b = Send(p) /\ k < Iterations /\ Flags(p) > k
    <3>1. Flags(p)' = Flags(p) \/ Flags(p)' = Flags(p) + 1
      <4>1. CASE pc[p] \in Phasing
        BY <2>3, <4>1, RingPlaces, RingNumbers
      <4>2. CASE pc[p] \notin Phasing
        BY <2>3, <4>2, QuietPlaces
      <4> QED
        BY <4>1, <4>2
    <3>2. Flags(p) \in Nat
      BY <2>3, RingNumbers
    <3>3. k < Flags(p) + 1
      BY <2>3, <3>2
    <3> QED
      BY <1>1, <1>3, <2>1, <2>3, <3>1, <3>3 DEF Raised
  <2> QED
    BY <1>3, <2>2, <2>3 DEF Raised
<1> QED
  BY <1>2, <1>3

(* The reset takes down all that is raised for its phase. *)
LEMMA ResetTakesDown ==
  ASSUME Placed, NEW p \in PEs, ResetFlags(p), NEW a \in PEs, NEW k \in 0 .. 2 * N - 1,
         Live(a, p), Raised(a, p, k)
  PROVE  reduce_pSync'[p][k] = 0
<1>0. Types /\ Where(p)
  BY DEF Placed
<1>1. pc[p] = "reset" /\ pc[p] \in Phasing
  BY DEF ResetFlags, Goto, Phasing
<1>2. Level(a, p)
  BY <1>1, PhasingIs DEF Live
<1>3. (Direct(p) <=> Segments(p) = 0) /\ (Ring(p) <=> Segments(p) # 0)
  BY <1>0, <1>1, InPhaseIs
<1>4. k < (IF Segments(p) = 0 THEN N ELSE Iterations)
  <2>1. Direct(a) = Direct(p) /\ Ring(a) = Ring(p)
    BY <1>2, LevelPart
  <2> QED
    BY <1>3, <2>1, Numbers DEF Raised
<1>5. reduce_pSync' =
        [reduce_pSync EXCEPT ![p] =
           [j \in DOMAIN reduce_pSync[p] |->
              IF j < (IF Segments(p) = 0 THEN N ELSE Iterations) THEN 0 ELSE reduce_pSync[p][j]]]
  BY DEF ResetFlags
<1>6. p \in DOMAIN reduce_pSync /\ k \in DOMAIN reduce_pSync[p]
  BY <1>0 DEF Types
<1> QED
  BY <1>4, <1>5, <1>6

LEMMA FlagsDownStep ==
  ASSUME Placed, Lockstep, LaneFlags, DirectOrder, RingOrder, FlagsDown, NEW p \in PEs, Step(p)
  PROVE  FlagsDown'
<1>1. CASE pc[p] \in Phasing
  <2>0. Inner(p) /\ prog' = prog /\ \A x \in PEs \ {p} : Same(x)
    BY <1>1, PhasingInner
  <2>1. ASSUME NEW a \in PEs, NEW b \in PEs, NEW k \in 0 .. 2 * N - 1, Live(a, b), Raised(a, b, k)
        PROVE  (Live(a, b)' /\ Raised(a, b, k)') \/ reduce_pSync'[b][k] = 0
    <3>1. Raised(a, b, k)'
      BY <1>1, <2>1, RaisedStays DEF LeaveBarrier, CountCall, Goto, Phasing
    <3>2. CASE b = p /\ ResetFlags(p)
      BY <2>1, <3>2, ResetTakesDown
    <3>3. CASE b # p \/ ~ResetFlags(p)
      <4>1. b # p \/ (Before(p)' <=> Before(p))
        BY <1>1, <3>3, BeforeStays
      <4>2. Live(a, b)'
        BY <2>0, <2>1, <4>1, LiveInner
      <4> QED
        BY <3>1, <4>2
    <3> QED
      BY <3>2, <3>3
  <2>2. ASSUME NEW b \in PEs, NEW k \in 0 .. 2 * N - 1
        PROVE  \/ reduce_pSync'[b][k] = reduce_pSync[b][k] \/ reduce_pSync'[b][k] = 0
               \/ \E a \in PEs : Live(a, b)' /\ Raised(a, b, k)'
    <3>1. CASE PutFlag(p) /\ b = step[p] /\ k = p
      <4>1. pc[p] = "flag"
        BY <3>1 DEF PutFlag, RaiseFlag, Goto
      <4>2. b \in PEs \ {p} /\ Live(p, b) /\ Direct(p)
        BY <3>1, <4>1, DirectLive
      <4>3. Flagged(p, b)'
        BY <1>1, <3>1, <4>2, DirectPlaces
      <4>4. Live(p, b)' /\ Direct(p)'
        BY <2>0, <4>2, LiveInner
      <4>5. Raised(p, b, k)'
        BY <3>1, <4>2, <4>3, <4>4 DEF Raised
      <4> QED
        BY <4>4, <4>5
    <3>2. CASE RingPutFlag(p) /\ b = Send(p) /\ k = Iter(p)
      <4>1. pc[p] = "rflag"
        BY <3>2 DEF RingPutFlag, Goto
      <4>2. Live(p, b) /\ Ring(p) /\ b # p
        BY <3>2, <4>1, RingLive
      <4>3. Flags(p)' = Flags(p) + 1
        BY <1>1, <3>2, <4>2, RingPlaces
      <4>4. Live(p, b)' /\ Ring(p)'
        BY <2>0, <4>2, LiveInner
      <4>5. /\ Seg(p) \in Nat /\ Iter(p) \in 0 .. Iterations - 1
            /\ step[p] = Seg(p) * Iterations + Iter(p)
        BY <4>1, RingIteration DEF Placed, RingPc
      <4>6. Flags(p) = step[p] /\ Iter(p) < Iterations
        <5>1. step[p] \in Nat
          BY DEF Placed, Types
        <5>2. Flags(p) = step[p]
          BY <4>1, <5>1 DEF Flags, Ended, RingPc
        <5> QED
          BY <4>5, <5>2, Numbers
      <4>7. Seg(p) * Iterations \in Nat
        BY <4>5, Numbers
      <4>8. k < Flags(p)'
        <5>1. \A x, i \in Nat : i < x + i + 1
          OBVIOUS
        <5>2. Iter(p) \in Nat
          BY <4>5, Numbers
        <5>3. Iter(p) < Seg(p) * Iterations + Iter(p) + 1
          BY <4>7, <5>1, <5>2
        <5> QED
          BY <3>2, <4>3, <4>5, <4>6, <5>3
      <4>9. Raised(p, b, k)'
        BY <3>2, <4>4, <4>6, <4>8 DEF Raised, Send, Iterations
      <4> QED
        BY <4>4, <4>9
    <3> QED
      BY <1>1, <3>1, <3>2, FlagWrites
  <2> QED
    BY <2>1, <2>2, FlagsDownKept
<1>2. CASE pc[p] \notin Phasing /\ ~LeaveBarrier(p) /\ ~CountCall(p)
  <2>1. Inner(p) /\ prog' = prog /\ (\A x \in PEs \ {p} : Same(x)) /\ reduce_pSync' = reduce_pSync
    BY <1>2, QuietSteps
  <2>2. ASSUME NEW a \in PEs, NEW b \in PEs, NEW k \in 0 .. 2 * N - 1, Live(a, b), Raised(a, b, k)
        PROVE  Live(a, b)' /\ Raised(a, b, k)'
    <3>1. Raised(a, b, k)'
      BY <1>2, <2>2, RaisedStays
    <3>2. Live(a, b)'
      <4>1. CASE b # p \/ (Before(p)' <=> Before(p))
        BY <2>1, <2>2, <4>1, LiveInner
      <4>2. CASE b = p /\ ~(Before(p)' <=> Before(p))
        <5>1. ~Direct(p) /\ ~Ring(p)
          BY <1>2, <4>2, QuietPlaces
        <5>2. ~Level(a, p)
          BY <2>2, <5>1, LevelPart DEF Raised
        <5>3. Ahead(a, p)'
          BY <2>1, <2>2, <4>2, <5>2, LiveInner DEF Live
        <5> QED
          BY <4>2, <5>3 DEF Live
      <4> QED
        BY <4>1, <4>2
    <3> QED
      BY <3>1, <3>2
  <2> QED
    BY <2>1, <2>2, FlagsDownKept
<1>3. CASE LeaveBarrier(p) \/ CountCall(p)
  <2>1. /\ prog' = prog /\ \A x \in PEs \ {p} : Same(x)
        /\ MovesOn(p) /\ pc'[p] \in {"out", "seed"} /\ reduce_pSync' = reduce_pSync
        /\ pc[p] \in {"inside", "count"} /\ Calling(p) /\ (IsPhased(p) => pc[p] = "inside")
    BY <1>3, MoveIs
  <2>2. \A x, y \in PEs \ {p} : (Level(x, y)' <=> Level(x, y)) /\ (Ahead(x, y)' <=> Ahead(x, y))
    BY <2>1, OthersRelations DEF Placed
  <2>3. Types'
    BY TypesStep DEF Placed
  <2>4. ASSUME NEW a \in PEs, NEW b \in PEs, NEW k \in 0 .. 2 * N - 1, Live(a, b), Raised(a, b, k)
        PROVE  Live(a, b)' /\ Raised(a, b, k)'
    <3>0. (Direct(a) \/ Ring(a)) /\ IsPhased(a) /\ a # b
      <4>1. Send(a) # a
        BY SendIs
      <4> QED
        BY <2>4, <4>1 DEF Raised, Direct, Ring
    <3>1. a # p
      <4> SUFFICES ASSUME a = p PROVE FALSE
        OBVIOUS
      <4>1. pc[p] = "inside" /\ b # p
        BY <2>1, <3>0
      <4>2. ~Ahead(p, b)
        BY <2>1, <2>3, <4>1, Moved, Exclusive DEF Placed
      <4>3. Level(p, b) /\ Before(b)
        BY <2>4, <4>2 DEF Live
      <4>4. Ahead(p, b)'
        <5>1. ~Ahead(b, p)
          BY <4>3, Exclusive DEF Placed
        <5> QED
          BY <2>1, <4>1, <5>1 DEF MovesOn
      <4>5. IsPhased(b) /\ Calling(b)
        BY <2>1, <3>0, <4>3, LevelPart
      <4>6. pc'[b] = pc[b] /\ (Added(b, p)' <=> Added(b, p))
        BY <2>1, <4>1, StayPlace
      <4>7. pc[b] \notin Lanes
        BY <4>5, LaneNow DEF InLanes, IsPhased
      <4>8. pc[b] = "inside"
        BY <4>4, <4>6, <4>7 DEF Ahead, Added, Lanes
      <4> QED
        BY <4>3, <4>8 DEF Before, Ending
    <3>2. Raised(a, b, k)'
      <4>1. /\ (Direct(a)' <=> Direct(a)) /\ (Ring(a)' <=> Ring(a)) /\ Flags(a)' = Flags(a)
            /\ (Flagged(a, b)' <=> Flagged(a, b))
        BY <2>1, <3>1, StayPart
      <4> QED
        BY <2>4, <4>1 DEF Raised, Send, Iterations
    <3>3. CASE b # p
      <4>1. Before(b)' <=> Before(b)
        BY <2>1, <3>3, StayPart
      <4> QED
        BY <2>2, <2>4, <3>1, <3>2, <3>3, <4>1 DEF Live
    <3>4. CASE b = p
      <4>1. ~Level(a, p) \/ ~Before(p)
        <5>1. Level(a, p) => IsPhased(p)
          BY <3>0, LevelPart
        <5> QED
          BY <2>1, <5>1 DEF Before, Ending
      <4>2. Ahead(a, p) /\ ~Level(p, a)
        BY <2>4, <3>4, <4>1, Exclusive DEF Live, Placed
      <4>3. Level(a, p)'
        BY <2>1, <2>3, <3>1, <4>2, Moved
      <4>4. Before(p)'
        BY <2>1 DEF Before, Ending
      <4> QED
        BY <3>2, <3>4, <4>3, <4>4 DEF Live
    <3> QED
      BY <3>3, <3>4
  <2> QED
    BY <2>1, <2>4, FlagsDownKept
<1> QED
  BY <1>1, <1>2, <1>3

(* The counts of all PEs in a ring over a step within a part. *)
LEMMA InnerRing ==
  ASSUME Placed, NEW p \in PEs, Step(p), ~LeaveBarrier(p), ~CountCall(p), NEW x \in PEs, Ring(x)
  PROVE  /\ Ended(x)' = Ended(x) + IF x = p /\ (RingAdd(p) \/ (RingSeeFlag(p) /\ ~FirstLoop(p)))
                                   THEN 1 ELSE 0
         /\ Awaited(x)' = Awaited(x) + IF x = p /\ RingSeeFlag(p) THEN 1 ELSE 0
         /\ Flags(x)' = Flags(x) + IF x = p /\ RingPutFlag(p) THEN 1 ELSE 0
         /\ Puts(x)' = Puts(x) + IF x = p /\ RingPut(p) THEN 1 ELSE 0
<1>0. /\ Ended(x) \in Nat /\ Awaited(x) \in Nat /\ Flags(x) \in Nat /\ Puts(x) \in Nat
  BY RingNumbers
<1>1. CASE x # p
  <2>1. prog' = prog /\ Same(x)
    BY <1>1, OthersStay DEF Placed
  <2>2. Ended(x)' = Ended(x) /\ Awaited(x)' = Awaited(x) /\ Flags(x)' = Flags(x) /\ Puts(x)' = Puts(x)
    BY <2>1, StayPart
  <2> QED
    BY <1>0, <1>1, <2>2
<1>2. CASE x = p /\ pc[p] \in Phasing
  BY <1>2, RingPlaces
<1>3. CASE x = p /\ pc[p] \notin Phasing
  <2>1. ~RingAdd(p) /\ ~RingSeeFlag(p) /\ ~RingPutFlag(p) /\ ~RingPut(p)
    BY <1>3 DEF RingAdd, RingSeeFlag, RingPutFlag, RingPut, Goto, Phasing
  <2>2. Ended(p)' = Ended(p) /\ Awaited(p)' = Awaited(p) /\ Flags(p)' = Flags(p) /\ Puts(p)' = Puts(p)
    BY <1>3, QuietPlaces
  <2> QED
    BY <1>0, <1>3, <2>1, <2>2
<1> QED
  BY <1>1, <1>2, <1>3

(* The last time that iteration i has been counted. *)
LEMMA Latest ==
  ASSUME NEW M \in Nat \ {0}, NEW i \in 0 .. M - 1, NEW f \in Nat, f > i
  PROVE  \E s \in Nat : s * M + i < f /\ f <= s * M + i + M
<1> DEFINE a == f - 1 - i
<1>1. a \in Nat /\ f = a + 1 + i
  OBVIOUS
<1> HIDE DEF a
<1>2. a = (a \div M) * M + (a % M) /\ a \div M \in Nat /\ a % M \in 0 .. M - 1
  BY <1>1, DivMod
<1> DEFINE s == a \div M
           x == s * M
           r == a % M
<1>3. s \in Nat /\ x \in Nat /\ a = x + r /\ r \in 0 .. M - 1
  BY <1>2
<1> HIDE DEF s, x, r
<1>4. x + i < f /\ f <= x + i + M
  BY <1>1, <1>3
<1> QED
  BY <1>3, <1>4 DEF x

(* A flag that p sees in the ring is of the iteration that p is in. *)
LEMMA RingSeen ==
  ASSUME Placed, Lockstep, FlagsDown, RingArrays, NEW p \in PEs, RingSeeFlag(p)
  PROVE  /\ Back(p, 1) \in PEs /\ Level(Back(p, 1), p) /\ Flags(Back(p, 1)) > step[p]
         /\ Ring(p)
<1>1. pc[p] = "rwait" /\ reduce_pSync[p][Iter(p)] = RingFlag(p)
  BY DEF RingSeeFlag, Goto
<1>2. pc[p] \in Phasing /\ pc[p] \in RingPc
  BY <1>1 DEF Phasing, RingPc
<1>3. /\ Ring(p) /\ Seg(p) \in Nat /\ Iter(p) \in 0 .. Iterations - 1
      /\ step[p] = Seg(p) * Iterations + Iter(p)
  BY <1>2, RingIteration DEF Placed
<1>4. Iter(p) \in 0 .. 2 * N - 1 /\ Iterations \in Nat \ {0} /\ 1 \in 0 .. N - 1
  BY <1>3, Numbers
<1>5. RingFlag(p) = FlagValue(Iter(p), Seg(p))
  <2>1. Op(p) = "REDUCE"
    BY <1>3, RingNumbers
  <2> QED
    BY <2>1 DEF RingFlag, FirstLoop, FlagValue
<1>6. reduce_pSync[p][Iter(p)] # 0
  BY <1>1, <1>3, <1>5 DEF FlagValue
<1>7. PICK r \in PEs : Live(r, p) /\ Raised(r, p, Iter(p))
  BY <1>4, <1>6 DEF FlagsDown
<1>8. Level(r, p)
  BY <1>2, <1>7, PhasingIs DEF Live
<1>9. Ring(r) /\ ~Direct(r)
  BY <1>3, <1>8, LevelPart DEF Ring, Direct
<1>10. p = Send(r) /\ Flags(r) > Iter(p)
  BY <1>7, <1>9 DEF Raised
<1>11. r = Back(p, 1)
  BY <1>10, SendIs
<1>12. Flags(r) > step[p]
  <2> DEFINE i == Iter(p)
             f == Flags(r)
             g == Seg(p)
             M == Iterations
  <2>1. f \in Nat /\ M \in Nat \ {0} /\ i \in 0 .. M - 1 /\ f > i /\ g \in Nat
    BY <1>3, <1>4, <1>9, <1>10, RingNumbers
  <2>2. \A s \in Nat : s * M + i < f /\ f <= s * M + i + M => reduce_pSync[p][i] = FlagValue(i, s)
    BY <1>3, <1>7, <1>9, <1>11 DEF RingArrays
  <2>3. reduce_pSync[p][i] = FlagValue(i, g) /\ step[p] = g * M + i
    BY <1>1, <1>3, <1>5
  <2> HIDE DEF i, f, g, M
  <2>4. PICK s \in Nat : s * M + i < f /\ f <= s * M + i + M
    BY <2>1, Latest
  <2>5. FlagValue(i, s) = FlagValue(i, g)
    BY <2>2, <2>3, <2>4
  <2>6. s = g
    BY <2>1, <2>5 DEF FlagValue
  <2>7. f > step[p]
    <3>1. s * M \in Nat
      BY <2>1
    <3> QED
      BY <2>1, <2>3, <2>4, <2>6, <3>1
  <2> QED
    BY <2>7 DEF f
<1> QED
  BY <1>3, <1>8, <1>11, <1>12

(* p sees a flag: those behind the one that raised it have come so far.    *)
LEMMA RingSeenOrder ==
  ASSUME Placed, Lockstep, FlagsDown, RingArrays, RingOrder, NEW p \in PEs, RingSeeFlag(p),
         NEW d \in 1 .. N - 1
  PROVE  /\ Level(p, Back(p, d)) => Awaited(p) + 1 <= Flags(Back(p, d)) + d - 1
         /\ Ahead(p, Back(p, d)) => Awaited(p) + 1 <= d - 1
<1> DEFINE y == Back(p, 1)
           r == Back(p, d)
<1>1. y \in PEs /\ Level(y, p) /\ Flags(y) > step[p] /\ Ring(p)
  BY RingSeen
<1>2. r \in PEs /\ N \in Nat
  BY BackPE, Numbers
<1>3. Awaited(p) = step[p] /\ step[p] \in Nat
  <2>1. pc[p] = "rwait"
    BY DEF RingSeeFlag, Goto
  <2>2. step[p] \in Nat
    BY DEF Placed, Types
  <2> QED
    BY <2>1, <2>2 DEF Awaited, Ended, RingPc
<1>4. Ring(y) /\ Level(p, y)
  BY <1>1, LevelPart DEF Level
<1>5. Flags(y) \in Nat /\ Awaited(y) \in Nat /\ Flags(y) <= Awaited(y) + 1
  BY <1>1, <1>4, RingNumbers
<1>6. CASE d = 1
  <2>1. r = y
    BY <1>6
  <2>2. ~Ahead(p, y)
    BY <1>1, <1>4, Exclusive DEF Placed
  <2> HIDE DEF r, y
  <2>3. Awaited(p) + 1 <= Flags(r) + d - 1 /\ ~Ahead(p, r)
    BY <1>1, <1>3, <1>5, <1>6, <2>1, <2>2
  <2> QED
    BY <2>3 DEF r
<1>7. CASE d # 1
  <2>1. d - 1 \in 1 .. N - 1 /\ 1 + (d - 1) = d /\ d < N /\ 1 \in 0 .. N - 1 /\ d - 1 \in 0 .. N - 1
    BY <1>2, <1>7
  <2>2. r = Back(y, d - 1)
    BY <2>1, BackBack
  <2>3. /\ Level(y, r) => Awaited(y) <= Flags(r) + (d - 1) - 1
        /\ Ahead(y, r) => Awaited(y) <= (d - 1) - 1
    BY <1>1, <1>4, <2>1, <2>2 DEF RingOrder
  <2> HIDE DEF r, y
  <2>4. Level(p, r) => Level(y, r) /\ Ring(r)
    BY <1>1, <1>4, <1>2, LevelPart DEF Level
  <2>5. Ahead(p, r) => Ahead(y, r)
    <3> SUFFICES ASSUME Ahead(p, r) PROVE Ahead(y, r)
      OBVIOUS
    <3>1. pc[r] \in {"inside", "aadd", "await", "areset", "count"} /\ returned[y] = returned[p]
          /\ Ph(y) = Ph(p) /\ left[y] = left[p] /\ seq[y] = seq[p]
      BY <1>1, <1>2, Behind DEF Level
    <3>2. Follows(p, r) => Follows(y, r)
      BY <3>1 DEF Follows
    <3>3. Added(r, p) => pc[r] # "inside"
      BY DEF Added
    <3>4. CASE pc[r] = "inside"
      BY <3>1, <3>2, <3>3, <3>4 DEF Ahead
    <3>5. CASE pc[r] # "inside"
      <4>1. Live(p, r) /\ Follows(p, r) /\ left[p] = left[r] /\ seq[p] = seq[r] + 1 /\ Calling(r)
        BY <3>5, <1>2, Behind DEF Ahead, Live
      <4>2. Level(y, r) \/ Ahead(y, r) \/ Ahead(r, y)
        BY <1>1, <1>2 DEF Lockstep
      <4>3. Follows(y, r) /\ ~Level(y, r) /\ ~Ahead(r, y)
        <5>1. Follows(y, r)
          BY <3>2, <4>1
        <5>2. ~Level(r, y) /\ ~Follows(r, y)
          BY <1>1, <1>2, <5>1, Exclusive DEF Placed
        <5> QED
          BY <5>1, <5>2 DEF Level, Ahead
      <4> QED
        BY <4>2, <4>3
    <3> QED
      BY <3>4, <3>5
  <2>6. Level(p, r) => Flags(r) \in Nat
    BY <1>2, <2>4, RingNumbers
  <2>7. /\ Level(p, r) => Awaited(p) + 1 <= Flags(r) + d - 1
        /\ Ahead(p, r) => Awaited(p) + 1 <= d - 1
    <3>1. Awaited(p) + 1 <= Awaited(y) + 1
      BY <1>1, <1>3, <1>5
    <3>2. CASE Level(p, r)
      <4>1. ~Ahead(p, r)
        BY <1>2, <3>2, Exclusive DEF Placed
      <4> QED
        BY <1>3, <1>5, <2>1, <2>3, <2>4, <2>6, <3>1, <3>2, <4>1
    <3>3. CASE Ahead(p, r)
      <4>1. ~Level(p, r)
        BY <1>2, <3>3, Exclusive DEF Placed
      <4> QED
        BY <1>3, <1>5, <2>1, <2>3, <2>5, <3>1, <3>3, <4>1
    <3> QED
      BY <3>2, <3>3
  <2> QED
    BY <2>7 DEF r
<1> QED
  BY <1>6, <1>7

LEMMA RingOrderStep ==
  ASSUME Placed, Lockstep, LaneFlags, FlagsDown, RingArrays, RingOrder, NEW p \in PEs, Step(p)
  PROVE  RingOrder'
<1> SUFFICES ASSUME NEW a \in PEs, NEW d \in 1 .. N - 1, Ring(a)'
             PROVE  /\ Level(a, Back(a, d))' => Awaited(a)' <= Flags(Back(a, d))' + d - 1
                    /\ Ahead(a, Back(a, d))' => Awaited(a)' <= d - 1
  BY DEF RingOrder, Back
<1>0. d \in 0 .. N - 1 /\ d # 0 /\ 0 \in 0 .. N - 1
  BY Numbers
<1>1. PICK b \in PEs : b = Back(a, d)
  BY <1>0, BackPE
<1>2. b # a
  BY <1>0, <1>1, BackPE
<1>3. Back(a, d)' = Back(a, d)
  BY DEF Back
<1>4. CASE ~LeaveBarrier(p) /\ ~CountCall(p)
  <2>1. Inner(p) /\ prog' = prog /\ \A x \in PEs \ {p} : Same(x)
    BY <1>4, InnerSteps, OthersStay DEF Placed
  <2>2. Ring(a) /\ (Level(a, b)' <=> Level(a, b)) /\ (Ahead(a, b)' <=> Ahead(a, b))
    BY <2>1, LiveInner
  <2>3. Awaited(a)' = Awaited(a) + (IF a = p /\ RingSeeFlag(p) THEN 1 ELSE 0) /\ Awaited(a) \in Nat
    BY <1>4, <2>2, InnerRing, RingNumbers
  <2>4. Level(a, b) => Flags(b) \in Nat /\ Flags(b)' >= Flags(b) /\ Flags(b)' \in Nat
    <3> SUFFICES ASSUME Level(a, b) PROVE Flags(b) \in Nat /\ Flags(b)' >= Flags(b) /\ Flags(b)' \in Nat
      OBVIOUS
    <3>1. Ring(b)
      BY <2>2, LevelPart
    <3>2. Flags(b) \in Nat /\ (Flags(b)' = Flags(b) \/ Flags(b)' = Flags(b) + 1)
      BY <1>4, <3>1, InnerRing, RingNumbers
    <3> QED
      BY <3>2
  <2>5. /\ Level(a, b) => Awaited(a)' <= Flags(b) + d - 1
        /\ Ahead(a, b) => Awaited(a)' <= d - 1
    <3>1. CASE a = p /\ RingSeeFlag(p)
      BY <1>1, <2>3, <3>1, RingSeenOrder
    <3>2. CASE ~(a = p /\ RingSeeFlag(p))
      <4>1. Awaited(a)' = Awaited(a)
        BY <2>3, <3>2
      <4> QED
        BY <1>1, <2>2, <4>1 DEF RingOrder
    <3> QED
      BY <3>1, <3>2
  <2>6. Awaited(a)' \in Nat /\ d \in Nat
    BY <2>3, Numbers
  <2>7. Level(a, b)' => Awaited(a)' <= Flags(b)' + d - 1
    BY <2>2, <2>4, <2>5, <2>6
  <2>8. Ahead(a, b)' => Awaited(a)' <= d - 1
    BY <2>2, <2>5
  <2> QED
    BY <1>1, <1>3, <2>7, <2>8
<1>5. CASE LeaveBarrier(p) \/ CountCall(p)
  <2>1. /\ prog' = prog /\ \A x \in PEs \ {p} : Same(x)
        /\ MovesOn(p) /\ pc'[p] \in {"out", "seed"}
    BY <1>5, MoveIs
  <2>2. \A x, y \in PEs \ {p} : (Level(x, y)' <=> Level(x, y)) /\ (Ahead(x, y)' <=> Ahead(x, y))
    BY <2>1, OthersRelations DEF Placed
  <2>3. Types' /\ \A x \in PEs : Where(x)'
    BY TypesStep, WhereStep DEF Placed
  <2>4. Awaited(p)' = 0 /\ Flags(p)' = 0
    <3>1. pc'[p] \in {"out", "seed"}
      BY <2>1
    <3> QED
      BY <3>1 DEF Awaited, Flags, Ended, RingPc
  <2>5. \A x \in PEs \ {p} : /\ Awaited(x)' = Awaited(x) /\ Flags(x)' = Flags(x)
                             /\ (Ring(x)' <=> Ring(x))
    BY <2>1, StayPart
  <2>6. CASE a # p /\ b # p
    BY <1>1, <1>3, <2>2, <2>5, <2>6 DEF RingOrder
  <2>7. CASE a # p /\ b = p
    <3>1. Ring(a) /\ Awaited(a) \in Nat
      BY <2>5, <2>7, RingNumbers
    <3>2. CASE Level(p, a) /\ ~Level(a, p)' /\ ~Ahead(a, p)'
      BY <1>1, <1>3, <2>7, <3>2
    <3>3. CASE Ahead(a, p) /\ Level(p, a)' /\ ~Ahead(a, p)'
      <4>1. Awaited(a) <= d - 1
        BY <1>1, <2>7, <3>1, <3>3 DEF RingOrder
      <4>2. Awaited(a)' <= Flags(p)' + d - 1
        BY <2>4, <2>5, <2>7, <3>1, <4>1, Numbers
      <4> QED
        BY <1>1, <1>3, <2>7, <3>3, <4>2
    <3> QED
      BY <2>1, <2>3, <2>7, <3>2, <3>3, Moved
  <2>8. CASE a = p
    <3>1. b # p
      BY <1>2, <2>8
    <3>2. Level(p, b)' => Flags(b)' \in Nat
      <4> SUFFICES ASSUME Level(p, b)' PROVE Flags(b)' \in Nat
        OBVIOUS
      <4>1. Ahead(b, p)
        BY <2>1, <2>3, <3>1, Moved
      <4>2. Ring(b)'
        <5>1. /\ Calling(b)' = Calling(p)' /\ IsPhased(b)' = IsPhased(p)' /\ Phases(b)' = Phases(p)'
              /\ Ph(b)' = Ph(p)'
          BY DEF Level, Calling, IsPhased, Phases, Op, Call
        <5> QED
          BY <2>8, <5>1 DEF Ring
      <4>3. Ring(b)
        BY <2>5, <3>1, <4>2
      <4> QED
        BY <2>5, <3>1, <4>3, RingNumbers
    <3>3. ~Ahead(p, b)' \/ 0 <= d - 1
      BY Numbers
    <3>4. Level(p, b)' => 0 <= Flags(b)' + d - 1
      BY <3>2, Numbers
    <3> QED
      BY <1>1, <1>3, <2>4, <2>8, <3>3, <3>4
  <2> QED
    BY <2>6, <2>7, <2>8
<1> QED
  BY <1>4, <1>5

(* How far the PE before p can be ahead in putting. *)
LEMMA PredBound ==
  ASSUME Placed, RingOrder, NEW p \in PEs, Ring(p), Level(Back(p, 1), p)
  PROVE  /\ Back(p, 1) \in PEs /\ Ring(Back(p, 1)) /\ Puts(Back(p, 1)) \in Nat
         /\ Puts(Back(p, 1)) <= Flags(p) + N - 1
<1> DEFINE y == Back(p, 1)
<1>0. N \in Nat /\ N >= 2 /\ 1 \in 0 .. N - 1 /\ N - 1 \in 0 .. N - 1 /\ N - 1 \in 1 .. N - 1
  BY Numbers
<1>1. y \in PEs /\ Ring(y)
  BY <1>0, BackPE, LevelPart
<1>2. Back(y, N - 1) = p
  <2>1. 1 + (N - 1) >= N /\ 1 + (N - 1) - N = 0
    BY <1>0
  <2>2. Back(y, N - 1) = Back(p, 1 + (N - 1) - N)
    BY <1>0, <2>1, BackBack
  <2>3. Back(p, 0) = p
    BY <1>0, BackPE
  <2> QED
    BY <2>1, <2>2, <2>3
<1> HIDE DEF y
<1>3. Level(y, p)
  BY DEF y
<1>4. Awaited(y) <= Flags(p) + (N - 1) - 1
  BY <1>0, <1>1, <1>2, <1>3 DEF RingOrder
<1>5. Puts(y) \in Nat /\ Puts(y) <= Awaited(y) + 1 /\ Awaited(y) \in Nat /\ Flags(p) \in Nat
  BY <1>1, RingNumbers
<1>6. Puts(y) <= Flags(p) + N - 1
  BY <1>0, <1>4, <1>5
<1> QED
  BY <1>1, <1>5, <1>6 DEF y

(* The chunk sent in iteration i, and where it lies from p. *)
Sent(i) == IF i = 0 THEN N - 1 ELSE i - 1

LEMMA SentIs ==
  ASSUME NEW p \in PEs, NEW i \in 0 .. N - 1
  PROVE  Back(Send(p), i) = Back(p, Sent(i)) /\ Sent(i) \in 0 .. N - 1
<1>0. N \in Nat /\ N >= 2 /\ N - 1 \in 0 .. N - 1 /\ Send(p) \in PEs /\ Send(p) = Back(p, N - 1)
  BY Numbers, SendIs
<1>1. CASE i = 0
  BY <1>0, <1>1, BackPE DEF Sent
<1>2. CASE i # 0
  <2>1. (N - 1) + i >= N /\ (N - 1) + i - N = i - 1 /\ i - 1 \in 0 .. N - 1
    BY <1>0, <1>2
  <2>2. Back(Back(p, N - 1), i) = Back(p, (N - 1) + i - N)
    BY <1>0, <2>1, BackBack
  <2> QED
    BY <1>0, <1>2, <2>1, <2>2 DEF Sent
<1> QED
  BY <1>1, <1>2

(* The cell of a chunk in p's destination. *)
LEMMA RingCell ==
  ASSUME Placed, RingSums, NEW p \in PEs, pc[p] \in RingPc, NEW e \in 0 .. N - 1
  PROVE  dst[p][Call(p)][Chunk(p, Back(p, e))] =
           Sum(IF e # N - 2 /\ Totalled(Back(p, 1), p, Seg(p), e) THEN PEs
               ELSE IF e # N - 1 /\ Ended(p) > Seg(p) * Iterations + e THEN Arc(p, e + 1)
               ELSE {p}, Seg(p), Back(p, e), Call(p))
<1>1. pc[p] \in Phasing /\ pc[p] \notin {"out", "seed"}
  BY DEF Phasing, RingPc
<1>2. Ring(p) /\ Seg(p) \in 0 .. Segments(p) - 1 /\ phase[p] = 1
  BY <1>1, RingIteration, InPhaseIs DEF Placed
<1>3. Chunk(p, Back(p, e)) = <<1, Seg(p) * N + Back(p, e)>>
  BY <1>2 DEF Chunk
<1> QED
  BY <1>1, <1>2, <1>3 DEF RingSums

(* In the first loop p sends on the sum that it has. *)
LEMMA RingFirstValue ==
  ASSUME Placed, RingOrder, RingSums, NEW p \in PEs, pc[p] = "rput", FirstLoop(p)
  PROVE  /\ Iter(p) \in 0 .. N - 2 /\ SendChunk(p) = Back(Send(p), Iter(p))
         /\ dst[p][Call(p)][Chunk(p, SendChunk(p))] =
              Sum(Arc(p, Iter(p)), Seg(p), Back(Send(p), Iter(p)), Call(p))
<1> DEFINE y == Back(p, 1)
           i == Iter(p)
           e == Sent(Iter(p))
           x == Seg(p) * Iterations
<1>0. N \in Nat /\ N >= 2
  BY Numbers
<1>1. pc[p] \in RingPc /\ pc[p] \in Phasing
  BY DEF RingPc, Phasing
<1>2. /\ Ring(p) /\ Seg(p) \in Nat /\ i \in 0 .. Iterations - 1 /\ step[p] = x + i /\ x \in Nat
      /\ step[p] \in Nat
  <2>1. Ring(p) /\ Seg(p) \in Nat /\ Iter(p) \in 0 .. Iterations - 1
        /\ step[p] = Seg(p) * Iterations + Iter(p) /\ step[p] \in Nat
    BY <1>1, RingIteration DEF Placed, Types
  <2> QED
    BY <2>1, Numbers
<1>3. i \in 0 .. N - 2 /\ i \in 0 .. N - 1
  BY <1>0, <1>2, Numbers DEF FirstLoop
<1>4. SendChunk(p) = Back(Send(p), i)
  <2>1. SendChunk(p) = Back(Send(p), Turn(i))
    BY <1>2, Chunks
  <2>2. Turn(i) = i
    BY <1>0, <1>3 DEF Turn
  <2> QED
    BY <2>1, <2>2
<1>5. Back(Send(p), i) = Back(p, e) /\ e \in 0 .. N - 1
  BY <1>3, SentIs
<1>6. Ended(p) = step[p] /\ Flags(p) = step[p]
  BY <1>1, <1>2 DEF Ended, Flags, RingPc
<1>7. ~Ahead(y, p) /\ (Level(y, p) => Puts(y) \in Nat /\ Puts(y) <= step[p] + N - 1)
  <2>1. y \in PEs
    BY <1>0, BackPE
  <2> QED
    BY <1>1, <1>2, <1>6, <2>1, PhasingIs, PredBound
<1>8. ~(e # N - 2 /\ Totalled(y, p, Seg(p), e))
  <2>1. Totalled(y, p, Seg(p), e) => Level(y, p) /\ Puts(y) > x + (IF e = N - 1 THEN N - 1 ELSE N + e)
    BY <1>7 DEF Totalled
  <2> HIDE DEF y, i, x
  <2>2. e = IF i = 0 THEN N - 1 ELSE i - 1
    BY DEF Sent, i
  <2> HIDE DEF e
  <2> QED
    BY <1>0, <1>2, <1>3, <1>7, <2>1, <2>2
<1>9. (IF e # N - 1 /\ Ended(p) > x + e THEN Arc(p, e + 1) ELSE {p}) = Arc(p, i)
  <2>1. CASE i = 0
    <3>1. e = N - 1
      BY <2>1 DEF Sent
    <3>2. \A j : j \in 0 .. i <=> j = 0
      BY <2>1
    <3>3. Back(p, 0) = p
      BY <1>0, BackPE
    <3>4. Arc(p, i) = {p}
      BY <3>2, <3>3 DEF Arc
    <3> QED
      BY <3>1, <3>4
  <2>2. CASE i # 0
    <3>1. e = i - 1
      BY <2>2 DEF Sent
    <3> HIDE DEF e, i, x
    <3>2. e # N - 1 /\ Ended(p) > x + e /\ e + 1 = i
      BY <1>0, <1>2, <1>3, <1>6, <2>2, <3>1
    <3> QED
      BY <3>2
  <2> QED
    BY <2>1, <2>2
<1>10. dst[p][Call(p)][Chunk(p, Back(p, e))] = Sum(Arc(p, i), Seg(p), Back(p, e), Call(p))
  <2>1. dst[p][Call(p)][Chunk(p, Back(p, e))] =
           Sum(IF e # N - 2 /\ Totalled(y, p, Seg(p), e) THEN PEs
               ELSE IF e # N - 1 /\ Ended(p) > x + e THEN Arc(p, e + 1)
               ELSE {p}, Seg(p), Back(p, e), Call(p))
    BY <1>1, <1>5, RingCell
  <2> HIDE DEF e, y, i, x
  <2> QED
    BY <1>8, <1>9, <2>1
<1> QED
  BY <1>3, <1>4, <1>5, <1>10

LEMMA ArcAll ==
  ASSUME NEW p \in PEs
  PROVE  Arc(p, N - 1) = PEs
<1>1. \A e \in 0 .. N - 1 : Back(p, e) \in PEs
  BY BackPE
<1>2. \A q \in PEs : \E e \in 0 .. N - 1 : q = Back(p, e)
  BY BackAll
<1> QED
  BY <1>1, <1>2 DEF Arc

(* In the second loop p sends on a total. *)
LEMMA RingSecondValue ==
  ASSUME Placed, Lockstep, RingOrder, RingSums, NEW p \in PEs, pc[p] = "rput", ~FirstLoop(p)
  PROVE  /\ Iter(p) \in N - 1 .. Iterations - 1 /\ SendChunk(p) = Back(Send(p), Turn(Iter(p)))
         /\ Turn(Iter(p)) \in 0 .. N - 1
         /\ dst[p][Call(p)][Chunk(p, SendChunk(p))] =
              Sum(PEs, Seg(p), Back(Send(p), Turn(Iter(p))), Call(p))
<1> DEFINE y == Back(p, 1)
           i == Iter(p)
           t == Turn(Iter(p))
           e == Sent(Turn(Iter(p)))
           x == Seg(p) * Iterations
<1>0. N \in Nat /\ N >= 2 /\ Iterations = 2 * N - 2
  BY Numbers
<1>1. pc[p] \in RingPc /\ pc[p] \in Phasing
  BY DEF RingPc, Phasing
<1>2. /\ Ring(p) /\ Seg(p) \in Nat /\ i \in 0 .. Iterations - 1 /\ step[p] = x + i /\ x \in Nat
      /\ step[p] \in Nat
  <2>1. Ring(p) /\ Seg(p) \in Nat /\ Iter(p) \in 0 .. Iterations - 1
        /\ step[p] = Seg(p) * Iterations + Iter(p) /\ step[p] \in Nat
    BY <1>1, RingIteration DEF Placed, Types
  <2> QED
    BY <2>1, Numbers
<1>3. i \in N - 1 .. Iterations - 1
  BY <1>0, <1>2 DEF FirstLoop
<1>4. t \in 0 .. N - 1 /\ SendChunk(p) = Back(Send(p), t)
  BY <1>2, Chunks
<1>5. Back(Send(p), t) = Back(p, e) /\ e \in 0 .. N - 1
  BY <1>4, SentIs
<1>6. Ended(p) = step[p] /\ Awaited(p) = step[p]
  <2>1. pc[p] # "radd"
    OBVIOUS
  <2> QED
    BY <1>1, <1>2, <2>1 DEF Ended, Awaited, RingPc
<1>7. y \in PEs /\ 1 \in 1 .. N - 1
  BY <1>0, BackPE
<1>8. dst[p][Call(p)][Chunk(p, Back(p, e))] =
         Sum(IF e # N - 2 /\ Totalled(y, p, Seg(p), e) THEN PEs
             ELSE IF e # N - 1 /\ Ended(p) > x + e THEN Arc(p, e + 1)
             ELSE {p}, Seg(p), Back(p, e), Call(p))
  BY <1>1, <1>5, RingCell
<1>9. dst[p][Call(p)][Chunk(p, Back(p, e))] = Sum(PEs, Seg(p), Back(p, e), Call(p))
  <2>1. CASE i = N - 1
    <3>1. t = N - 1
      BY <2>1, <1>0 DEF Turn
    <3>2. e = N - 2 /\ e # N - 1 /\ e + 1 = N - 1
      BY <1>0, <3>1 DEF Sent
    <3>3. Arc(p, e + 1) = PEs
      BY <3>2, ArcAll
    <3>4. Ended(p) > x + e
      <4> HIDE DEF e, x, i, t
      <4> QED
        BY <1>0, <1>2, <1>6, <2>1, <3>2
    <3> HIDE DEF e, x, i, t, y
    <3> QED
      BY <1>8, <3>2, <3>3, <3>4
  <2>2. CASE i # N - 1
    <3>1. i \in N .. 2 * N - 3
      <4> HIDE DEF i
      <4> QED
        BY <1>0, <1>3, <2>2
    <3>2. t = i - N /\ t \in 0 .. N - 3
      <4>1. t = i - N
        BY <1>0, <3>1 DEF Turn
      <4> HIDE DEF i, t
      <4> QED
        BY <1>0, <3>1, <4>1
    <3>3. e # N - 2 /\ (IF e = N - 1 THEN N - 1 ELSE N + e) = i - 1
      <4>1. e = IF t = 0 THEN N - 1 ELSE t - 1
        BY DEF Sent
      <4> HIDE DEF i, t, e
      <4> QED
        BY <1>0, <3>1, <3>2, <4>1
    <3>4. ~Ahead(p, y)
      <4> SUFFICES ASSUME Ahead(p, y) PROVE FALSE
        OBVIOUS
      <4>1. Awaited(p) <= 1 - 1
        BY <1>2, <1>7 DEF RingOrder
      <4> HIDE DEF i, x
      <4> QED
        BY <1>0, <1>2, <1>6, <3>1, <4>1
    <3>5. Level(p, y) /\ Level(y, p)
      <4>1. ~Ahead(y, p)
        BY <1>1, <1>7, PhasingIs
      <4> QED
        BY <1>7, <3>4, <4>1 DEF Lockstep, Level
    <3>6. Awaited(p) <= Flags(y) + 1 - 1 /\ Ring(y)
      BY <1>2, <1>7, <3>5, LevelPart DEF RingOrder
    <3>7. Puts(y) \in Nat /\ Flags(y) \in Nat /\ Puts(y) >= Flags(y)
      BY <1>7, <3>6, RingNumbers
    <3>8. Totalled(y, p, Seg(p), e)
      <4>1. Puts(y) > x + (i - 1)
        <5> HIDE DEF i, x, y
        <5> QED
          BY <1>0, <1>2, <1>6, <3>1, <3>6, <3>7
      <4> HIDE DEF i, y, e
      <4> QED
        BY <3>3, <3>5, <4>1 DEF Totalled
    <3> HIDE DEF e, x, i, t, y
    <3> QED
      BY <1>8, <3>3, <3>8
  <2> QED
    BY <2>1, <2>2
<1> QED
  BY <1>3, <1>4, <1>5, <1>9

(* The iterations that count t * M + j + 1 covers, besides the last one. *)
LEMMA NextCount ==
  ASSUME NEW M \in Nat \ {0}, NEW s \in Nat, NEW t \in Nat, NEW i \in 0 .. M - 1, NEW j \in 0 .. M - 1,
         s * M + i < t * M + j + 1, t * M + j + 1 <= s * M + i + M
  PROVE  \/ s = t /\ i = j
         \/ i # j /\ s * M + i < t * M + j /\ t * M + j <= s * M + i + M
<1> DEFINE a == s * M
           b == t * M
<1>1. a \in Nat /\ b \in Nat /\ a + i < b + j + 1 /\ b + j + 1 <= a + i + M
  OBVIOUS
<1>2. a + i = b + j => s = t /\ i = j
  BY SameIteration
<1>3. s < t => a + M <= b
  BY InSegments
<1>4. t < s => b + M <= a
  BY InSegments
<1>5. s = t => a = b
  OBVIOUS
<1> HIDE DEF a, b
<1>6. a + i # b + j => i # j
  BY <1>1, <1>3, <1>4, <1>5
<1>7. a + i # b + j => a + i < b + j /\ b + j <= a + i + M
  BY <1>1
<1> QED
  BY <1>2, <1>6, <1>7 DEF a, b

(* Whose parts are in q's arrays before and after p has moved on. *)
LEMMA LiveMoves ==
  ASSUME Placed, Lockstep, LaneFlags, NEW p \in PEs, Step(p), LeaveBarrier(p) \/ CountCall(p),
         NEW a \in PEs \ {p}, NEW b \in PEs, a # b, Live(a, b)'
  PROVE  Live(a, b)
<1>1. /\ prog' = prog /\ \A x \in PEs \ {p} : Same(x)
      /\ MovesOn(p) /\ pc'[p] \in {"out", "seed"}
  BY MoveIs
<1>2. \A x, y \in PEs \ {p} : (Level(x, y)' <=> Level(x, y)) /\ (Ahead(x, y)' <=> Ahead(x, y))
  BY <1>1, OthersRelations DEF Placed
<1>3. Types'
  BY TypesStep DEF Placed
<1>4. CASE b = p
  BY <1>1, <1>3, <1>4, Moved DEF Live
<1>5. CASE b # p
  <2>1. Before(b)' <=> Before(b)
    BY <1>1, <1>5, StayPart
  <2> QED
    BY <1>2, <1>5, <2>1 DEF Live
<1> QED
  BY <1>4, <1>5

(* Within a part nobody takes over the arrays of another. *)
LEMMA LiveStays ==
  ASSUME Placed, Lockstep, NEW p \in PEs, Step(p), ~LeaveBarrier(p), ~CountCall(p),
         NEW a \in PEs, NEW b \in PEs, Live(a, b)'
  PROVE  /\ Live(a, b)
         /\ ~(ResetFlags(p) /\ b = p /\ pc[p] \in Phasing)
<1>1. CASE pc[p] \in Phasing
  <2>1. Inner(p) /\ prog' = prog /\ (\A x \in PEs \ {p} : Same(x)) /\ (Before(p)' => Before(p))
    BY <1>1, PhasingInner, BeforeStays
  <2>2. Live(a, b)
    BY <2>1, LiveInner
  <2>3. ~(ResetFlags(p) /\ b = p)
    <3> SUFFICES ASSUME ResetFlags(p), b = p PROVE FALSE
      OBVIOUS
    <3>1. ~Before(p)' /\ ~Ahead(a, p)
      BY <1>1, BeforeStays, PhasingIs
    <3>2. ~Ahead(a, p)'
      BY <2>1, <3>1, LiveInner
    <3> QED
      BY <3>1, <3>2 DEF Live
  <2> QED
    BY <2>2, <2>3
<1>2. CASE pc[p] \notin Phasing
  <2>1. Inner(p) /\ prog' = prog /\ (\A x \in PEs \ {p} : Same(x)) /\ (Before(p)' => Before(p))
    BY <1>2, QuietSteps
  <2> QED
    BY <1>2, <2>1, LiveInner
<1> QED
  BY <1>1, <1>2

(* The cells of q that a ring uses are not written by others. *)
LEMMA RingFrame ==
  ASSUME Placed, Lockstep, DirectOrder, RingOrder, NEW p \in PEs, Step(p), ~LeaveBarrier(p), ~CountCall(p),
         NEW q \in PEs, NEW a \in PEs, a = Back(q, 1), Ring(a), Live(a, q)'
  PROVE  /\ \A k \in 0 .. 2 * N - 1 :
              reduce_pSync'[q][k] = reduce_pSync[q][k] \/ (RingPutFlag(p) /\ a = p /\ k = Iter(p))
         /\ \A k \in PEs :
              \/ pWrk'[q][k] = pWrk[q][k]
              \/ RingPut(p) /\ FirstLoop(p) /\ a = p /\ k = SendChunk(p)
<1>0. Live(a, q)
  BY LiveStays
<1>1. CASE pc[p] \notin Phasing
  BY <1>1, QuietSteps
<1>2. CASE pc[p] \in Phasing
  <2>1. ~(ResetFlags(p) /\ q = p)
    BY <1>2, LiveStays
  <2>2. ~((PutFlag(p) \/ PutWork(p)) /\ q = step[p])
    <3> SUFFICES ASSUME PutFlag(p) \/ PutWork(p), q = step[p] PROVE FALSE
      OBVIOUS
    <3>1. pc[p] \in {"put", "flag"}
      BY DEF PutFlag, RaiseFlag, PutWork, Goto
    <3>2. Live(p, q) /\ Direct(p)
      BY <3>1, DirectLive
    <3>3. Level(a, p)
      BY <1>0, <3>2, LiveSame
    <3> QED
      BY <3>2, <3>3, LevelPart DEF Direct, Ring
  <2>3. q = Send(p) => a = p
    BY SendIs
  <2>4. ASSUME NEW k \in 0 .. 2 * N - 1
        PROVE  reduce_pSync'[q][k] = reduce_pSync[q][k] \/ (RingPutFlag(p) /\ a = p /\ k = Iter(p))
    BY <1>2, <2>1, <2>2, <2>3, FlagWrites
  <2>5. ASSUME NEW k \in PEs
        PROVE  \/ pWrk'[q][k] = pWrk[q][k]
               \/ RingPut(p) /\ FirstLoop(p) /\ a = p /\ k = SendChunk(p)
    BY <1>2, <2>1, <2>2, <2>3, WorkWrites
  <2> QED
    BY <2>4, <2>5
<1> QED
  BY <1>1, <1>2

(* The flags of a ring over a step within a part. *)
LEMMA RingFlagsInner ==
  ASSUME Placed, Lockstep, DirectOrder, RingOrder, RingArrays,
         NEW p \in PEs, Step(p), ~LeaveBarrier(p), ~CountCall(p),
         NEW q \in PEs, NEW a \in PEs, a = Back(q, 1), Ring(a), Live(a, q)',
         NEW s \in Nat, NEW i \in 0 .. Iterations - 1,
         s * Iterations + i < Flags(a)', Flags(a)' <= s * Iterations + i + Iterations
  PROVE  reduce_pSync'[q][i] = FlagValue(i, s)
<1>0. Iterations \in Nat \ {0} /\ i \in 0 .. 2 * N - 1 /\ Live(a, q)
  BY Numbers, LiveStays
<1>1. /\ Flags(a)' = Flags(a) + IF a = p /\ RingPutFlag(p) THEN 1 ELSE 0
      /\ Flags(a) \in Nat
  BY InnerRing, RingNumbers
<1>2. s * Iterations + i < Flags(a) /\ Flags(a) <= s * Iterations + i + Iterations =>
        reduce_pSync[q][i] = FlagValue(i, s)
  BY <1>0 DEF RingArrays
<1>3. CASE a = p /\ RingPutFlag(p)
  <2>1. pc[p] = "rflag" /\ pc[p] \in RingPc /\ pc[p] \in Phasing
    BY <1>3 DEF RingPutFlag, Goto, RingPc, Phasing
  <2>2. /\ Seg(p) \in Nat /\ Iter(p) \in 0 .. Iterations - 1 /\ step[p] = Seg(p) * Iterations + Iter(p)
        /\ Op(p) = "REDUCE"
    BY <1>3, <2>1, RingIteration, RingNumbers DEF Placed
  <2>3. Flags(a) = Seg(p) * Iterations + Iter(p) /\ Flags(a)' = Seg(p) * Iterations + Iter(p) + 1
    <3>1. step[p] \in Nat
      BY DEF Placed, Types
    <3>2. Flags(p) = step[p]
      BY <2>1, <3>1 DEF Flags, Ended
    <3> QED
      BY <1>1, <1>3, <2>2, <3>2
  <2>4. \/ s = Seg(p) /\ i = Iter(p)
        \/ /\ i # Iter(p) /\ s * Iterations + i < Flags(a)
           /\ Flags(a) <= s * Iterations + i + Iterations
    BY <1>0, <2>2, <2>3, NextCount
  <2>5. CASE s = Seg(p) /\ i = Iter(p)
    <3>1. RingFlag(p) = FlagValue(i, s)
      BY <2>2, <2>5 DEF RingFlag, FirstLoop, FlagValue
    <3>2. q = Send(p)
      BY <1>3, SendIs
    <3>3. reduce_pSync' = Put(reduce_pSync, q, i, RingFlag(p))
      BY <1>3, <2>5, <3>2 DEF RingPutFlag
    <3>4. q \in DOMAIN reduce_pSync /\ i \in DOMAIN reduce_pSync[q]
      BY <1>0 DEF Placed, Types
    <3> QED
      BY <3>1, <3>3, <3>4, PutCell
  <2>6. CASE ~(s = Seg(p) /\ i = Iter(p))
    <3>1. reduce_pSync'[q][i] = reduce_pSync[q][i]
      BY <1>0, <2>4, <2>6, RingFrame
    <3> QED
      BY <1>2, <2>4, <2>6, <3>1
  <2> QED
    BY <2>5, <2>6
<1>4. CASE ~(a = p /\ RingPutFlag(p))
  <2>1. reduce_pSync'[q][i] = reduce_pSync[q][i]
    BY <1>0, <1>4, RingFrame
  <2>2. Flags(a)' = Flags(a)
    BY <1>1, <1>4
  <2> QED
    BY <1>2, <2>1, <2>2
<1> QED
  BY <1>3, <1>4

(* What lies in the work array of q. *)
LEMMA RingWorkInner ==
  ASSUME Placed, Lockstep, DirectOrder, RingOrder, RingArrays, RingSums,
         NEW p \in PEs, Step(p), ~LeaveBarrier(p), ~CountCall(p),
         NEW q \in PEs, NEW a \in PEs, a = Back(q, 1), Ring(a), Live(a, q)',
         NEW s \in Nat, NEW i \in 0 .. N - 2,
         s * Iterations + i < Puts(a)', Puts(a)' <= s * Iterations + i + Iterations
  PROVE  pWrk'[q][Back(q, i)] = Sum(Arc(a, i), s, Back(q, i), Call(a))
<1>0. /\ Iterations \in Nat \ {0} /\ i \in 0 .. N - 1 /\ i \in 0 .. Iterations - 1 /\ Live(a, q)
      /\ N \in Nat /\ N >= 2 /\ Iterations = 2 * N - 2
  BY Numbers, LiveStays
<1>1. /\ Puts(a)' = Puts(a) + IF a = p /\ RingPut(p) THEN 1 ELSE 0
      /\ Puts(a) \in Nat
  BY InnerRing, RingNumbers
<1>2. s * Iterations + i < Puts(a) /\ Puts(a) <= s * Iterations + i + Iterations =>
        pWrk[q][Back(q, i)] = Sum(Arc(a, i), s, Back(q, i), Call(a))
  BY <1>0 DEF RingArrays
<1>k. Back(q, i) \in PEs
  BY <1>0, BackPE
<1>3. CASE a = p /\ RingPut(p)
  <2>1. pc[p] = "rput" /\ pc[p] \in RingPc /\ pc[p] \in Phasing
    BY <1>3 DEF RingPut, Goto, RingPc, Phasing
  <2>2. /\ Seg(p) \in Nat /\ Iter(p) \in 0 .. Iterations - 1 /\ step[p] = Seg(p) * Iterations + Iter(p)
        /\ Op(p) = "REDUCE"
    BY <1>3, <2>1, RingIteration, RingNumbers DEF Placed
  <2>3. Puts(a) = Seg(p) * Iterations + Iter(p) /\ Puts(a)' = Seg(p) * Iterations + Iter(p) + 1
    <3>1. step[p] \in Nat
      BY DEF Placed, Types
    <3>2. Puts(p) = step[p]
      BY <2>1, <3>1 DEF Puts, Ended
    <3> QED
      BY <1>1, <1>3, <2>2, <3>2
  <2>4. \/ s = Seg(p) /\ i = Iter(p)
        \/ /\ i # Iter(p) /\ s * Iterations + i < Puts(a)
           /\ Puts(a) <= s * Iterations + i + Iterations
    <3>1. /\ s * Iterations + i < Seg(p) * Iterations + Iter(p) + 1
          /\ Seg(p) * Iterations + Iter(p) + 1 <= s * Iterations + i + Iterations
      BY <2>3
    <3>2. \/ s = Seg(p) /\ i = Iter(p)
          \/ /\ i # Iter(p) /\ s * Iterations + i < Seg(p) * Iterations + Iter(p)
             /\ Seg(p) * Iterations + Iter(p) <= s * Iterations + i + Iterations
      <4>1. /\ Iterations \in Nat \ {0} /\ Seg(p) \in Nat /\ Iter(p) \in 0 .. Iterations - 1
            /\ i \in 0 .. Iterations - 1
        BY <1>0, <2>2
      <4> QED
        BY <3>1, <4>1, NextCount
    <3> QED
      BY <2>3, <3>2
  <2>5. q = Send(p)
    BY <1>3, SendIs
  <2>6. CASE FirstLoop(p)
    <3>1. /\ Iter(p) \in 0 .. N - 2 /\ SendChunk(p) = Back(q, Iter(p))
          /\ dst[p][Call(p)][Chunk(p, SendChunk(p))] =
               Sum(Arc(p, Iter(p)), Seg(p), Back(q, Iter(p)), Call(p))
      BY <2>1, <2>5, <2>6, RingFirstValue
    <3>2. CASE s = Seg(p) /\ i = Iter(p)
      <4>1. pWrk' = Put(pWrk, q, Back(q, i), dst[p][Call(p)][Chunk(p, SendChunk(p))])
        BY <1>3, <2>5, <2>6, <3>1, <3>2 DEF RingPut
      <4>2. q \in DOMAIN pWrk /\ Back(q, i) \in DOMAIN pWrk[q]
        BY <1>k DEF Placed, Types
      <4>3. pWrk'[q][Back(q, i)] = dst[p][Call(p)][Chunk(p, SendChunk(p))]
        BY <4>1, <4>2, PutCell
      <4> QED
        BY <1>3, <3>1, <3>2, <4>3
    <3>3. CASE ~(s = Seg(p) /\ i = Iter(p))
      <4>1. i # Iter(p) /\ Iter(p) \in 0 .. N - 1
        BY <1>0, <2>4, <3>1, <3>3
      <4>2. Back(q, i) # SendChunk(p)
        BY <1>0, <3>1, <4>1, BackPE
      <4>3. pWrk'[q][Back(q, i)] = pWrk[q][Back(q, i)]
        BY <1>k, <4>2, RingFrame
      <4> QED
        BY <1>2, <2>4, <3>3, <4>3
    <3> QED
      BY <3>2, <3>3
  <2>7. CASE ~FirstLoop(p)
    <3>1. i # Iter(p)
      BY <1>0, <2>2, <2>7 DEF FirstLoop
    <3>2. pWrk'[q][Back(q, i)] = pWrk[q][Back(q, i)]
      BY <1>k, <2>7, RingFrame
    <3> QED
      BY <1>2, <2>4, <3>1, <3>2
  <2> QED
    BY <2>6, <2>7
<1>4. CASE ~(a = p /\ RingPut(p))
  <2>1. pWrk'[q][Back(q, i)] = pWrk[q][Back(q, i)]
    BY <1>k, <1>4, RingFrame
  <2>2. Puts(a)' = Puts(a)
    BY <1>1, <1>4
  <2> QED
    BY <1>2, <2>1, <2>2
<1> QED
  BY <1>3, <1>4

LEMMA RingArraysStep ==
  ASSUME Placed, Lockstep, LaneFlags, DirectOrder, RingOrder, RingArrays, RingSums, NEW p \in PEs, Step(p)
  PROVE  RingArrays'
<1> SUFFICES ASSUME NEW q \in PEs, Ring(Back(q, 1))', Live(Back(q, 1), q)'
             PROVE  /\ \A s \in Nat, i \in 0 .. Iterations - 1 :
                         s * Iterations + i < Flags(Back(q, 1))'
                         /\ Flags(Back(q, 1))' <= s * Iterations + i + Iterations =>
                           reduce_pSync'[q][i] = FlagValue(i, s)
                    /\ \A s \in Nat, i \in 0 .. N - 2 :
                         s * Iterations + i < Puts(Back(q, 1))'
                         /\ Puts(Back(q, 1))' <= s * Iterations + i + Iterations =>
                           pWrk'[q][Back(q, i)] = Sum(Arc(Back(q, 1), i), s, Back(q, i), Call(Back(q, 1))')
  BY DEF RingArrays, Back, FlagValue, Sum, Arc, Iterations, PEs
<1>0. N \in Nat /\ N >= 2 /\ 1 \in 0 .. N - 1 /\ Iterations \in Nat
  BY Numbers
<1>1. PICK a \in PEs : a = Back(q, 1)
  BY <1>0, BackPE
<1>2. Ring(a)' /\ Live(a, q)'
  BY <1>1
<1>3. a # q
  <2>1. Back(q, 0) = q /\ 0 \in 0 .. N - 1
    BY <1>0, BackPE
  <2> QED
    BY <1>0, <1>1, <2>1, BackPE
<1>4. CASE ~LeaveBarrier(p) /\ ~CountCall(p)
  <2>1. Inner(p) /\ prog' = prog /\ \A x \in PEs \ {p} : Same(x)
    BY <1>4, InnerSteps, OthersStay DEF Placed
  <2>2. Ring(a) /\ Call(a)' = Call(a)
    BY <1>2, <2>1, LiveInner
  <2>3. ASSUME NEW s \in Nat, NEW i \in 0 .. Iterations - 1,
               s * Iterations + i < Flags(a)', Flags(a)' <= s * Iterations + i + Iterations
        PROVE  reduce_pSync'[q][i] = FlagValue(i, s)
    BY <1>1, <1>2, <1>4, <2>2, <2>3, RingFlagsInner
  <2>4. ASSUME NEW s \in Nat, NEW i \in 0 .. N - 2,
               s * Iterations + i < Puts(a)', Puts(a)' <= s * Iterations + i + Iterations
        PROVE  pWrk'[q][Back(q, i)] = Sum(Arc(a, i), s, Back(q, i), Call(a)')
    BY <1>1, <1>2, <1>4, <2>2, <2>4, RingWorkInner
  <2> QED
    BY <1>1, <2>3, <2>4
<1>5. CASE LeaveBarrier(p) \/ CountCall(p)
  <2>1. /\ prog' = prog /\ \A x \in PEs \ {p} : Same(x)
        /\ MovesOn(p) /\ pc'[p] \in {"out", "seed"} /\ pWrk' = pWrk /\ reduce_pSync' = reduce_pSync
    BY <1>5, MoveIs
  <2>2. CASE a = p
    <3>1. Flags(p)' = 0 /\ Puts(p)' = 0
      BY <2>1 DEF Flags, Puts, Ended, RingPc
    <3>2. ASSUME NEW s \in Nat, NEW i \in Nat PROVE ~(s * Iterations + i < 0)
      <4>1. s * Iterations \in Nat
        BY <1>0
      <4> QED
        BY <4>1
    <3>3. (\A i \in 0 .. Iterations - 1 : i \in Nat) /\ (\A i \in 0 .. N - 2 : i \in Nat)
      BY <1>0
    <3>4. \A s \in Nat, i \in 0 .. Iterations - 1 : ~(s * Iterations + i < Flags(a)')
      BY <2>2, <3>1, <3>2, <3>3
    <3>5. \A s \in Nat, i \in 0 .. N - 2 : ~(s * Iterations + i < Puts(a)')
      BY <2>2, <3>1, <3>2, <3>3
    <3> QED
      BY <1>1, <3>4, <3>5
  <2>3. CASE a # p
    <3>1. /\ Flags(a)' = Flags(a) /\ Puts(a)' = Puts(a) /\ Ring(a) /\ Call(a)' = Call(a)
      BY <1>2, <2>1, <2>3, StayPart
    <3>2. Live(a, q)
      BY <1>2, <1>3, <1>5, <2>3, LiveMoves
    <3> QED
      BY <1>1, <2>1, <3>1, <3>2 DEF RingArrays
  <2> QED
    BY <2>2, <2>3
<1> QED
  BY <1>4, <1>5

(* What a step writes into the destination of a reduction. *)
PhaseWrite(p, x, n, c) ==
  \/ /\ Seed(p) /\ x = p /\ n = Call(p) /\ c[1] = phase[p]
     /\ Segments(p) = 0 => c = <<phase[p], 0>> /\ dst'[x][n][c] = Contribution(p, p)
     /\ Segments(p) # 0 => dst'[x][n][c] = {<<p, c, n>>}
  \/ /\ AddWork(p) /\ x = p /\ n = Call(p) /\ c = <<phase[p], 0>>
     /\ dst'[x][n][c] = Plus(dst[x][n][c], pWrk[p][step[p]])
  \/ /\ RingAdd(p) /\ x = p /\ n = Call(p) /\ c = Chunk(p, RecvChunk(p))
     /\ dst'[x][n][c] = Plus(dst[x][n][c], pWrk[p][RecvChunk(p)])
  \/ /\ RingPut(p) /\ ~FirstLoop(p) /\ x = Send(p) /\ n = Call(p) /\ c = Chunk(p, SendChunk(p))
     /\ dst'[x][n][c] = dst[p][n][c]

LEMMA PhaseWrites ==
  ASSUME Placed, NEW p \in PEs, Step(p), NEW x \in PEs, NEW n \in 1 .. Len(prog), ~IsPlain(n),
         NEW c \in DOMAIN dst[x][n]
  PROVE  dst'[x][n][c] = dst[x][n][c] \/ PhaseWrite(p, x, n, c)
<1> USE DEF Placed
<1>1. CASE n # Call(p)
  BY <1>1, WritesCall
<1>2. CASE n = Call(p) /\ pc[p] \notin Phasing
  <2>1. CASE \E q \in PEs : ThreadPut(p, q)
    <3>1. pc[p] = "aput"
      BY <2>1 DEF ThreadPut, Served, Goto
    <3>2. Where(p) /\ Calling(p) /\ Op(p) = "ALLTOALL_THREADS"
      BY <3>1 DEF Where, InPhase, InPuts, InLanes, Phasing, Ending
    <3>3. IsPlain(Call(p))
      BY <3>2, PlainIs DEF IsPhased
    <3> QED
      BY <1>2, <3>3
  <2>2. CASE LinearPut(p)
    <3>1. pc[p] = "lput"
      BY <2>2 DEF LinearPut, Goto
    <3>2. Where(p) /\ Calling(p) /\ Op(p) \in {"ALLTOALL", "FCOLLECT", "BROADCAST"}
      BY <3>1 DEF Where, InPhase, InPuts, InLanes, Phasing, Ending, Lanes
    <3>3. IsPlain(Call(p))
      BY <3>2, PlainIs DEF IsPhased
    <3> QED
      BY <1>2, <3>3
  <2>3. ~(\E q \in PEs : ThreadPut(p, q)) /\ ~LinearPut(p) => dst' = dst
    <3>1. CASE Enter(p) \/ CountCall(p) \/ NothingToPut(p) \/ EnterBarrier(p) \/ LeaveBarrier(p)
      BY <3>1 DEF Enter, CountCall, NothingToPut, EnterBarrier, LeaveBarrier, shared
    <3>2. CASE \E q \in PEs : ThreadAdd(p, q) \/ ThreadSee(p, q) \/ ThreadReset(p, q)
      BY <3>2 DEF ThreadAdd, ThreadSee, ThreadReset, shared
    <3>3. ~(\/ Seed(p) \/ PutWork(p) \/ PutFlag(p) \/ SeeFlag(p) \/ AddWork(p) \/ RingPut(p)
            \/ RingPutFlag(p) \/ RingSeeFlag(p) \/ RingAdd(p) \/ ResetFlags(p))
      BY <1>2 DEF Seed, PutWork, PutFlag, RaiseFlag, SeeFlag, AddWork, RingPut, RingPutFlag, RingSeeFlag,
                  RingAdd, ResetFlags, Goto, Phasing
    <3> QED
      BY <3>1, <3>2, <3>3 DEF Step
  <2> QED
    BY <2>1, <2>2, <2>3
<1>3. CASE n = Call(p) /\ pc[p] \in Phasing
  <2>0. x \in DOMAIN dst /\ n \in DOMAIN dst[x]
    BY DEF Types
  <2>1. CASE PutWork(p) \/ PutFlag(p) \/ SeeFlag(p) \/ RingPutFlag(p) \/ RingSeeFlag(p) \/ ResetFlags(p)
    BY <2>1 DEF PutWork, PutFlag, RaiseFlag, SeeFlag, RingPutFlag, RingSeeFlag, ResetFlags, shared
  <2>2. CASE Seed(p) /\ Segments(p) = 0
    <3>1. PutDst(p, p, <<phase[p], 0>>, Contribution(p, p))
      BY <2>2 DEF Seed
    <3>2. dst'[x][n][c] = IF x = p /\ n = Call(p) /\ c = <<phase[p], 0>> THEN Contribution(p, p)
                          ELSE dst[x][n][c]
      BY <3>1, DstCell
    <3>3. c = <<phase[p], 0>> => c[1] = phase[p]
      OBVIOUS
    <3> QED
      BY <2>2, <3>2, <3>3 DEF PhaseWrite
  <2>3. CASE Seed(p) /\ Segments(p) # 0
    <3> DEFINE f == [d \in DOMAIN dst[p][Call(p)] |->
                      IF d \in RingCells(phase[p], Segments(p)) THEN {<<p, d, Call(p)>>}
                      ELSE dst[p][Call(p)][d]]
    <3>1. dst' = [dst EXCEPT ![p] = [dst[p] EXCEPT ![Call(p)] = f]]
      BY <2>3 DEF Seed
    <3>2. x = p => f[c] = IF c \in RingCells(phase[p], Segments(p)) THEN {<<p, c, Call(p)>>}
                          ELSE dst[p][Call(p)][c]
      BY <1>3
    <3> HIDE DEF f
    <3>3. x = p => dst'[x][n] = f
      BY <1>3, <2>0, <3>1
    <3>4. x # p => dst'[x] = dst[x]
      BY <2>0, <3>1
    <3>5. c \in RingCells(phase[p], Segments(p)) => c[1] = phase[p]
      BY DEF RingCells
    <3> QED
      BY <1>3, <2>3, <3>2, <3>3, <3>4, <3>5 DEF PhaseWrite
  <2>4. CASE AddWork(p)
    <3>1. PutDst(p, p, <<phase[p], 0>>, Plus(dst[p][Call(p)][<<phase[p], 0>>], pWrk[p][step[p]]))
      BY <2>4 DEF AddWork, Add
    <3>2. dst'[x][n][c] = IF x = p /\ n = Call(p) /\ c = <<phase[p], 0>>
                          THEN Plus(dst[p][Call(p)][<<phase[p], 0>>], pWrk[p][step[p]])
                          ELSE dst[x][n][c]
      BY <3>1, DstCell
    <3> QED
      BY <2>4, <3>2 DEF PhaseWrite
  <2>5. CASE RingAdd(p)
    <3> DEFINE d == Chunk(p, RecvChunk(p))
    <3>1. PutDst(p, p, d, Plus(dst[p][Call(p)][d], pWrk[p][RecvChunk(p)]))
      BY <2>5 DEF RingAdd, Add
    <3> HIDE DEF d
    <3>2. dst'[x][n][c] = IF x = p /\ n = Call(p) /\ c = d
                          THEN Plus(dst[p][Call(p)][d], pWrk[p][RecvChunk(p)])
                          ELSE dst[x][n][c]
      BY <3>1, DstCell
    <3> QED
      BY <2>5, <3>2 DEF PhaseWrite, d
  <2>6. CASE RingPut(p)
    <3> DEFINE d == Chunk(p, SendChunk(p))
    <3>1. CASE FirstLoop(p)
      BY <2>6, <3>1 DEF RingPut
    <3>2. CASE ~FirstLoop(p)
      <4>1. PutDst(p, Send(p), d, dst[p][Call(p)][d])
        BY <2>6, <3>2 DEF RingPut
      <4> HIDE DEF d
      <4>2. dst'[x][n][c] = IF x = Send(p) /\ n = Call(p) /\ c = d THEN dst[p][Call(p)][d]
                            ELSE dst[x][n][c]
        BY <4>1, DstCell
      <4> QED
        BY <2>6, <3>2, <4>2 DEF PhaseWrite, d
    <3> QED
      BY <3>1, <3>2
  <2> QED
    BY <1>3, <2>1, <2>2, <2>3, <2>4, <2>5, <2>6, PhasingActions
<1> QED
  BY <1>1, <1>2, <1>3

(* The cells of a ring: of a segment and a chunk. *)
LEMMA RingCellIs ==
  ASSUME NEW s \in Nat, NEW t \in Nat, NEW a \in PEs, NEW b \in PEs
  PROVE  <<1, s * N + a>> = <<1, t * N + b>> <=> s = t /\ a = b
<1>1. N \in Nat \ {0} /\ a \in 0 .. N - 1 /\ b \in 0 .. N - 1
  BY Numbers
<1>2. s * N + a = t * N + b => s = t /\ a = b
  BY <1>1, SameIteration
<1> QED
  BY <1>2

LEMMA RingCellIn ==
  ASSUME Placed, NEW q \in PEs, Ring(q), pc[q] # "out", NEW s \in 0 .. Segments(q) - 1, NEW a \in PEs
  PROVE  /\ <<1, s * N + a>> \in DOMAIN dst[q][Call(q)] /\ Call(q) \in 1 .. Len(prog)
         /\ ~IsPlain(Call(q)) /\ s \in Nat /\ Segments(q) \in Nat /\ Its(q) = Segments(q) * Iterations
<1> DEFINE call == prog[Call(q)]
<1>1. /\ Calling(q) /\ IsPhased(q) /\ Phases(q) = call.phases /\ Phases(q) \in Seq(Nat)
      /\ Len(Phases(q)) = 1 /\ Ph(q) = 1 /\ phase[q] = 1
  <2>1. Op(q) = "REDUCE" /\ Len(Phases(q)) = 1 /\ Ph(q) = 1
    BY RingNumbers
  <2>2. Ph(q) = phase[q]
    BY DEF Ph
  <2> QED
    BY <2>1, <2>2, PhasesAre DEF Ring, Phases, Placed
<1>2. call.phases # <<>> /\ DOMAIN call.phases = {1} /\ call.phases[1] # 0 /\ call.phases[1] \in Nat
      /\ Segments(q) = call.phases[1]
  BY <1>1 DEF Ring, Segments
<1>3. ~IsPlain(Call(q))
  BY <1>2 DEF IsPlain
<1>4. Call(q) \in 1 .. Len(prog) /\ DOMAIN dst[q][Call(q)] = Cells(call)
  BY CallCells
<1> HIDE DEF call
<1>5. Cells(call) = RingCells(1, Segments(q))
  BY <1>2 DEF Cells
<1>6. s * N + a \in 0 .. Segments(q) * N - 1
  <2>1. N \in Nat \ {0} /\ a \in Nat /\ a <= N - 1 /\ s \in Nat /\ Segments(q) \in Nat /\ s < Segments(q)
    BY <1>2, Numbers
  <2>2. s * N \in Nat /\ Segments(q) * N \in Nat /\ s * N + N <= Segments(q) * N
    BY <2>1, InSegments
  <2> QED
    BY <2>1, <2>2
<1>7. Its(q) = Segments(q) * Iterations
  BY <1>1 DEF Its, Segments
<1> QED
  BY <1>2, <1>3, <1>4, <1>5, <1>6, <1>7 DEF RingCells

(* The iteration in which the total is put over the cell e places back.    *)
At(e) == IF e = N - 1 THEN N - 1 ELSE N + e

LEMMA TotalledAt ==
  /\ \A e \in 0 .. N - 1 : e # N - 2 =>
       At(e) \in 0 .. Iterations - 1 /\ At(e) >= N - 1 /\ Turn(At(e)) = e
  /\ \A i \in 0 .. Iterations - 1 : i >= N - 1 =>
       Turn(i) \in 0 .. N - 1 /\ Turn(i) # N - 2 /\ At(Turn(i)) = i
  /\ \A p, q, s, e : Totalled(p, q, s, e) <=>
       Ahead(p, q) \/ (Level(p, q) /\ Puts(p) > s * Iterations + At(e))
<1>1. N \in Nat /\ N >= 2 /\ Iterations = 2 * N - 2
  BY Numbers
<1>2. ASSUME NEW e \in 0 .. N - 1, e # N - 2
      PROVE  At(e) \in 0 .. Iterations - 1 /\ At(e) >= N - 1 /\ Turn(At(e)) = e
  BY <1>1, <1>2 DEF At, Turn
<1>3. ASSUME NEW i \in 0 .. Iterations - 1, i >= N - 1
      PROVE  Turn(i) \in 0 .. N - 1 /\ Turn(i) # N - 2 /\ At(Turn(i)) = i
  BY <1>1, <1>3 DEF At, Turn
<1>4. \A p, q, s, e : Totalled(p, q, s, e) <=>
        Ahead(p, q) \/ (Level(p, q) /\ Puts(p) > s * Iterations + At(e))
  BY DEF At, Totalled
<1> QED
  BY <1>2, <1>3, <1>4

(* A count that goes on by one passes one iteration. *)
LEMMA Passes ==
  ASSUME NEW M \in Nat \ {0}, NEW s \in Nat, NEW t \in Nat, NEW i \in 0 .. M - 1, NEW j \in 0 .. M - 1
  PROVE  t * M + j + 1 > s * M + i <=> t * M + j > s * M + i \/ (s = t /\ i = j)
<1> DEFINE a == s * M
           b == t * M
<1>1. a \in Nat /\ b \in Nat
  OBVIOUS
<1>2. a + i = b + j => s = t /\ i = j
  BY SameIteration
<1>3. s = t => a = b
  OBVIOUS
<1> HIDE DEF a, b
<1>4. b + j + 1 > a + i <=> b + j > a + i \/ (s = t /\ i = j)
  BY <1>1, <1>2, <1>3
<1> QED
  BY <1>4 DEF a, b

(* The counts of a PE in an iteration. *)
LEMMA CountsIn ==
  ASSUME Placed, NEW p \in PEs, pc[p] \in RingPc
  PROVE  /\ Seg(p) \in Nat /\ Iter(p) \in 0 .. Iterations - 1 /\ Ring(p)
         /\ Ended(p) = Seg(p) * Iterations + Iter(p)
         /\ pc[p] = "rput" => Puts(p) = Seg(p) * Iterations + Iter(p)
         /\ Seg(p) * Iterations \in Nat /\ Seg(p) \in 0 .. Segments(p) - 1
<1>1. /\ Seg(p) \in 0 .. Segments(p) - 1 /\ Iter(p) \in 0 .. Iterations - 1 /\ Ring(p)
      /\ step[p] = Seg(p) * Iterations + Iter(p) /\ step[p] \in Nat
  BY RingIteration DEF Placed, Types
<1>2. Ended(p) = step[p] /\ (pc[p] = "rput" => Puts(p) = step[p])
  BY <1>1 DEF Ended, Puts, RingPc
<1>3. Seg(p) \in Nat /\ Iterations \in Nat
  BY <1>1, Numbers
<1>4. Seg(p) * Iterations \in Nat
  BY <1>3
<1> QED
  BY <1>1, <1>2, <1>3, <1>4

LEMMA TotalledInner ==
  ASSUME Placed, Lockstep, NEW p \in PEs, Step(p), ~LeaveBarrier(p), ~CountCall(p),
         NEW q \in PEs, Ring(q), NEW y \in PEs, NEW s \in Nat, NEW e \in 0 .. N - 1, e # N - 2
  PROVE  Totalled(y, q, s, e)' <=>
           \/ Totalled(y, q, s, e)
           \/ /\ y = p /\ RingPut(p) /\ ~FirstLoop(p) /\ Level(p, q)
              /\ s = Seg(p) /\ e = Turn(Iter(p))
<1>0. /\ At(e) \in 0 .. Iterations - 1 /\ At(e) >= N - 1 /\ Turn(At(e)) = e
      /\ Iterations \in Nat \ {0} /\ N \in Nat /\ N >= 2
  BY TotalledAt, Numbers
<1>1. Inner(p) /\ prog' = prog /\ \A x \in PEs \ {p} : Same(x)
  BY InnerSteps, OthersStay DEF Placed
<1>2. (Level(y, q)' <=> Level(y, q)) /\ (Ahead(y, q)' <=> Ahead(y, q))
  BY <1>1, LiveInner
<1>3. Totalled(y, q, s, e) <=> Ahead(y, q) \/ (Level(y, q) /\ Puts(y) > s * Iterations + At(e))
  BY TotalledAt
<1>4. Totalled(y, q, s, e)' <=> Ahead(y, q)' \/ (Level(y, q)' /\ Puts(y)' > s * Iterations + At(e))
  BY DEF Totalled, At, Iterations
<1>5. ASSUME Level(y, q)
      PROVE  Puts(y)' > s * Iterations + At(e) <=>
               \/ Puts(y) > s * Iterations + At(e)
               \/ /\ y = p /\ RingPut(p) /\ ~FirstLoop(p)
                  /\ s = Seg(p) /\ e = Turn(Iter(p))
  <2>1. Ring(y)
    BY <1>5, LevelPart
  <2>2. Puts(y)' = Puts(y) + (IF y = p /\ RingPut(p) THEN 1 ELSE 0) /\ Puts(y) \in Nat
    BY <2>1, InnerRing, RingNumbers
  <2>3. CASE y = p /\ RingPut(p)
    <3>1. pc[p] = "rput" /\ pc[p] \in RingPc
      BY <2>3 DEF RingPut, Goto, RingPc
    <3>2. /\ Seg(p) \in Nat /\ Iter(p) \in 0 .. Iterations - 1
          /\ Puts(p) = Seg(p) * Iterations + Iter(p)
      BY <3>1, CountsIn
    <3>3. Puts(y)' = Seg(p) * Iterations + Iter(p) + 1
      BY <2>2, <2>3, <3>2
    <3>4. Seg(p) * Iterations + Iter(p) + 1 > s * Iterations + At(e) <=>
            \/ Seg(p) * Iterations + Iter(p) > s * Iterations + At(e)
            \/ s = Seg(p) /\ At(e) = Iter(p)
      BY <1>0, <3>2, Passes
    <3>5. At(e) = Iter(p) <=> ~FirstLoop(p) /\ e = Turn(Iter(p))
      <4>1. At(e) = Iter(p) => ~FirstLoop(p) /\ e = Turn(Iter(p))
        BY <1>0, <3>2 DEF FirstLoop
      <4>2. ~FirstLoop(p) => Iter(p) >= N - 1
        BY <1>0, <3>2 DEF FirstLoop
      <4>3. ~FirstLoop(p) => At(Turn(Iter(p))) = Iter(p)
        BY <3>2, <4>2, TotalledAt
      <4> QED
        BY <4>1, <4>3
    <3> QED
      BY <2>3, <3>2, <3>3, <3>4, <3>5
  <2>4. CASE ~(y = p /\ RingPut(p))
    BY <2>2, <2>4
  <2> QED
    BY <2>3, <2>4
<1> QED
  BY <1>2, <1>3, <1>4, <1>5

LEMMA EndedInner ==
  ASSUME Placed, NEW p \in PEs, Step(p), ~LeaveBarrier(p), ~CountCall(p),
         NEW q \in PEs, Ring(q), NEW s \in Nat, NEW e \in 0 .. N - 2
  PROVE  Ended(q)' > s * Iterations + e <=>
           Ended(q) > s * Iterations + e \/ (q = p /\ RingAdd(p) /\ s = Seg(p) /\ e = Iter(p))
<1>0. e \in 0 .. Iterations - 1 /\ e < N - 1 /\ Iterations \in Nat \ {0}
  BY Numbers
<1>1. /\ Ended(q)' = Ended(q) + IF q = p /\ (RingAdd(p) \/ (RingSeeFlag(p) /\ ~FirstLoop(p)))
                                THEN 1 ELSE 0
      /\ Ended(q) \in Nat
  BY InnerRing, RingNumbers
<1>2. CASE q = p /\ (RingAdd(p) \/ (RingSeeFlag(p) /\ ~FirstLoop(p)))
  <2>1. pc[p] \in RingPc
    BY <1>2 DEF RingAdd, RingSeeFlag, Goto, RingPc
  <2>2. /\ Seg(p) \in Nat /\ Iter(p) \in 0 .. Iterations - 1
        /\ Ended(p) = Seg(p) * Iterations + Iter(p)
    BY <2>1, CountsIn
  <2>3. Ended(q)' = Seg(p) * Iterations + Iter(p) + 1
    BY <1>1, <1>2, <2>2
  <2>4. Seg(p) * Iterations + Iter(p) + 1 > s * Iterations + e <=>
          Seg(p) * Iterations + Iter(p) > s * Iterations + e \/ (s = Seg(p) /\ e = Iter(p))
    BY <1>0, <2>2, Passes
  <2>5. ~FirstLoop(p) => e # Iter(p)
    BY <1>0 DEF FirstLoop
  <2> QED
    BY <1>2, <2>2, <2>3, <2>4, <2>5
<1>3. CASE ~(q = p /\ (RingAdd(p) \/ (RingSeeFlag(p) /\ ~FirstLoop(p))))
  BY <1>1, <1>3
<1> QED
  BY <1>2, <1>3

(* Whose contributions are in the cell e places back. *)
Held(q, s, e) ==
  IF e # N - 2 /\ Totalled(Back(q, 1), q, s, e) THEN PEs
  ELSE IF e # N - 1 /\ Ended(q) > s * Iterations + e THEN Arc(q, e + 1)
  ELSE {q}

SumCell(q, s, e) ==
  dst[q][Call(q)][<<1, s * N + Back(q, e)>>] = Sum(Held(q, s, e), s, Back(q, e), Call(q))

LEMMA RingSumsAre ==
  RingSums <=> \A q \in PEs : Ring(q) /\ pc[q] \notin {"out", "seed"} =>
                 \A s \in 0 .. Segments(q) - 1, e \in 0 .. N - 1 : SumCell(q, s, e)
  BY DEF RingSums, SumCell, Held

LEMMA HeldKept ==
  ASSUME Placed, Lockstep, NEW p \in PEs, Step(p), ~LeaveBarrier(p), ~CountCall(p),
         NEW q \in PEs, Ring(q), NEW s \in Nat, NEW e \in 0 .. N - 1,
         ~(/\ Back(q, 1) = p /\ RingPut(p) /\ ~FirstLoop(p) /\ Level(p, q)
           /\ s = Seg(p) /\ e = Turn(Iter(p))),
         ~(q = p /\ RingAdd(p) /\ s = Seg(p) /\ e = Iter(p))
  PROVE  Held(q, s, e)' = Held(q, s, e)
<1>0. N \in Nat /\ N >= 2 /\ 1 \in 0 .. N - 1
  BY Numbers
<1>1. PICK y \in PEs : y = Back(q, 1)
  BY <1>0, BackPE
<1>2. e # N - 2 => (Totalled(y, q, s, e)' <=> Totalled(y, q, s, e))
  BY <1>1, TotalledInner
<1>3. e # N - 1 => (Ended(q)' > s * Iterations + e <=> Ended(q) > s * Iterations + e)
  <2> SUFFICES ASSUME e # N - 1 PROVE Ended(q)' > s * Iterations + e <=> Ended(q) > s * Iterations + e
    OBVIOUS
  <2>1. e \in 0 .. N - 2
    BY <1>0
  <2> QED
    BY <2>1, EndedInner
<1>4. Held(q, s, e) = IF e # N - 2 /\ Totalled(y, q, s, e) THEN PEs
                      ELSE IF e # N - 1 /\ Ended(q) > s * Iterations + e THEN Arc(q, e + 1)
                      ELSE {q}
  BY <1>1 DEF Held
<1>5. Held(q, s, e)' = IF e # N - 2 /\ Totalled(y, q, s, e)' THEN PEs
                       ELSE IF e # N - 1 /\ Ended(q)' > s * Iterations + e THEN Arc(q, e + 1)
                       ELSE {q}
  BY <1>1 DEF Held, Back, Arc, Iterations, PEs
<1> QED
  BY <1>2, <1>3, <1>4, <1>5

(* p starts with its own contributions. *)
LEMMA SeedSums ==
  ASSUME Placed, Lockstep, RingOrder, NEW p \in PEs, Step(p), Seed(p), Ring(p),
         NEW s \in 0 .. Segments(p) - 1, NEW e \in 0 .. N - 1
  PROVE  SumCell(p, s, e)'
<1> DEFINE d == <<1, s * N + Back(p, e)>>
<1>0. N \in Nat /\ N >= 2 /\ 1 \in 0 .. N - 1 /\ Iterations \in Nat
  BY Numbers
<1>1. pc[p] = "seed" /\ pc[p] \in Phasing /\ ~LeaveBarrier(p) /\ ~CountCall(p)
  BY DEF Seed, Goto, Phasing, LeaveBarrier, CountCall
<1>2. Inner(p) /\ prog' = prog /\ \A x \in PEs \ {p} : Same(x)
  BY <1>1, PhasingInner
<1>3. Segments(p) # 0 /\ phase[p] = 1 /\ Calling(p)
  BY <1>1, InPhaseIs DEF Placed
<1>4. Back(p, e) \in PEs
  BY BackPE
<1>5. s \in Nat /\ d \in DOMAIN dst[p][Call(p)] /\ s * N + Back(p, e) \in 0 .. Segments(p) * N - 1
  <2>1. s \in Nat /\ Segments(p) \in Nat /\ d \in DOMAIN dst[p][Call(p)]
    BY <1>1, <1>4, RingCellIn
  <2>2. s < Segments(p) /\ N \in Nat \ {0}
    BY <1>0, <2>1
  <2>3. s * N \in Nat /\ Segments(p) * N \in Nat /\ s * N + N <= Segments(p) * N
    BY <2>1, <2>2, InSegments
  <2>4. Back(p, e) \in 0 .. N - 1
    BY <1>4, Numbers
  <2>5. s * N + Back(p, e) \in 0 .. Segments(p) * N - 1
    BY <1>0, <2>3, <2>4
  <2> QED
    BY <2>1, <2>5
<1>6. dst'[p][Call(p)][d] = {<<p, d, Call(p)>>}
  <2> DEFINE f == [c \in DOMAIN dst[p][Call(p)] |->
                    IF c \in RingCells(phase[p], Segments(p)) THEN {<<p, c, Call(p)>>}
                    ELSE dst[p][Call(p)][c]]
  <2>1. dst' = [dst EXCEPT ![p] = [dst[p] EXCEPT ![Call(p)] = f]]
    BY <1>3 DEF Seed
  <2>2. d \in RingCells(phase[p], Segments(p))
    BY <1>3, <1>5 DEF RingCells
  <2> HIDE DEF d
  <2>3. f[d] = {<<p, d, Call(p)>>}
    BY <1>5, <2>2
  <2>4. p \in DOMAIN dst /\ Call(p) \in DOMAIN dst[p]
    BY <1>1, CallCells DEF Placed, Types
  <2> HIDE DEF f
  <2> QED
    BY <2>1, <2>3, <2>4
<1>7. Call(p)' = Call(p)
  BY <1>2, InnerPart
<1>8. Held(p, s, e)' = {p}
  <2>1. PICK y \in PEs : y = Back(p, 1)
    BY <1>0, BackPE
  <2>2. e # N - 2 => ~Totalled(y, p, s, e)'
    <3> SUFFICES ASSUME e # N - 2, Totalled(y, p, s, e) PROVE FALSE
      <4>1. ~RingPut(p)
        BY <1>1 DEF RingPut, Goto
      <4> QED
        BY <1>1, <1>5, <2>1, <4>1, TotalledInner
    <3>1. ~Ahead(y, p)
      BY <1>1, PhasingIs
    <3>2. Level(y, p) /\ Puts(y) > s * Iterations + At(e)
      BY <3>1, TotalledAt
    <3>3. Puts(y) \in Nat /\ Puts(y) <= Flags(p) + N - 1
      BY <2>1, <3>2, PredBound
    <3>4. Flags(p) = 0
      BY <1>1 DEF Flags, Ended, RingPc
    <3>5. At(e) >= N - 1 /\ s * Iterations \in Nat /\ At(e) \in 0 .. Iterations - 1
      BY <1>0, <1>5, TotalledAt
    <3> QED
      BY <1>0, <3>2, <3>3, <3>4, <3>5
  <2>3. e # N - 1 => ~(Ended(p)' > s * Iterations + e)
    <3>1. Ended(p)' = 0
      <4>1. Ended(p) = 0
        BY <1>1 DEF Ended, RingPc
      <4>2. ~RingAdd(p) /\ ~RingSeeFlag(p)
        BY <1>1 DEF RingAdd, RingSeeFlag, Goto
      <4> QED
        BY <1>1, <4>1, <4>2, RingPlaces
    <3>2. s * Iterations \in Nat
      BY <1>0, <1>5
    <3> QED
      BY <1>0, <3>1, <3>2
  <2>4. Held(p, s, e)' = IF e # N - 2 /\ Totalled(y, p, s, e)' THEN PEs
                         ELSE IF e # N - 1 /\ Ended(p)' > s * Iterations + e THEN Arc(p, e + 1)
                         ELSE {p}
    BY <2>1 DEF Held, Back, Arc, Iterations, PEs
  <2> QED
    BY <2>2, <2>3, <2>4
<1>9. Sum({p}, s, Back(p, e), Call(p)) = {<<p, d, Call(p)>>}
  BY DEF Sum
<1>10. SumCell(p, s, e)' <=>
         dst'[p][Call(p)'][d] = Sum(Held(p, s, e)', s, Back(p, e), Call(p)')
  BY DEF SumCell, Sum, Back
<1> QED
  BY <1>6, <1>7, <1>8, <1>9, <1>10

(* In the ring two PEs of one call are level. *)
LEMMA RingSameCall ==
  ASSUME Placed, Lockstep, NEW p \in PEs, NEW q \in PEs, pc[p] \in Phasing, Ring(q), Call(p) = Call(q)
  PROVE  Level(p, q)
<1> SUFFICES ASSUME Ahead(p, q) PROVE FALSE
  BY Pairs
<1>1. Ph(q) = 1 /\ Len(Phases(q)) = 1
  BY RingNumbers
<1>2. returned[p] = returned[q] + 1
  BY <1>1 DEF Ahead, Follows
<1>3. returned[p] = returned[q] /\ returned[q] \in Nat
  BY DEF Call, Placed, Types
<1> QED
  BY <1>2, <1>3

LEMMA SumPlus ==
  ASSUME NEW A, NEW B, A \cap B = {}, NEW s, NEW c, NEW n
  PROVE  Plus(Sum(A, s, c, n), Sum(B, s, c, n)) = Sum(A \cup B, s, c, n)
<1>1. Sum(A, s, c, n) \cap Sum(B, s, c, n) = {}
  BY DEF Sum
<1>2. Sum(A, s, c, n) \cup Sum(B, s, c, n) = Sum(A \cup B, s, c, n)
  BY DEF Sum
<1> QED
  BY <1>1, <1>2 DEF Plus

LEMMA ArcNext ==
  ASSUME NEW p \in PEs, NEW i \in 0 .. N - 2
  PROVE  Arc(p, i + 1) = {p} \cup Arc(Back(p, 1), i) /\ p \notin Arc(Back(p, 1), i)
<1>0. N \in Nat /\ N >= 2 /\ i + 1 \in 0 .. N - 1 /\ 0 \in 0 .. N - 1 /\ 1 \in 0 .. N - 1
  BY Numbers
<1>1. ASSUME NEW e \in 0 .. i
      PROVE  /\ Back(Back(p, 1), e) = Back(p, e + 1) /\ e + 1 \in 0 .. i + 1
             /\ e + 1 \in 0 .. N - 1 /\ e + 1 # 0
  <2>1. e \in 0 .. N - 1 /\ 1 + e < N /\ 1 + e = e + 1 /\ e + 1 \in 0 .. i + 1 /\ e + 1 \in 0 .. N - 1
        /\ e + 1 # 0
    BY <1>0
  <2> QED
    BY <1>0, <2>1, BackBack
<1>2. Back(p, 0) = p
  BY <1>0, BackPE
<1>3. p \notin Arc(Back(p, 1), i)
  <2> SUFFICES ASSUME NEW e \in 0 .. i, p = Back(Back(p, 1), e) PROVE FALSE
    BY DEF Arc
  <2>1. Back(p, 0) = Back(p, e + 1)
    BY <1>1, <1>2
  <2> QED
    BY <1>0, <1>1, <2>1, BackPE
<1>4. \A e \in 0 .. i + 1 : e = 0 \/ (e - 1 \in 0 .. i /\ (e - 1) + 1 = e)
  BY <1>0
<1>5. Arc(p, i + 1) \subseteq {p} \cup Arc(Back(p, 1), i)
  <2> SUFFICES ASSUME NEW e \in 0 .. i + 1, e # 0 PROVE Back(p, e) \in Arc(Back(p, 1), i)
    BY <1>2 DEF Arc
  <2>1. PICK f \in 0 .. i : f + 1 = e
    BY <1>4
  <2>2. Back(Back(p, 1), f) = Back(p, e)
    BY <1>1, <2>1
  <2> QED
    BY <2>2 DEF Arc
<1>6. {p} \cup Arc(Back(p, 1), i) \subseteq Arc(p, i + 1)
  <2>1. 0 \in 0 .. i + 1
    BY <1>0
  <2>2. p \in Arc(p, i + 1)
    BY <1>2, <2>1 DEF Arc
  <2>3. Arc(Back(p, 1), i) \subseteq Arc(p, i + 1)
    BY <1>1 DEF Arc
  <2> QED
    BY <2>2, <2>3
<1> QED
  BY <1>3, <1>5, <1>6

(* The cell that p adds to. *)
LEMMA RingAddSum ==
  ASSUME Placed, Lockstep, RingOrder, RingArrays, RingSums, NEW p \in PEs, Step(p), RingAdd(p),
         NEW s, NEW i, s = Seg(p), i = Iter(p)
  PROVE  /\ i \in 0 .. N - 2 /\ RecvChunk(p) = Back(p, i)
         /\ SumCell(p, s, i)'
<1> DEFINE x == s * Iterations
           d == <<1, s * N + Back(p, i)>>
<1>0. N \in Nat /\ N >= 2 /\ 1 \in 0 .. N - 1 /\ 1 \in 1 .. N - 1 /\ Iterations \in Nat /\ Iterations >= N
  BY Numbers
<1>1. pc[p] = "radd" /\ pc[p] \in RingPc /\ pc[p] \in Phasing
      /\ ~LeaveBarrier(p) /\ ~CountCall(p) /\ ~RingPut(p)
  BY DEF RingAdd, Goto, RingPc, Phasing, LeaveBarrier, CountCall, RingPut
<1>2. Inner(p) /\ prog' = prog /\ \A z \in PEs \ {p} : Same(z)
  BY <1>1, PhasingInner
<1>3. /\ s \in Nat /\ s \in 0 .. Segments(p) - 1 /\ i \in 0 .. Iterations - 1 /\ Ring(p)
      /\ Ended(p) = x + i /\ x \in Nat
  BY <1>1, CountsIn
<1>4. i \in 0 .. N - 2 /\ i \in 0 .. N - 1 /\ phase[p] = 1 /\ i # N - 1
  <2>1. FirstLoop(p) /\ phase[p] = 1
    BY <1>1, <1>3, InPhaseIs DEF InPhase, Placed
  <2> QED
    BY <1>0, <1>3, <2>1 DEF FirstLoop
<1>5. RecvChunk(p) = Back(p, i) /\ Back(p, i) \in PEs
  <2>1. Turn(i) = i
    BY <1>0, <1>4 DEF Turn
  <2>2. RecvChunk(p) = Back(p, Turn(i))
    BY <1>3, Chunks
  <2>3. Back(p, i) \in PEs
    BY <1>4, BackPE
  <2> QED
    BY <2>1, <2>2, <2>3
<1>6. Chunk(p, RecvChunk(p)) = d
  BY <1>4, <1>5 DEF Chunk
<1>7. PICK y \in PEs : y = Back(p, 1)
  BY <1>0, BackPE
<1>8. Flags(p) = x + i + 1 /\ Awaited(p) = x + i + 1
  BY <1>1, <1>3 DEF Flags, Awaited
<1>9. Level(y, p) /\ Level(p, y) /\ Ring(y) /\ Call(y) = Call(p)
  <2>1. ~Ahead(y, p)
    BY <1>1, PhasingIs
  <2>2. ~Ahead(p, y)
    <3> SUFFICES ASSUME Ahead(p, y) PROVE FALSE
      OBVIOUS
    <3>1. Awaited(p) <= 1 - 1
      BY <1>0, <1>3, <1>7 DEF RingOrder
    <3> HIDE DEF x
    <3> QED
      BY <1>0, <1>3, <1>4, <1>8, <3>1
  <2>3. Level(y, p) /\ Level(p, y)
    BY <2>1, <2>2 DEF Lockstep, Level
  <2> QED
    BY <1>3, <2>3, LevelPart
<1>10. Puts(y) \in Nat /\ x + i < Puts(y) /\ Puts(y) <= x + i + N
  <2>1. Awaited(p) <= Flags(y) + 1 - 1
    BY <1>0, <1>3, <1>7, <1>9 DEF RingOrder
  <2>2. Puts(y) \in Nat /\ Flags(y) \in Nat /\ Puts(y) >= Flags(y)
    BY <1>9, RingNumbers
  <2>3. Puts(y) <= Flags(p) + N - 1
    BY <1>3, <1>7, <1>9, PredBound
  <2> HIDE DEF x
  <2> QED
    BY <1>0, <1>3, <1>4, <1>8, <2>1, <2>2, <2>3
<1>11. pWrk[p][Back(p, i)] = Sum(Arc(y, i), s, Back(p, i), Call(p))
  <2>1. Live(y, p)
    BY <1>1, <1>9, PhasingIs DEF Live
  <2>2. Puts(y) <= x + i + Iterations
    <3> HIDE DEF x
    <3> QED
      BY <1>0, <1>3, <1>4, <1>10
  <2> QED
    BY <1>3, <1>4, <1>7, <1>9, <1>10, <2>1, <2>2 DEF RingArrays
<1>12. ~(i # N - 2 /\ Totalled(y, p, s, i))
  <2> SUFFICES ASSUME i # N - 2, Totalled(y, p, s, i) PROVE FALSE
    OBVIOUS
  <2>1. ~Ahead(y, p)
    BY <1>1, PhasingIs
  <2>2. Puts(y) > x + At(i)
    BY <2>1, TotalledAt
  <2>3. At(i) = N + i
    BY <1>4 DEF At
  <2> HIDE DEF x
  <2> QED
    BY <1>0, <1>3, <1>4, <1>10, <2>2, <2>3
<1>13. Held(p, s, i) = {p}
  <2>1. ~(Ended(p) > x + i)
    BY <1>3
  <2> QED
    BY <1>7, <1>12, <2>1 DEF Held
<1>14. Held(p, s, i)' = Arc(p, i + 1)
  <2>1. Ended(p)' > s * Iterations + i
    BY <1>1, <1>3, <1>4, EndedInner
  <2>2. ~(i # N - 2 /\ Totalled(y, p, s, i)')
    BY <1>1, <1>3, <1>4, <1>12, TotalledInner
  <2>3. Held(p, s, i)' =
          IF i # N - 2 /\ Totalled(y, p, s, i)' THEN PEs
          ELSE IF i # N - 1 /\ Ended(p)' > s * Iterations + i THEN Arc(p, i + 1)
          ELSE {p}
    BY <1>7 DEF Held, Back, Arc, Iterations, PEs
  <2> QED
    BY <1>4, <2>1, <2>2, <2>3
<1>15. dst'[p][Call(p)][d] = Sum(Arc(p, i + 1), s, Back(p, i), Call(p))
  <2>1. d \in DOMAIN dst[p][Call(p)] /\ Call(p) \in 1 .. Len(prog)
    BY <1>1, <1>3, <1>5, RingCellIn
  <2>2. PutDst(p, p, d, Plus(dst[p][Call(p)][d], pWrk[p][Back(p, i)]))
    BY <1>5, <1>6 DEF RingAdd, Add
  <2>3. dst[p][Call(p)][d] = Sum({p}, s, Back(p, i), Call(p))
    <3>1. SumCell(p, s, i)
      BY <1>1, <1>3, <1>4, RingSumsAre
    <3> QED
      BY <1>13, <3>1 DEF SumCell
  <2> HIDE DEF d
  <2>4. dst'[p][Call(p)][d] = Plus(dst[p][Call(p)][d], pWrk[p][Back(p, i)])
    BY <2>1, <2>2, DstCell DEF Placed
  <2>5. Arc(p, i + 1) = {p} \cup Arc(y, i) /\ {p} \cap Arc(y, i) = {}
    BY <1>4, <1>7, ArcNext
  <2>6. Plus(Sum({p}, s, Back(p, i), Call(p)), Sum(Arc(y, i), s, Back(p, i), Call(p))) =
          Sum({p} \cup Arc(y, i), s, Back(p, i), Call(p))
    BY <2>5, SumPlus
  <2> QED
    BY <1>11, <2>3, <2>4, <2>5, <2>6
<1>16. Call(p)' = Call(p)
  BY <1>2, InnerPart
<1>17. SumCell(p, s, i)' <=>
         dst'[p][Call(p)'][d] = Sum(Held(p, s, i)', s, Back(p, i), Call(p)')
  BY DEF SumCell, Sum, Back
<1> QED
  BY <1>4, <1>5, <1>14, <1>15, <1>16, <1>17

(* The cell that p puts a total over. *)
LEMMA RingPutSum ==
  ASSUME Placed, Lockstep, RingOrder, RingSums, NEW p \in PEs, Step(p), RingPut(p), ~FirstLoop(p),
         NEW q \in PEs, q = Send(p), Level(p, q), Ring(q), pc[q] \notin {"out", "seed"},
         NEW s, NEW t, s = Seg(p), t = Turn(Iter(p))
  PROVE  /\ t \in 0 .. N - 1 /\ SendChunk(p) = Back(q, t) /\ phase[p] = 1
         /\ SumCell(q, s, t)'
<1> DEFINE d == <<1, s * N + Back(q, t)>>
<1>0. N \in Nat /\ N >= 2 /\ 1 \in 0 .. N - 1
  BY Numbers
<1>1. pc[p] = "rput" /\ pc[p] \in RingPc /\ pc[p] \in Phasing /\ ~LeaveBarrier(p) /\ ~CountCall(p)
      /\ ~RingAdd(p)
  BY DEF RingPut, Goto, RingPc, Phasing, LeaveBarrier, CountCall, RingAdd
<1>2. Inner(p) /\ prog' = prog /\ (\A z \in PEs \ {p} : Same(z)) /\ Where(p) /\ Types
  BY <1>1, PhasingInner
<1>3. /\ Iter(p) \in N - 1 .. Iterations - 1 /\ SendChunk(p) = Back(q, t) /\ t \in 0 .. N - 1
      /\ dst[p][Call(p)][Chunk(p, SendChunk(p))] = Sum(PEs, s, Back(q, t), Call(p))
  BY <1>1, RingSecondValue
<1>4. /\ s \in Nat /\ s \in 0 .. Segments(p) - 1 /\ Iter(p) \in 0 .. Iterations - 1 /\ Ring(p)
      /\ phase[p] = 1
  BY <1>1, <1>2, CountsIn, InPhaseIs
<1>5. Call(p) = Call(q) /\ Segments(p) = Segments(q) /\ Call(q)' = Call(q)
  <2>1. Call(p) = Call(q) /\ Phases(p) = Phases(q) /\ Ph(p) = Ph(q)
    BY LevelPart
  <2>2. Ph(p) = phase[p] /\ Ph(q) = phase[q]
    BY <1>1 DEF Ph
  <2>3. q # p
    BY SendIs
  <2> QED
    BY <1>2, <2>1, <2>2, <2>3, StayPart DEF Segments
<1>6. Back(q, t) \in PEs
  BY <1>3, BackPE
<1>7. Chunk(p, SendChunk(p)) = d
  BY <1>3, <1>4 DEF Chunk
<1>8. dst'[q][Call(q)][d] = Sum(PEs, s, Back(q, t), Call(q))
  <2>1. PutDst(p, q, d, dst[p][Call(p)][d])
    BY <1>7 DEF RingPut
  <2>2. d \in DOMAIN dst[q][Call(q)] /\ Call(q) \in 1 .. Len(prog)
    BY <1>4, <1>5, <1>6, RingCellIn
  <2> HIDE DEF d
  <2>3. dst'[q][Call(q)][d] = dst[p][Call(p)][d]
    BY <1>2, <1>5, <2>1, <2>2, DstCell
  <2> QED
    BY <1>3, <1>5, <1>7, <2>3
<1>9. Held(q, s, t)' = PEs
  <2>1. PICK y \in PEs : y = Back(q, 1)
    BY <1>0, BackPE
  <2>2. y = p
    BY <2>1, SendIs
  <2>3. t # N - 2
    BY <1>0, <1>3, <1>4, TotalledAt
  <2>4. Totalled(y, q, s, t)'
    BY <1>1, <1>3, <1>4, <2>2, <2>3, TotalledInner
  <2>5. Held(q, s, t)' = IF t # N - 2 /\ Totalled(y, q, s, t)' THEN PEs
                         ELSE IF t # N - 1 /\ Ended(q)' > s * Iterations + t THEN Arc(q, t + 1)
                         ELSE {q}
    BY <2>1 DEF Held, Back, Arc, Iterations, PEs
  <2> QED
    BY <2>3, <2>4, <2>5
<1>10. SumCell(q, s, t)' <=>
         dst'[q][Call(q)'][d] = Sum(Held(q, s, t)', s, Back(q, t), Call(q)')
  BY DEF SumCell, Sum, Back
<1> QED
  BY <1>3, <1>4, <1>5, <1>8, <1>9, <1>10

LEMMA RingSumsInner ==
  ASSUME Placed, Lockstep, RingOrder, RingArrays, RingSums,
         NEW p \in PEs, Step(p), ~LeaveBarrier(p), ~CountCall(p),
         NEW q \in PEs, Ring(q)', pc'[q] \notin {"out", "seed"},
         NEW s \in 0 .. Segments(q)' - 1, NEW e \in 0 .. N - 1
  PROVE  SumCell(q, s, e)'
<1> DEFINE d == <<1, s * N + Back(q, e)>>
<1>0. N \in Nat /\ N >= 2 /\ 1 \in 0 .. N - 1
  BY Numbers
<1>1. Inner(p) /\ prog' = prog /\ \A x \in PEs \ {p} : Same(x)
  BY InnerSteps, OthersStay DEF Placed
<1>2. Ring(q) /\ Call(q)' = Call(q) /\ Ph(q)' = Ph(q) /\ Phases(q)' = Phases(q)
  <2>1. Ring(q) /\ Call(q)' = Call(q) /\ Ph(q)' = Ph(q)
    BY <1>1, LiveInner
  <2> QED
    BY <1>1, <2>1 DEF Phases
<1>3. pc[q] # "out"
  <2> SUFFICES ASSUME pc[q] = "out" PROVE FALSE
    OBVIOUS
  <2>1. q = p
    BY <1>1 DEF Same
  <2>2. pc[p] \notin Phasing /\ pc[p] # "barrier"
    BY <2>1 DEF Phasing
  <2>3. pc'[p] = "seed"
    BY <1>2, <2>1, <2>2, QuietSteps
  <2> QED
    BY <2>1, <2>3
<1>4. Segments(q)' = Segments(q)
  <2>1. Ph(q) = phase[q]
    BY <1>3 DEF Ph
  <2>2. Ph(q)' = phase'[q]
    BY DEF Ph
  <2> QED
    BY <1>2, <2>1, <2>2 DEF Segments
<1>5. Back(q, e) \in PEs /\ s \in 0 .. Segments(q) - 1
  BY <1>4, BackPE
<1>6. d \in DOMAIN dst[q][Call(q)] /\ Call(q) \in 1 .. Len(prog) /\ ~IsPlain(Call(q)) /\ s \in Nat
  BY <1>2, <1>3, <1>5, RingCellIn
<1>7. CASE pc[q] = "seed"
  <2>1. q = p
    BY <1>1, <1>7 DEF Same
  <2>2. pc[p] \in Phasing
    BY <1>7, <2>1 DEF Phasing
  <2>3. Seed(p)
    BY <1>7, <2>1, <2>2, PhasingActions
       DEF PutWork, PutFlag, RaiseFlag, SeeFlag, AddWork, RingPut, RingPutFlag, RingSeeFlag, RingAdd,
           ResetFlags, Goto
  <2> QED
    BY <1>2, <1>5, <2>1, <2>3, SeedSums
<1>8. CASE pc[q] # "seed" /\ q = p /\ RingAdd(p) /\ s = Seg(p) /\ e = Iter(p)
  BY <1>8, RingAddSum
<1>9. CASE /\ pc[q] # "seed" /\ RingPut(p) /\ ~FirstLoop(p) /\ q = Send(p) /\ Level(p, q)
           /\ s = Seg(p) /\ e = Turn(Iter(p))
  BY <1>2, <1>3, <1>9, RingPutSum
<1>10. CASE /\ pc[q] # "seed"
            /\ ~(q = p /\ RingAdd(p) /\ s = Seg(p) /\ e = Iter(p))
            /\ ~(/\ RingPut(p) /\ ~FirstLoop(p) /\ q = Send(p) /\ Level(p, q)
                 /\ s = Seg(p) /\ e = Turn(Iter(p)))
  <2>1. Back(q, 1) = p => q = Send(p)
    BY SendIs
  <2>2. Held(q, s, e)' = Held(q, s, e)
    BY <1>2, <1>6, <1>10, <2>1, HeldKept
  <2>3. SumCell(q, s, e)
    BY <1>2, <1>3, <1>5, <1>10, RingSumsAre
  <2> HIDE DEF d
  <2>4. ~PhaseWrite(p, q, Call(q), d)
    <3>1. ~(Seed(p) /\ q = p)
      BY <1>10 DEF Seed, Goto
    <3>2. ~(AddWork(p) /\ q = p)
      <4> SUFFICES ASSUME AddWork(p), q = p PROVE FALSE
        OBVIOUS
      <4>1. pc[p] = "add" /\ pc[p] \in Phasing /\ pc[p] \in DirectPc
        BY DEF AddWork, Goto, Phasing, DirectPc
      <4>2. Segments(p) = 0 /\ ~Ring(p)
        BY <4>1, InPhaseIs DEF InPhase, Placed
      <4> QED
        BY <1>2, <4>2
    <3>3. ~(RingAdd(p) /\ q = p /\ d = Chunk(p, RecvChunk(p)))
      <4> SUFFICES ASSUME RingAdd(p), q = p, d = Chunk(p, RecvChunk(p)) PROVE FALSE
        OBVIOUS
      <4>1. PICK i : i = Iter(p)
        OBVIOUS
      <4>2. PICK g : g = Seg(p)
        OBVIOUS
      <4>3. i \in 0 .. N - 2 /\ RecvChunk(p) = Back(p, i)
        BY <4>1, <4>2, RingAddSum
      <4>4. pc[p] \in RingPc /\ pc[p] \in Phasing
        BY DEF RingAdd, Goto, RingPc, Phasing
      <4>5. g \in Nat /\ phase[p] = 1
        BY <4>2, <4>4, CountsIn, InPhaseIs DEF Placed
      <4>6. i \in 0 .. N - 1 /\ Back(p, i) \in PEs
        BY <1>0, <4>3, BackPE
      <4>7. <<1, s * N + Back(p, e)>> = <<1, g * N + Back(p, i)>>
        BY <4>2, <4>3, <4>5 DEF Chunk, d
      <4>8. s = g /\ Back(p, e) = Back(p, i)
        BY <1>5, <1>6, <4>5, <4>6, <4>7, RingCellIs
      <4>9. e = i
        BY <4>6, <4>8, BackPE
      <4> QED
        BY <1>10, <4>1, <4>2, <4>8, <4>9
    <3>4. ~(RingPut(p) /\ ~FirstLoop(p) /\ q = Send(p) /\ Call(q) = Call(p) /\ d = Chunk(p, SendChunk(p)))
      <4> SUFFICES ASSUME RingPut(p), ~FirstLoop(p), q = Send(p), Call(q) = Call(p),
                          d = Chunk(p, SendChunk(p))
                   PROVE  FALSE
        OBVIOUS
      <4>1. PICK t : t = Turn(Iter(p))
        OBVIOUS
      <4>2. PICK g : g = Seg(p)
        OBVIOUS
      <4>3. pc[p] \in RingPc /\ pc[p] \in Phasing
        BY DEF RingPut, Goto, RingPc, Phasing
      <4>4. Level(p, q)
        BY <1>2, <4>3, RingSameCall
      <4>5. t \in 0 .. N - 1 /\ SendChunk(p) = Back(q, t) /\ phase[p] = 1
        BY <1>2, <1>3, <1>10, <4>1, <4>2, <4>4, RingPutSum
      <4>6. g \in Nat
        BY <4>2, <4>3, CountsIn
      <4>7. Back(q, t) \in PEs
        BY <4>5, BackPE
      <4>8. <<1, s * N + Back(q, e)>> = <<1, g * N + Back(q, t)>>
        BY <4>2, <4>5 DEF Chunk, d
      <4>9. s = g /\ Back(q, e) = Back(q, t)
        BY <1>5, <1>6, <4>6, <4>7, <4>8, RingCellIs
      <4>10. e = t
        BY <4>5, <4>9, BackPE
      <4> QED
        BY <1>10, <4>1, <4>2, <4>4, <4>9, <4>10
    <3> QED
      BY <3>1, <3>2, <3>3, <3>4 DEF PhaseWrite
  <2>5. dst'[q][Call(q)][d] = dst[q][Call(q)][d]
    BY <1>6, <2>4, PhaseWrites
  <2>6. SumCell(q, s, e)' <=>
          dst'[q][Call(q)'][d] = Sum(Held(q, s, e)', s, Back(q, e), Call(q)')
    BY DEF SumCell, Sum, Back, d
  <2>7. SumCell(q, s, e) <=> dst[q][Call(q)][d] = Sum(Held(q, s, e), s, Back(q, e), Call(q))
    BY DEF SumCell, d
  <2> QED
    BY <1>2, <2>2, <2>3, <2>5, <2>6, <2>7
<1> QED
  BY <1>7, <1>8, <1>9, <1>10

(* A PE that moves on has put all its totals, or none in its new part. *)
LEMMA TotalledMoves ==
  ASSUME Placed, Lockstep, LaneFlags, NEW p \in PEs, Step(p), LeaveBarrier(p) \/ CountCall(p),
         NEW q \in PEs \ {p}, Ring(q), pc[q] # "out", NEW y \in PEs \ {q},
         NEW s \in 0 .. Segments(q) - 1, NEW e \in 0 .. N - 1, e # N - 2
  PROVE  Totalled(y, q, s, e)' <=> Totalled(y, q, s, e)
<1>0. /\ At(e) \in 0 .. Iterations - 1 /\ Iterations \in Nat \ {0}
  BY TotalledAt, Numbers
<1>1. /\ prog' = prog /\ \A x \in PEs \ {p} : Same(x)
      /\ MovesOn(p) /\ pc'[p] \in {"out", "seed"} /\ (IsPhased(p) => pc[p] = "inside")
  BY MoveIs
<1>2. Types'
  BY TypesStep DEF Placed
<1>3. Totalled(y, q, s, e) <=> Ahead(y, q) \/ (Level(y, q) /\ Puts(y) > s * Iterations + At(e))
  BY TotalledAt
<1>4. Totalled(y, q, s, e)' <=> Ahead(y, q)' \/ (Level(y, q)' /\ Puts(y)' > s * Iterations + At(e))
  BY DEF Totalled, At, Iterations
<1>5. CASE y # p
  <2>1. (Level(y, q)' <=> Level(y, q)) /\ (Ahead(y, q)' <=> Ahead(y, q))
    BY <1>1, <1>5, OthersRelations DEF Placed
  <2>2. Puts(y)' = Puts(y)
    BY <1>1, <1>5, StayPart
  <2> QED
    BY <1>3, <1>4, <2>1, <2>2
<1>6. CASE y = p
  <2>1. CASE Level(p, q) /\ Ahead(p, q)'
    <3>1. Ring(p) /\ Its(p) = Its(q) /\ IsPhased(p)
      BY <2>1, LevelPart DEF Ring
    <3>2. Puts(p) = Its(p)
      <4>1. pc[p] = "inside"
        BY <1>1, <3>1
      <4>2. Its(p) \in Nat
        BY <3>1, RingNumbers
      <4> QED
        BY <4>1, <4>2 DEF Puts, Ended, RingPc
    <3>3. Its(q) = Segments(q) * Iterations /\ Segments(q) \in Nat /\ s \in Nat /\ s < Segments(q)
      <4>1. 0 \in PEs
        BY Numbers
      <4>2. Its(q) = Segments(q) * Iterations /\ Segments(q) \in Nat /\ s \in Nat
        BY <4>1, RingCellIn
      <4> QED
        BY <4>2
    <3>4. s * Iterations \in Nat /\ Segments(q) * Iterations \in Nat
          /\ s * Iterations + Iterations <= Segments(q) * Iterations
      BY <1>0, <3>3, InSegments
    <3>5. Puts(p) > s * Iterations + At(e)
      BY <1>0, <3>1, <3>2, <3>3, <3>4
    <3> QED
      BY <1>3, <1>4, <1>6, <2>1, <3>5
  <2>2. CASE Ahead(q, p) /\ ~Ahead(p, q)'
    <3>1. ~Level(p, q) /\ ~Ahead(p, q)
      BY <2>2, Exclusive DEF Placed
    <3>2. Puts(p)' = 0
      BY <1>1 DEF Puts, Ended, RingPc
    <3>3. s \in Nat
      OBVIOUS
    <3>4. s * Iterations \in Nat
      BY <1>0, <3>3
    <3>5. ~(Puts(p)' > s * Iterations + At(e))
      BY <1>0, <3>2, <3>4
    <3> QED
      BY <1>3, <1>4, <1>6, <2>2, <3>1, <3>5
  <2> QED
    BY <1>1, <1>2, <2>1, <2>2, Moved
<1> QED
  BY <1>5, <1>6

LEMMA RingSumsStep ==
  ASSUME Placed, Lockstep, LaneFlags, RingOrder, RingArrays, RingSums, NEW p \in PEs, Step(p)
  PROVE  RingSums'
<1> SUFFICES ASSUME NEW q \in PEs, Ring(q)', pc'[q] \notin {"out", "seed"},
                    NEW s \in 0 .. Segments(q)' - 1, NEW e \in 0 .. N - 1
             PROVE  SumCell(q, s, e)'
  <2>1. RingSums' <=> \A q \in PEs : Ring(q)' /\ pc'[q] \notin {"out", "seed"} =>
          \A s \in 0 .. Segments(q)' - 1, e \in 0 .. N - 1 : SumCell(q, s, e)'
    BY DEF RingSums, SumCell, Held, Back, Arc, Iterations, PEs, Sum
  <2> QED
    BY <2>1
<1>1. CASE ~LeaveBarrier(p) /\ ~CountCall(p)
  BY <1>1, RingSumsInner
<1>2. CASE LeaveBarrier(p) \/ CountCall(p)
  <2>0. N \in Nat /\ N >= 2 /\ 1 \in 0 .. N - 1 /\ 0 \in 0 .. N - 1
    BY Numbers
  <2>1. /\ dst' = dst /\ prog' = prog /\ \A x \in PEs \ {p} : Same(x)
        /\ pc'[p] \in {"out", "seed"}
    BY <1>2, MoveIs
  <2>2. q # p
    BY <2>1
  <2>3. /\ Ring(q) /\ pc[q] = pc'[q] /\ Segments(q)' = Segments(q) /\ Call(q)' = Call(q)
        /\ Ended(q)' = Ended(q)
    BY <2>1, <2>2, StayPart
  <2>4. SumCell(q, s, e)
    BY <2>3, RingSumsAre
  <2>5. PICK y \in PEs : y = Back(q, 1)
    BY <2>0, BackPE
  <2>6. y # q
    <3>1. Back(q, 0) = q
      BY <2>0, BackPE
    <3> QED
      BY <2>0, <2>5, <3>1, BackPE
  <2>7. e # N - 2 => (Totalled(y, q, s, e)' <=> Totalled(y, q, s, e))
    BY <1>2, <2>2, <2>3, <2>6, TotalledMoves
  <2>8. Held(q, s, e)' = Held(q, s, e)
    <3>1. Held(q, s, e) = IF e # N - 2 /\ Totalled(y, q, s, e) THEN PEs
                          ELSE IF e # N - 1 /\ Ended(q) > s * Iterations + e THEN Arc(q, e + 1)
                          ELSE {q}
      BY <2>5 DEF Held
    <3>2. Held(q, s, e)' = IF e # N - 2 /\ Totalled(y, q, s, e)' THEN PEs
                           ELSE IF e # N - 1 /\ Ended(q)' > s * Iterations + e THEN Arc(q, e + 1)
                           ELSE {q}
      BY <2>5 DEF Held, Back, Arc, Iterations, PEs
    <3> QED
      BY <2>3, <2>7, <3>1, <3>2
  <2>9. SumCell(q, s, e)' <=>
          dst'[q][Call(q)'][<<1, s * N + Back(q, e)>>] =
            Sum(Held(q, s, e)', s, Back(q, e), Call(q)')
    BY DEF SumCell, Sum, Back
  <2> QED
    BY <2>1, <2>3, <2>4, <2>8, <2>9 DEF SumCell
<1> QED
  BY <1>1, <1>2

(* The cell of a direct phase. *)
LEMMA DirectCellIn ==
  ASSUME Placed, NEW q \in PEs, Direct(q), pc[q] # "out"
  PROVE  /\ <<Ph(q), 0>> \in DOMAIN dst[q][Call(q)] /\ Call(q) \in 1 .. Len(prog)
         /\ ~IsPlain(Call(q)) /\ Ph(q) = phase[q] /\ phase[q] \in 1 .. Len(Phases(q))
         /\ Phases(q)[phase[q]] = 0 /\ Op(q) \in {"REDUCE", "SCATTER"}
<1> DEFINE call == prog[Call(q)]
<1>1. Calling(q) /\ IsPhased(q) /\ Phases(q) = call.phases /\ Phases(q) \in Seq(Nat)
      /\ Len(Phases(q)) \in Nat /\ Len(Phases(q)) >= 1 /\ Op(q) \in {"REDUCE", "SCATTER"}
  BY PhasesAre DEF Direct, Phases, Placed, IsPhased
<1>2. Ph(q) = phase[q]
  BY DEF Ph
<1>3. phase[q] \in 1 .. Len(Phases(q))
  BY <1>1 DEF Placed, Where, InPhase, InLanes, InPuts, IsPhased
<1>4. Phases(q)[phase[q]] = 0
  BY <1>2 DEF Direct
<1>5. Call(q) \in 1 .. Len(prog) /\ DOMAIN dst[q][Call(q)] = Cells(call)
  BY CallCells
<1>6. ~IsPlain(Call(q))
  BY <1>1 DEF IsPlain
<1> HIDE DEF call
<1>7. call.phases # <<>> /\ phase[q] \in DOMAIN call.phases /\ call.phases[phase[q]] = 0
  BY <1>1, <1>3, <1>4
<1>8. <<phase[q], 0>> \in Cells(call)
  BY <1>7 DEF Cells
<1> QED
  BY <1>1, <1>2, <1>3, <1>4, <1>5, <1>6, <1>8

(* Whose parts q has added up. *)
Added1(q) == {x \in PEs : x = q \/ Taken(q, x)}
DirectSum(q) ==
  dst[q][Call(q)][<<Ph(q), 0>>] = {Piece(r, q, Call(q), Ph(q)) : r \in Added1(q)}

LEMMA DirectSumsAre ==
  /\ DirectSums <=> \A q \in PEs : Direct(q) /\ pc[q] \notin {"out", "seed"} => DirectSum(q)
  /\ DirectSums' <=> \A q \in PEs : Direct(q)' /\ pc'[q] \notin {"out", "seed"} => DirectSum(q)'
  BY DEF DirectSums, DirectSum, Added1, PEs

(* What p adds up is what the peer has put for this part. *)
LEMMA AddedWork ==
  ASSUME Placed, Lockstep, DirectOrder, DirectArrays, NEW p \in PEs, AddWork(p)
  PROVE  /\ step[p] \in PEs \ {p} /\ ~Taken(p, step[p])
         /\ pWrk[p][step[p]] = {Piece(step[p], p, Call(p), Ph(p))}
<1>1. pc[p] = "add" /\ pc[p] \in Phasing /\ pc[p] \in DirectPc
  BY DEF AddWork, Goto, Phasing, DirectPc
<1>2. Direct(p) /\ step[p] \in PEs \ {p}
  BY <1>1, InPhaseIs DEF InPhase, Placed
<1>3. PICK r \in PEs \ {p} : r = step[p]
  BY <1>2
<1>4. Noticed(p, r) /\ ~Taken(p, r)
  BY <1>1, <1>3, Numbers DEF Noticed, Taken, Ending
<1>5. Level(p, r) /\ Level(r, p)
  <2>1. Level(p, r) \/ Ahead(p, r)
    BY <1>1, Pairs
  <2> QED
    BY <1>2, <1>4, <2>1 DEF DirectOrder, Level
<1>6. Flagged(r, p)
  BY <1>2, <1>4, <1>5 DEF DirectOrder
<1>7. Direct(r) /\ Call(r) = Call(p) /\ Ph(r) = Ph(p)
  BY <1>2, <1>5, LevelPart
<1>8. Live(r, p) /\ Worked(r, p)
  BY <1>1, <1>5, <1>6, PhasingIs DEF Live, Worked
<1> QED
  BY <1>3, <1>4, <1>7, <1>8 DEF DirectArrays

LEMMA DirectSumsInner ==
  ASSUME Placed, Lockstep, DirectOrder, DirectArrays, DirectSums,
         NEW p \in PEs, Step(p), ~LeaveBarrier(p), ~CountCall(p),
         NEW q \in PEs, Direct(q)', pc'[q] \notin {"out", "seed"}
  PROVE  DirectSum(q)'
<1>1. Inner(p) /\ prog' = prog /\ \A x \in PEs \ {p} : Same(x)
  BY InnerSteps, OthersStay DEF Placed
<1>2. Direct(q) /\ Call(q)' = Call(q) /\ Ph(q)' = Ph(q)
  BY <1>1, LiveInner
<1>3. pc[q] # "out"
  <2> SUFFICES ASSUME pc[q] = "out" PROVE FALSE
    OBVIOUS
  <2>1. q = p
    BY <1>1 DEF Same
  <2>2. pc[p] \notin Phasing /\ pc[p] # "barrier"
    BY <2>1 DEF Phasing
  <2>3. pc'[p] = "seed"
    BY <1>2, <2>1, <2>2, QuietSteps
  <2> QED
    BY <2>1, <2>3
<1>4. PICK n, g : n = Call(q) /\ g = Ph(q)
  OBVIOUS
<1>5. /\ <<g, 0>> \in DOMAIN dst[q][n] /\ n \in 1 .. Len(prog) /\ ~IsPlain(n) /\ g = phase[q]
      /\ phase[q] \in 1 .. Len(Phases(q)) /\ Phases(q)[phase[q]] = 0 /\ Op(q) \in {"REDUCE", "SCATTER"}
  BY <1>2, <1>3, <1>4, DirectCellIn
<1>6. DirectSum(q)' <=> dst'[q][n][<<g, 0>>] = {Piece(r, q, n, g) : r \in Added1(q)'}
  <2>1. \A r : Piece(r, q, n, g)' = Piece(r, q, n, g)
    BY <1>1 DEF Piece
  <2> QED
    BY <1>1, <1>2, <1>4 DEF DirectSum, Piece
<1>7. DirectSum(q) <=> dst[q][n][<<g, 0>>] = {Piece(r, q, n, g) : r \in Added1(q)}
  BY <1>4 DEF DirectSum
<1>8. Segments(q) = 0 /\ ~Ring(q)
  BY <1>2, <1>5 DEF Segments, Direct, Ring
<1>9. CASE pc[q] = "seed"
  <2>1. q = p
    BY <1>1, <1>9 DEF Same
  <2>2. pc[p] \in Phasing
    BY <1>9, <2>1 DEF Phasing
  <2>3. Seed(p) /\ ~AddWork(p)
    BY <1>9, <2>1, <2>2, PhasingActions
       DEF PutWork, PutFlag, RaiseFlag, SeeFlag, AddWork, RingPut, RingPutFlag, RingSeeFlag, RingAdd,
           ResetFlags, Goto
  <2>4. \A y \in PEs \ {p} : ~Taken(p, y)'
    <3>1. \A y \in PEs \ {p} : ~Taken(p, y)
      BY <1>9, <2>1 DEF Taken, Ending
    <3> QED
      BY <1>2, <2>1, <2>2, <2>3, <3>1, DirectPlaces
  <2>5. Added1(q)' = {p}
    BY <2>1, <2>4 DEF Added1, PEs
  <2>6. PutDst(p, p, <<g, 0>>, Contribution(p, p))
    BY <1>5, <1>8, <2>1, <2>3 DEF Seed
  <2>7. dst'[q][n][<<g, 0>>] = Contribution(p, p)
    BY <1>4, <1>5, <2>1, <2>6, DstCell DEF Placed
  <2>8. Contribution(p, p) = {Piece(p, p, n, g)}
    BY <1>4, <1>5, <2>1 DEF Contribution, Piece, Reductions, Op
  <2> QED
    BY <1>6, <2>1, <2>5, <2>7, <2>8
<1>10. CASE pc[q] # "seed" /\ AddWork(p) /\ q = p
  <2>1. DirectSum(p)
    BY <1>2, <1>3, <1>10, DirectSumsAre
  <2>2. PICK r \in PEs \ {p} : r = step[p]
    BY <1>10, AddedWork
  <2>3. ~Taken(p, r) /\ pWrk[p][r] = {Piece(r, p, n, g)}
    BY <1>4, <1>10, <2>2, AddedWork
  <2>4. PutDst(p, p, <<g, 0>>, Plus(dst[p][n][<<g, 0>>], pWrk[p][r]))
    BY <1>4, <1>5, <1>10, <2>2 DEF AddWork, Add
  <2>5. dst'[p][n][<<g, 0>>] = Plus(dst[p][n][<<g, 0>>], pWrk[p][r])
    BY <1>4, <1>5, <1>10, <2>4, DstCell DEF Placed
  <2>6. pc[p] \in Phasing
    BY <1>10 DEF AddWork, Goto, Phasing
  <2>7. \A y \in PEs \ {p} : Taken(p, y)' <=> Taken(p, y) \/ y = r
    BY <1>2, <1>10, <2>2, <2>6, DirectPlaces
  <2>8. Added1(p)' = Added1(p) \cup {r} /\ r \notin Added1(p)
    BY <2>2, <2>3, <2>7 DEF Added1, PEs
  <2>9. \A x, y : Piece(x, p, n, g) = Piece(y, p, n, g) => x = y
    BY DEF Piece
  <2>10. Plus({Piece(x, p, n, g) : x \in Added1(p)}, {Piece(r, p, n, g)}) =
           {Piece(x, p, n, g) : x \in Added1(p) \cup {r}}
    <3> DEFINE A == {Piece(x, p, n, g) : x \in Added1(p)}
               B == {Piece(r, p, n, g)}
    <3>1. A \cap B = {}
      BY <2>8, <2>9
    <3>2. A \cup B = {Piece(x, p, n, g) : x \in Added1(p) \cup {r}}
      OBVIOUS
    <3> QED
      BY <3>1, <3>2 DEF Plus
  <2> QED
    BY <1>6, <1>7, <1>10, <2>1, <2>3, <2>5, <2>8, <2>10
<1>11. CASE pc[q] # "seed" /\ ~(AddWork(p) /\ q = p)
  <2>1. DirectSum(q)
    BY <1>2, <1>3, <1>11, DirectSumsAre
  <2>2. \A y \in PEs \ {q} : Taken(q, y)' <=> Taken(q, y)
    <3>1. CASE q # p
      BY <1>1, <3>1, StayPart
    <3>2. CASE q = p /\ pc[p] \in Phasing
      BY <1>2, <1>11, <3>2, DirectPlaces
    <3>3. CASE q = p /\ pc[p] \notin Phasing
      BY <1>2, <3>3, QuietPlaces
    <3> QED
      BY <3>1, <3>2, <3>3
  <2>3. Added1(q)' = Added1(q)
    BY <2>2 DEF Added1, PEs
  <2>4. ~PhaseWrite(p, q, n, <<g, 0>>)
    <3>1. ~(Seed(p) /\ q = p)
      BY <1>11 DEF Seed, Goto
    <3>2. ~(RingAdd(p) /\ q = p)
      <4> SUFFICES ASSUME RingAdd(p), q = p PROVE FALSE
        OBVIOUS
      <4>1. pc[p] \in RingPc
        BY DEF RingAdd, Goto, RingPc
      <4> QED
        BY <1>8, <4>1, CountsIn
    <3>3. ~(RingPut(p) /\ n = Call(p))
      <4> SUFFICES ASSUME RingPut(p), n = Call(p) PROVE FALSE
        OBVIOUS
      <4>1. pc[p] \in RingPc
        BY DEF RingPut, Goto, RingPc
      <4>2. Ring(p)
        BY <4>1, CountsIn
      <4>3. Len(Phases(p)) = 1 /\ Ph(p) = 1
        BY <4>2, RingNumbers
      <4>4. Phases(q) = Phases(p)
        BY <1>4 DEF Phases
      <4>5. phase[q] = 1
        <5>1. Len(Phases(q)) = 1
          BY <4>3, <4>4, Zenon
        <5>2. phase[q] \in 1 .. 1
          BY <1>5, <5>1, Zenon
        <5> QED
          BY <5>2
      <4> QED
        BY <1>5, <4>2, <4>3, <4>4, <4>5 DEF Ring
    <3> QED
      BY <1>11, <3>1, <3>2, <3>3 DEF PhaseWrite
  <2>5. dst'[q][n][<<g, 0>>] = dst[q][n][<<g, 0>>]
    BY <1>5, <2>4, PhaseWrites
  <2> QED
    BY <1>6, <1>7, <2>1, <2>3, <2>5
<1> QED
  BY <1>9, <1>10, <1>11

LEMMA DirectSumsStep ==
  ASSUME Placed, Lockstep, LaneFlags, DirectOrder, DirectArrays, DirectSums, NEW p \in PEs, Step(p)
  PROVE  DirectSums'
<1> SUFFICES ASSUME NEW q \in PEs, Direct(q)', pc'[q] \notin {"out", "seed"}
             PROVE  DirectSum(q)'
  BY DirectSumsAre
<1>1. CASE ~LeaveBarrier(p) /\ ~CountCall(p)
  BY <1>1, DirectSumsInner
<1>2. CASE LeaveBarrier(p) \/ CountCall(p)
  <2>1. /\ dst' = dst /\ prog' = prog /\ \A x \in PEs \ {p} : Same(x)
        /\ pc'[p] \in {"out", "seed"}
    BY <1>2, MoveIs
  <2>2. q # p
    BY <2>1
  <2>3. /\ Direct(q) /\ pc[q] = pc'[q] /\ Ph(q)' = Ph(q) /\ Call(q)' = Call(q)
        /\ \A y \in PEs : Taken(q, y)' <=> Taken(q, y)
    BY <2>1, <2>2, StayPart
  <2>4. DirectSum(q)
    BY <2>3, DirectSumsAre
  <2>5. Added1(q)' = Added1(q)
    BY <2>3 DEF Added1, PEs
  <2> QED
    BY <2>1, <2>3, <2>4, <2>5 DEF DirectSum, Piece
<1> QED
  BY <1>1, <1>2

LEMMA ElementIs ==
  ASSUME NEW S, NEW f \in Seq(S), NEW i \in 1 .. Len(f)
  PROVE  f[i] \in S
  OBVIOUS

(* The cells of a reduction. *)
LEMMA PhaseCells ==
  ASSUME Types, NEW q \in PEs, NEW n \in 1 .. Len(prog), ~IsPlain(n), NEW c \in DOMAIN dst[q][n]
  PROVE  /\ c[1] \in 1 .. Len(prog[n].phases) /\ c[1] \in Nat /\ Len(prog[n].phases) \in Nat
         /\ prog[n].phases[c[1]] \in Nat
         /\ prog[n].phases[c[1]] = 0 => c = <<c[1], 0>> /\ c[2] = 0
         /\ prog[n].phases[c[1]] # 0 =>
              c = <<c[1], c[2]>> /\ c[2] \in 0 .. prog[n].phases[c[1]] * N - 1
         /\ prog[n].op \in {"REDUCE", "SCATTER"}
<1>1. prog[n].op \in {"REDUCE", "SCATTER"} /\ prog[n].phases \in Seq(Nat) /\ Len(prog[n].phases) \in Nat
  BY CallIs DEF IsPlain
<1>2. PICK call : call = prog[n]
  OBVIOUS
<1>3. call.phases \in Seq(Nat) /\ call.phases # <<>> /\ DOMAIN call.phases = 1 .. Len(call.phases)
  BY <1>1, <1>2 DEF IsPlain
<1>4. c \in Cells(call)
  BY <1>2 DEF Types
<1>5. c \in UNION {IF call.phases[f] = 0 THEN {<<f, 0>>} ELSE RingCells(f, call.phases[f]) :
                   f \in DOMAIN call.phases}
  BY <1>3, <1>4 DEF Cells
<1>6. PICK f \in DOMAIN call.phases :
         c \in IF call.phases[f] = 0 THEN {<<f, 0>>} ELSE RingCells(f, call.phases[f])
  BY <1>5
<1>7. f \in 1 .. Len(call.phases) /\ call.phases[f] \in Nat /\ f \in Nat
  BY <1>1, <1>2, <1>3, <1>6
<1>8. c[1] = f
  BY <1>6 DEF RingCells
<1>9. call.phases[f] = 0 => c = <<f, 0>> /\ c[2] = 0
  BY <1>6
<1>10. call.phases[f] # 0 => c = <<f, c[2]>> /\ c[2] \in 0 .. call.phases[f] * N - 1
  BY <1>6 DEF RingCells
<1> QED
  BY <1>1, <1>2, <1>7, <1>8, <1>9, <1>10

Whole(p, n, c) == {<<r, <<c[1], IF prog[n].op = "REDUCE" THEN c[2] ELSE p>>, n>> : r \in PEs}

(* A PE at the end of a phase has the sum of what everyone contributes. *)
LEMMA DirectComplete ==
  ASSUME Placed, DirectSums, NEW p \in PEs, pc[p] \in Ending, Direct(p),
         NEW c \in DOMAIN dst[p][Call(p)], c[1] = phase[p]
  PROVE  dst[p][Call(p)][c] = Whole(p, Call(p), c)
<1>1. pc[p] \notin {"out", "seed"}
  BY DEF Ending
<1>2. /\ Ph(p) = phase[p] /\ Call(p) \in 1 .. Len(prog) /\ ~IsPlain(Call(p))
      /\ Phases(p)[phase[p]] = 0
  BY <1>1, DirectCellIn
<1>3. c = <<phase[p], 0>> /\ c[2] = 0
  BY <1>2, PhaseCells DEF Phases, Placed
<1>4. DirectSum(p)
  BY <1>1, DirectSumsAre
<1>5. \A x \in PEs : Taken(p, x)
  BY DEF Taken
<1>6. Added1(p) = PEs
  BY <1>5 DEF Added1
<1>7. PICK n : n = Call(p)
  OBVIOUS
<1>8. dst[p][n][c] = {Piece(r, p, n, c[1]) : r \in PEs}
  BY <1>2, <1>3, <1>4, <1>6, <1>7 DEF DirectSum
<1>9. \A r : Piece(r, p, n, c[1]) = <<r, <<c[1], IF prog[n].op = "REDUCE" THEN c[2] ELSE p>>, n>>
  BY <1>3 DEF Piece
<1> QED
  BY <1>7, <1>8, <1>9 DEF Whole

LEMMA RingComplete ==
  ASSUME Placed, Lockstep, RingOrder, RingSums, NEW p \in PEs, pc[p] \in Ending, Ring(p),
         NEW c \in DOMAIN dst[p][Call(p)], c[1] = phase[p]
  PROVE  dst[p][Call(p)][c] = Whole(p, Call(p), c)
<1>0. N \in Nat \ {0} /\ N >= 2 /\ Iterations = 2 * N - 2 /\ Iterations \in Nat \ {0}
      /\ 1 \in 1 .. N - 1 /\ 1 \in 0 .. N - 1 /\ 0 \in PEs
  BY Numbers
<1>1. pc[p] \notin {"out", "seed"} /\ pc[p] \notin RingPc
  BY DEF Ending, RingPc
<1>2. /\ Ph(p) = 1 /\ phase[p] = 1 /\ Op(p) = "REDUCE"
  <2>1. Ph(p) = 1 /\ Op(p) = "REDUCE"
    BY RingNumbers
  <2> QED
    BY <1>1, <2>1 DEF Ph
<1>3. /\ Phases(p)[1] # 0 /\ Segments(p) = Phases(p)[1] /\ Calling(p) /\ Phases(p) \in Seq(Nat)
      /\ Len(Phases(p)) = 1 /\ Segments(p) \in Nat
  <2>1. Calling(p) /\ IsPhased(p) /\ Phases(p)[1] # 0 /\ Segments(p) = Phases(p)[1]
    BY <1>2 DEF Ring, Segments
  <2>2. Phases(p) \in Seq(Nat) /\ Len(Phases(p)) = 1
    BY <2>1, PhasesAre, RingNumbers DEF Placed
  <2>3. 1 \in 1 .. Len(Phases(p))
    BY <2>2
  <2>4. Phases(p)[1] \in Nat
    BY <2>2, <2>3, ElementIs
  <2> QED
    BY <2>1, <2>2, <2>4
<1>4. Its(p) = Segments(p) * Iterations
  BY <1>2 DEF Its, Segments
<1>5. Call(p) \in 1 .. Len(prog) /\ ~IsPlain(Call(p))
  <2>1. 0 \in 0 .. Segments(p) - 1
    BY <1>3
  <2> QED
    BY <1>0, <1>1, <2>1, RingCellIn
<1>6. c = <<1, c[2]>> /\ c[2] \in 0 .. Segments(p) * N - 1
  BY <1>2, <1>3, <1>5, PhaseCells DEF Phases, Placed
<1>7. PICK k \in Nat : k = c[2] /\ k < Segments(p) * N
  <2>1. Segments(p) * N \in Nat
    BY <1>0, <1>3
  <2> QED
    BY <1>6, <2>1
<1>8. PICK s \in Nat, a \in 0 .. N - 1 : k = s * N + a
  BY <1>0, DivMod
<1>9. s \in 0 .. Segments(p) - 1
  <2>1. Segments(p) <= s => Segments(p) * N <= s * N
    BY <1>0, <1>3, <1>8, InSegments
  <2>2. s * N \in Nat /\ Segments(p) * N \in Nat
    BY <1>0, <1>3
  <2>3. ~(Segments(p) <= s)
    BY <1>7, <1>8, <2>1, <2>2
  <2> QED
    BY <1>3, <2>3
<1>10. PICK e \in 0 .. N - 1 : a = Back(p, e)
  BY <1>0, <1>8, Numbers, BackAll
<1>11. PICK y \in PEs : y = Back(p, 1)
  BY <1>0, BackPE
<1>12. Ended(p) = Its(p) /\ Awaited(p) = Its(p) /\ Its(p) \in Nat /\ Its(p) > 0
  <2>1. Its(p) \in Nat /\ Its(p) >= Iterations
    BY RingNumbers
  <2>2. Ended(p) = Its(p)
    BY <1>1 DEF Ended
  <2> QED
    BY <1>0, <1>1, <2>1, <2>2 DEF Awaited, RingPc
<1>13. /\ s * Iterations \in Nat /\ Segments(p) * Iterations \in Nat
       /\ s * Iterations + Iterations <= Segments(p) * Iterations
  <2>1. s < Segments(p)
    BY <1>3, <1>9
  <2> QED
    BY <1>0, <1>3, <2>1, InSegments
<1>14. e # N - 2 => Totalled(y, p, s, e)
  <2> SUFFICES ASSUME e # N - 2, ~Ahead(y, p) PROVE Totalled(y, p, s, e)
    BY DEF Totalled
  <2>1. ~Ahead(p, y)
    <3> SUFFICES ASSUME Ahead(p, y) PROVE FALSE
      OBVIOUS
    <3>1. Awaited(p) <= 1 - 1
      BY <1>0, <1>11 DEF RingOrder
    <3> QED
      BY <1>12, <3>1
  <2>2. Level(y, p) /\ Level(p, y)
    BY <2>1 DEF Lockstep, Level
  <2>3. Ring(y) /\ Awaited(p) <= Flags(y) + 1 - 1
    BY <1>0, <1>11, <2>2, LevelPart DEF RingOrder
  <2>4. Puts(y) \in Nat /\ Flags(y) \in Nat /\ Puts(y) >= Flags(y)
    BY <2>3, RingNumbers
  <2>5. At(e) \in 0 .. Iterations - 1
    BY TotalledAt
  <2>6. Puts(y) > s * Iterations + At(e)
    BY <1>0, <1>4, <1>12, <1>13, <2>3, <2>4, <2>5
  <2> QED
    BY <2>2, <2>6, TotalledAt
<1>15. Held(p, s, e) = PEs
  <2>1. CASE e # N - 2
    BY <1>11, <1>14, <2>1 DEF Held
  <2>2. CASE e = N - 2
    <3>1. Ended(p) > s * Iterations + e /\ e # N - 1 /\ e + 1 = N - 1
      BY <1>0, <1>4, <1>12, <1>13, <2>2
    <3>2. Arc(p, e + 1) = PEs
      BY <3>1, ArcAll
    <3> QED
      BY <2>2, <3>1, <3>2 DEF Held
  <2> QED
    BY <2>1, <2>2
<1>16. SumCell(p, s, e)
  BY <1>1, <1>9, RingSumsAre
<1>17. PICK n : n = Call(p)
  OBVIOUS
<1>18. dst[p][n][c] = Sum(PEs, s, a, n)
  BY <1>6, <1>7, <1>8, <1>10, <1>15, <1>16, <1>17 DEF SumCell
<1>19. Sum(PEs, s, a, n) = {<<r, <<1, k>>, n>> : r \in PEs}
  BY <1>8 DEF Sum
<1>20. prog[n].op = "REDUCE" /\ c[1] = 1
  BY <1>2, <1>17 DEF Op
<1> QED
  BY <1>7, <1>17, <1>18, <1>19, <1>20 DEF Whole

PhaseDone(q, n, c) == Over(q, n, c[1]) => dst[q][n][c] = Whole(q, n, c)

LEMMA PhasesDoneAre ==
  /\ PhasesDone <=> \A q \in PEs, n \in 1 .. Len(prog) : ~IsPlain(n) =>
                      \A c \in DOMAIN dst[q][n] : PhaseDone(q, n, c)
  /\ PhasesDone' <=> \A q \in PEs, n \in 1 .. Len(prog') : ~IsPlain(n)' =>
                      \A c \in DOMAIN dst'[q][n] : PhaseDone(q, n, c)'
  BY DEF PhasesDone, PhaseDone, Whole, PEs, IsPlain

(* What is over has been over before, within a part. *)
LEMMA OverInner ==
  ASSUME Placed, NEW p \in PEs, Step(p), ~LeaveBarrier(p), ~CountCall(p),
         NEW q \in PEs, NEW n \in 1 .. Len(prog), NEW g \in Nat \ {0}, Over(q, n, g)'
  PROVE  Over(q, n, g)
<1>1. Inner(p) /\ prog' = prog /\ \A x \in PEs \ {p} : Same(x)
  BY InnerSteps, OthersStay DEF Placed
<1>2. CASE q # p
  BY <1>1, <1>2, StayPart
<1>3. CASE q = p
  <2>1. returned'[p] = returned[p] /\ Call(p)' = Call(p) /\ Ph(p)' = Ph(p)
    BY <1>1, InnerPart
  <2>2. CASE n <= returned'[p]
    BY <1>3, <2>1, <2>2 DEF Over
  <2>3. CASE n = Call(p)' /\ pc'[p] # "out" /\ g < phase'[p]
    <3>1. phase'[p] = Ph(p)
      BY <2>1, <2>3 DEF Ph
    <3>2. pc[p] = "out" => Ph(p) = 1
      BY DEF Ph
    <3>3. pc[p] # "out"
      BY <2>3, <3>1, <3>2
    <3>4. Ph(p) = phase[p]
      BY <3>3 DEF Ph
    <3> QED
      BY <1>3, <2>1, <2>3, <3>1, <3>3, <3>4 DEF Over
  <2> QED
    BY <1>3, <2>2, <2>3 DEF Over
<1> QED
  BY <1>2, <1>3

(* Nobody writes into what is over. *)
LEMMA OverStays ==
  ASSUME Placed, Lockstep, RingOrder, NEW p \in PEs, Step(p),
         NEW q \in PEs, NEW n \in 1 .. Len(prog), ~IsPlain(n), NEW c \in DOMAIN dst[q][n],
         Over(q, n, c[1])
  PROVE  dst'[q][n][c] = dst[q][n][c]
<1>0. c[1] \in Nat /\ c[1] >= 1 /\ returned[p] \in Nat /\ returned[q] \in Nat
      /\ Call(p) = returned[p] + 1 /\ Call(q) = returned[q] + 1 /\ phase[p] \in Nat /\ phase[q] \in Nat
  <2>1. c[1] \in Nat /\ c[1] \in 1 .. Len(prog[n].phases)
    BY PhaseCells DEF Placed
  <2>2. returned[p] \in Nat /\ returned[q] \in Nat /\ phase[p] \in Nat /\ phase[q] \in Nat
    BY DEF Placed, Types
  <2> QED
    BY <2>1, <2>2 DEF Call
<1> SUFFICES ASSUME PhaseWrite(p, q, n, c) PROVE FALSE
  BY PhaseWrites
<1>1. ASSUME q = p, n = Call(p), c[1] = phase[p] PROVE FALSE
  BY <1>0, <1>1 DEF Over
<1>2. c = <<phase[p], 0>> => c[1] = phase[p]
  OBVIOUS
<1>3. \A k : c = Chunk(p, k) => c[1] = phase[p]
  BY DEF Chunk
<1>4. CASE RingPut(p) /\ q = Send(p) /\ n = Call(p) /\ c[1] = phase[p]
  <2>1. pc[p] = "rput" /\ pc[p] \in Phasing
    BY <1>4 DEF RingPut, Goto, Phasing
  <2>2. Live(p, q) /\ Ring(p)
    BY <1>4, <2>1, RingLive
  <2>3. Ph(p) = 1 /\ phase[p] = 1
    BY <2>1, <2>2, InPhaseIs DEF Placed
  <2>4. pc[q] # "out" => Ph(q) = phase[q]
    BY DEF Ph
  <2>5. CASE Level(p, q)
    <3>1. returned[p] = returned[q] /\ Ph(q) = 1
      BY <2>3, <2>5 DEF Level
    <3> QED
      BY <1>0, <1>4, <2>3, <2>4, <3>1 DEF Over
  <2>6. CASE Ahead(p, q)
    <3>1. (returned[p] = returned[q] /\ Ph(p) = Ph(q) + 1) \/ returned[p] = returned[q] + 1
      BY <2>6 DEF Ahead, Follows
    <3>2. Ph(q) \in Nat
      BY DEF Placed, Types, Ph
    <3> QED
      BY <1>0, <1>4, <2>3, <2>4, <3>1, <3>2 DEF Over
  <2> QED
    BY <2>2, <2>5, <2>6 DEF Live
<1> QED
  BY <1>1, <1>2, <1>3, <1>4 DEF PhaseWrite

LEMMA PhasesDoneStep ==
  ASSUME Placed, Lockstep, LaneFlags, RingOrder, DirectSums, RingSums, PhasesDone, NEW p \in PEs, Step(p)
  PROVE  PhasesDone'
<1>0. prog' = prog /\ Types'
  BY OthersStay, TypesStep DEF Placed
<1> SUFFICES ASSUME NEW q \in PEs, NEW n \in 1 .. Len(prog), ~IsPlain(n),
                    NEW c \in DOMAIN dst[q][n], Over(q, n, c[1])'
             PROVE  dst'[q][n][c] = Whole(q, n, c)
  <2>1. \A q \in PEs, n \in 1 .. Len(prog) : DOMAIN dst'[q][n] = DOMAIN dst[q][n]
    <3> TAKE x \in PEs, m \in 1 .. Len(prog)
    <3>1. Cells(prog[m])' = Cells(prog[m])
      BY <1>0
    <3>2. DOMAIN dst[x][m] = Cells(prog[m])
      BY DEF Placed, Types
    <3>3. DOMAIN dst'[x][m] = Cells(prog[m])'
      BY <1>0 DEF Types
    <3> QED
      BY <3>1, <3>2, <3>3
  <2>2. \A n : IsPlain(n)' <=> IsPlain(n)
    BY <1>0 DEF IsPlain
  <2>3. \A q, n, c : Whole(q, n, c)' = Whole(q, n, c)
    BY <1>0 DEF Whole, PEs
  <2> QED
    BY <1>0, <2>1, <2>2, <2>3, PhasesDoneAre DEF PhaseDone
<1>1. c[1] \in Nat \ {0} /\ c[1] \in 1 .. Len(prog[n].phases) /\ Len(prog[n].phases) \in Nat
  BY PhaseCells DEF Placed
<1>2. Over(q, n, c[1]) => dst'[q][n][c] = Whole(q, n, c)
  BY OverStays, PhasesDoneAre DEF PhaseDone
<1>3. CASE ~LeaveBarrier(p) /\ ~CountCall(p)
  BY <1>1, <1>2, <1>3, OverInner
<1>4. CASE LeaveBarrier(p) \/ CountCall(p)
  <2>1. /\ dst' = dst /\ \A x \in PEs \ {p} : Same(x)
        /\ Calling(p) /\ (IsPhased(p) => pc[p] = "inside") /\ pc[p] \in {"inside", "count"}
    BY <1>4, MoveIs
  <2>2. CASE q # p
    BY <1>0, <1>2, <2>1, <2>2, StayPart
  <2>3. CASE q = p
    <3>0. returned[p] \in Nat /\ Call(p) = returned[p] + 1 /\ phase[p] \in Nat
      BY DEF Placed, Types, Call
    <3>1. CASE n # Call(p)
      <4>1. n <= returned'[p] \/ n = Call(p)'
        BY <2>3 DEF Over
      <4>2. returned'[p] \in {returned[p], Call(p)} /\ (returned'[p] = Call(p) => pc'[p] = "out")
        <5>1. CASE CountCall(p)
          BY <5>1 DEF CountCall, Returns, Goto, Placed, Types
        <5>2. CASE LeaveBarrier(p)
          BY <3>0, <5>2, Leaves DEF Placed
        <5> QED
          BY <1>4, <5>1, <5>2
      <4>3. n <= returned[p]
        <5>1. CASE returned'[p] = Call(p)
          <6>1. n <= Call(p)
            BY <2>3, <4>2, <5>1 DEF Over
          <6> QED
            BY <3>0, <3>1, <6>1
        <5>2. CASE returned'[p] = returned[p]
          <6>1. Call(p)' = Call(p)
            BY <5>2 DEF Call
          <6> QED
            BY <3>1, <4>1, <5>2, <6>1
        <5> QED
          BY <4>2, <5>1, <5>2
      <4> QED
        BY <1>2, <2>3, <4>3 DEF Over
    <3>2. CASE n = Call(p)
      <4>1. IsPhased(p) /\ pc[p] = "inside" /\ Phases(p) = prog[n].phases
        BY <2>1, <3>2, PlainIs DEF Phases, Placed
      <4>2. LeaveBarrier(p)
        BY <1>4, <4>1 DEF CountCall, Goto
      <4>3. InPhase(p) /\ phase[p] \in 1 .. Len(Phases(p))
        BY <4>1 DEF Placed, Where, InPhase, InLanes, InPuts, IsPhased, Lanes
      <4>4. c[1] <= phase[p]
        <5>1. CASE phase[p] < Len(Phases(p))
          <6>1. phase'[p] = phase[p] + 1 /\ returned'[p] = returned[p]
            BY <4>2, <5>1, Leaves DEF Placed
          <6>2. ~(n <= returned'[p])
            BY <3>0, <3>2, <6>1
          <6>3. c[1] < phase'[p]
            BY <2>3, <6>2 DEF Over
          <6> QED
            BY <1>1, <3>0, <6>1, <6>3
        <5>2. CASE ~(phase[p] < Len(Phases(p)))
          BY <1>1, <3>0, <4>1, <5>2
        <5> QED
          BY <5>1, <5>2
      <4>5. CASE c[1] < phase[p]
        <5>1. Over(q, n, c[1])
          BY <2>3, <3>2, <4>1, <4>5 DEF Over
        <5> QED
          BY <1>2, <5>1
      <4>6. CASE c[1] = phase[p]
        <5>1. pc[p] \in Ending /\ Ph(p) = phase[p] /\ Phases(p)[phase[p]] = Phases(p)[Ph(p)]
          BY <4>1 DEF Ending, Ph
        <5>2. Direct(p) \/ Ring(p)
          BY <2>1, <4>1, <5>1 DEF Direct, Ring
        <5>3. dst[p][Call(p)][c] = Whole(p, Call(p), c)
          BY <2>3, <3>2, <4>6, <5>1, <5>2, DirectComplete, RingComplete
        <5> QED
          BY <2>1, <2>3, <3>2, <5>3
      <4> QED
        BY <1>1, <3>0, <4>4, <4>5, <4>6
    <3> QED
      BY <3>1, <3>2
  <2> QED
    BY <2>2, <2>3
<1> QED
  BY <1>3, <1>4

(* The destinations are functions on their cells. *)
DstFunctions ==
  \A p \in PEs, n \in 1 .. Len(prog) : dst[p][n] = [c \in Cells(prog[n]) |-> dst[p][n][c]]

LEMMA PutFunction ==
  ASSUME Types, DstFunctions, NEW p \in PEs, NEW q, NEW c, NEW v, PutDst(p, q, c, v), NEW x \in PEs,
         NEW n \in 1 .. Len(prog)
  PROVE  dst'[x][n] = [d \in Cells(prog[n]) |-> dst'[x][n][d]]
<1>1. x \in DOMAIN dst /\ n \in DOMAIN dst[x] /\ DOMAIN dst[x][n] = Cells(prog[n])
  BY DEF Types
<1>2. dst[x][n] = [d \in Cells(prog[n]) |-> dst[x][n][d]]
  BY DEF DstFunctions
<1>3. dst'[x][n] = dst[x][n] \/ dst'[x][n] = [dst[x][n] EXCEPT ![c] = v]
  BY <1>1 DEF PutDst
<1> QED
  BY <1>1, <1>2, <1>3

LEMMA DstFunctionsStep ==
  ASSUME Placed, DstFunctions, NEW p \in PEs, Step(p)
  PROVE  DstFunctions'
<1>0. prog' = prog /\ Types
  BY OthersStay DEF Placed
<1>1. ASSUME NEW x \in PEs, NEW n \in 1 .. Len(prog)
      PROVE  dst'[x][n] = [d \in Cells(prog[n]) |-> dst'[x][n][d]]
  <2>1. dst' = dst => dst'[x][n] = [d \in Cells(prog[n]) |-> dst'[x][n][d]]
    BY DEF DstFunctions
  <2>2. (\E q, c, v : PutDst(p, q, c, v)) => dst'[x][n] = [d \in Cells(prog[n]) |-> dst'[x][n][d]]
    BY <1>0, PutFunction
  <2>3. CASE Enter(p) \/ PutWork(p) \/ PutFlag(p) \/ SeeFlag(p)
    BY <2>1, <2>3 DEF Enter, PutWork, PutFlag, RaiseFlag, SeeFlag, shared
  <2>4. CASE RingPutFlag(p) \/ RingSeeFlag(p) \/ ResetFlags(p)
    BY <2>1, <2>4 DEF RingPutFlag, RingSeeFlag, ResetFlags, shared
  <2>5. CASE \E q \in PEs : ThreadAdd(p, q) \/ ThreadSee(p, q) \/ ThreadReset(p, q)
    BY <2>1, <2>5 DEF ThreadAdd, ThreadSee, ThreadReset, shared
  <2>6. CASE CountCall(p) \/ NothingToPut(p) \/ EnterBarrier(p) \/ LeaveBarrier(p)
    BY <2>1, <2>6 DEF CountCall, NothingToPut, EnterBarrier, LeaveBarrier, shared
  <2>7. CASE AddWork(p) \/ RingAdd(p)
    BY <2>2, <2>7 DEF AddWork, RingAdd, Add
  <2>8. CASE RingPut(p)
    <3>1. dst' = dst \/ \E q, c, v : PutDst(p, q, c, v)
      BY <2>8 DEF RingPut
    <3> QED
      BY <2>1, <2>2, <3>1
  <2>9. CASE \E q \in PEs : ThreadPut(p, q)
    BY <2>2, <2>9 DEF ThreadPut
  <2>10. CASE LinearPut(p)
    BY <2>2, <2>10 DEF LinearPut
  <2>11. CASE Seed(p)
    <3>1. CASE Segments(p) = 0
      BY <2>2, <2>11, <3>1 DEF Seed
    <3>2. CASE Segments(p) # 0
      <4> DEFINE f == [c \in DOMAIN dst[p][Call(p)] |->
                        IF c \in RingCells(phase[p], Segments(p)) THEN {<<p, c, Call(p)>>}
                        ELSE dst[p][Call(p)][c]]
      <4>1. dst' = [dst EXCEPT ![p] = [dst[p] EXCEPT ![Call(p)] = f]]
        BY <2>11, <3>2 DEF Seed
      <4>2. x \in DOMAIN dst /\ n \in DOMAIN dst[x] /\ DOMAIN dst[x][n] = Cells(prog[n])
        BY <1>0 DEF Types
      <4>3. f = [c \in DOMAIN dst[p][Call(p)] |-> f[c]]
        OBVIOUS
      <4> HIDE DEF f
      <4>4. dst'[x][n] = dst[x][n] \/ (x = p /\ n = Call(p) /\ dst'[x][n] = f)
        BY <4>1, <4>2
      <4>5. dst[x][n] = [d \in Cells(prog[n]) |-> dst[x][n][d]]
        BY DEF DstFunctions
      <4> QED
        BY <4>2, <4>3, <4>4, <4>5
    <3> QED
      BY <3>1, <3>2
  <2> QED
    BY <2>3, <2>4, <2>5, <2>6, <2>7, <2>8, <2>9, <2>10, <2>11 DEF Step
<1>2. \A n : Cells(prog[n])' = Cells(prog[n])
  BY <1>0
<1> QED
  BY <1>0, <1>1, <1>2 DEF DstFunctions, PEs

(* At first nothing has been put anywhere. *)
LEMMA InitInvariant ==
  ASSUME Init, \A prg \in Programs : SafeProgram(prg)
  PROVE  Invariant /\ DstFunctions
<1>0. N \in Nat /\ N >= 2 /\ PEs = 0 .. N - 1 /\ Iterations \in Nat
  BY Numbers
<1>1. SafeProgram(prog) /\ Len(prog) \in Nat /\ DOMAIN prog = 1 .. Len(prog)
  BY DEF Init, SafeProgram, IpcProgram
<1>2. Types
  BY <1>0, <1>1 DEF Init, Types, Barrier!Init
<1>3. \A p \in PEs : /\ pc[p] = "out" /\ returned[p] = 0 /\ entered[p] = 0 /\ left[p] = 0 /\ seq[p] = 0
                     /\ Ph(p) = 1 /\ Call(p) = 1
  BY DEF Init, Barrier!Init, Ph, Call, seq
<1>4. \A p \in PEs : Where(p)
  BY <1>1, <1>3 DEF Where
<1>5. Lockstep
  BY <1>3 DEF Lockstep, Level, seq
<1>6. LaneFlags
  <2>1. \A p, q \in PEs : ~Saw(q, p) /\ Adds(p, q) = 0 /\ Resets(q, p) = 0
    BY <1>3 DEF Saw, Adds, Resets, Added
  <2>2. \A p, q \in PEs, b \in 0 .. 1 : alltoall_pSync[q][b * N + p] = 0
    <3> SUFFICES ASSUME NEW p \in PEs, NEW q \in PEs, NEW b \in 0 .. 1
                 PROVE  alltoall_pSync[q][b * N + p] = 0
      OBVIOUS
    <3>1. b * N + p \in 0 .. 2 * N - 1
      BY <1>0
    <3> QED
      BY <3>1 DEF Init
  <2>3. \A j : j \notin 0 .. 0 - 1
    OBVIOUS
  <2> QED
    BY <2>1, <2>2, <2>3 DEF LaneFlags
<1>7. PlainCells
  <2> SUFFICES ASSUME NEW p \in PEs, NEW q \in PEs, NEW n \in 1 .. Len(prog), IsPlain(n)
               PROVE  dst[q][n][<<0, p>>] = IF HasPut(p, q, n) THEN PutTo(p, q, n) ELSE {}
    BY DEF PlainCells
  <2>1. ~HasPut(p, q, n)
    BY <1>3 DEF HasPut, Ending
  <2>2. <<0, p>> \in Cells(prog[n])
    BY DEF Cells, IsPlain
  <2>3. dst[q][n][<<0, p>>] = {}
    BY <1>1, <2>2 DEF Init
  <2> QED
    BY <2>1, <2>3
<1>8. \A p, q \in PEs : ~Noticed(p, q) /\ ~Flagged(p, q) /\ ~Worked(p, q)
  BY <1>3 DEF Noticed, Taken, Flagged, Worked, Ending
<1>9. DirectOrder /\ DirectArrays /\ DirectSums
  BY <1>3, <1>8 DEF DirectOrder, DirectArrays, DirectSums
<1>10. \A p \in PEs : Awaited(p) = 0 /\ Flags(p) = 0 /\ Puts(p) = 0
  BY <1>3 DEF Awaited, Flags, Puts, Ended, RingPc
<1>11. RingOrder
  <2> SUFFICES ASSUME NEW p \in PEs, NEW d \in 1 .. N - 1
               PROVE  /\ Awaited(p) <= Flags(Back(p, d)) + d - 1
                      /\ Awaited(p) <= d - 1
    BY DEF RingOrder
  <2>1. d \in 0 .. N - 1 /\ d \in Nat /\ d >= 1
    BY <1>0
  <2>2. Back(p, d) \in PEs
    BY <2>1, BackPE
  <2> QED
    BY <1>10, <2>1, <2>2
<1>12. RingArrays
  <2> SUFFICES ASSUME NEW q \in PEs
               PROVE  /\ \A s \in Nat, i \in 0 .. Iterations - 1 : ~(s * Iterations + i < Flags(Back(q, 1)))
                      /\ \A s \in Nat, i \in 0 .. N - 2 : ~(s * Iterations + i < Puts(Back(q, 1)))
    BY DEF RingArrays
  <2>1. Back(q, 1) \in PEs
    BY <1>0, BackPE
  <2>2. \A s \in Nat, i \in Nat : ~(s * Iterations + i < 0)
    <3> TAKE s \in Nat, i \in Nat
    <3>1. s * Iterations \in Nat
      BY <1>0
    <3> QED
      BY <3>1
  <2>3. (\A i \in 0 .. Iterations - 1 : i \in Nat) /\ (\A i \in 0 .. N - 2 : i \in Nat)
    BY <1>0
  <2> QED
    BY <1>10, <2>1, <2>2, <2>3
<1>13. RingSums
  BY <1>3 DEF RingSums
<1>14. FlagsDown
  BY DEF FlagsDown, Init
<1>15. PhasesDone
  BY <1>3 DEF PhasesDone, Over
<1>16. DstFunctions
  BY <1>1 DEF DstFunctions, Init
<1> QED
  BY <1>2, <1>4, <1>5, <1>6, <1>7, <1>9, <1>11, <1>12, <1>13, <1>14, <1>15, <1>16 DEF Invariant

LEMMA InvariantStep ==
  ASSUME Invariant, DstFunctions, NEW p \in PEs, Step(p)
  PROVE  (Invariant /\ DstFunctions)'
<1>0. /\ Placed /\ Types /\ Where(p) /\ Lockstep /\ LaneFlags /\ PlainCells
      /\ DirectOrder /\ DirectArrays /\ DirectSums
      /\ RingOrder /\ RingArrays /\ RingSums /\ FlagsDown /\ PhasesDone
  BY DEF Invariant, Placed
<1>1. Types'
  BY <1>0, TypesStep
<1>2. (\A q \in PEs : Where(q))'
  BY <1>0, WhereStep DEF Placed, PEs
<1>3. Lockstep' /\ LaneFlags'
  BY <1>0, LockstepStep, LanesStep
<1>4. PlainCells' /\ DstFunctions'
  BY <1>0, PlainStep, DstFunctionsStep
<1>5. DirectOrder' /\ DirectArrays' /\ DirectSums'
  BY <1>0, DirectOrderStep, DirectArraysStep, DirectSumsStep
<1>6. RingOrder' /\ RingArrays' /\ RingSums'
  BY <1>0, RingOrderStep, RingArraysStep, RingSumsStep
<1>7. FlagsDown' /\ PhasesDone'
  BY <1>0, FlagsDownStep, PhasesDoneStep
<1> QED
  BY <1>1, <1>2, <1>3, <1>4, <1>5, <1>6, <1>7 DEF Invariant

LEMMA InvariantStutter ==
  ASSUME Invariant, DstFunctions, UNCHANGED vars
  PROVE  (Invariant /\ DstFunctions)'
<1>0. /\ prog' = prog /\ pWrk' = pWrk /\ reduce_pSync' = reduce_pSync
      /\ alltoall_pSync' = alltoall_pSync /\ dst' = dst
      /\ alltoall_sequence_number' = alltoall_sequence_number
      /\ returned' = returned /\ pc' = pc /\ phase' = phase /\ step' = step /\ todo' = todo
      /\ entered' = entered /\ left' = left
  BY DEF vars, shared, barrier
<1>1. Types'
  BY <1>0 DEF Invariant, Types, PEs, SafeProgram
<1>2. \A x : Where(x)' <=> Where(x)
  BY <1>0 DEF Where, Calling, Call, InPhase, InLanes, InPuts, IsPhased, Op, Phases, Segments,
              Its, Ph, Iterations, FirstLoop, Iter, PEs
<1>3. \A x : /\ Calling(x)' = Calling(x) /\ Call(x)' = Call(x) /\ Ph(x)' = Ph(x)
             /\ Op(x)' = Op(x) /\ Phases(x)' = Phases(x) /\ Segments(x)' = Segments(x)
  BY <1>0 DEF Calling, Call, Ph, Op, Phases, Segments
<1>4. \A x, y : Follows(x, y)' = Follows(x, y) /\ Added(x, y)' = Added(x, y)
  BY <1>0, <1>3 DEF Follows, Added
<1>5. \A x, y : Level(x, y)' = Level(x, y) /\ Ahead(x, y)' = Ahead(x, y)
  BY <1>0, <1>3, <1>4 DEF Level, Ahead, seq
<1>6. \A x : IsPhased(x)' = IsPhased(x) /\ Direct(x)' = Direct(x) /\ Ring(x)' = Ring(x) /\ Its(x)' = Its(x)
  BY <1>3 DEF IsPhased, Direct, Ring, Its, Iterations
<1>7. \A x, y : /\ Adds(x, y)' = Adds(x, y) /\ Saw(x, y)' = Saw(x, y) /\ Resets(x, y)' = Resets(x, y)
                /\ Live(x, y)' = Live(x, y) /\ Flagged(x, y)' = Flagged(x, y) /\ Worked(x, y)' = Worked(x, y)
                /\ Taken(x, y)' = Taken(x, y)
  BY <1>0, <1>4, <1>5 DEF Adds, Saw, Resets, seq, Live, Before, Flagged, Worked, Taken
<1>8. \A x, y : Noticed(x, y)' = Noticed(x, y)
  BY <1>0, <1>7 DEF Noticed
<1>9. \A x : Ended(x)' = Ended(x)
  BY <1>0, <1>6 DEF Ended
<1>10. \A x : Awaited(x)' = Awaited(x) /\ Flags(x)' = Flags(x) /\ Puts(x)' = Puts(x)
  BY <1>0, <1>9 DEF Awaited, Flags, Puts
<1>11. Lockstep'
  BY <1>5 DEF Invariant, Lockstep, PEs
<1>12. LaneFlags'
  BY <1>0, <1>7 DEF Invariant, LaneFlags, PEs, seq
<1>13. \A x, y, n : HasPut(x, y, n)' = HasPut(x, y, n) /\ PutTo(x, y, n)' = PutTo(x, y, n)
                    /\ IsPlain(n)' = IsPlain(n) /\ \A g : Piece(x, y, n, g)' = Piece(x, y, n, g)
  BY <1>0, <1>3 DEF HasPut, PutTo, IsPlain, Piece
<1>14. PlainCells'
  BY <1>0, <1>13 DEF Invariant, PlainCells, PEs
<1>15. DirectOrder'
  BY <1>5, <1>6, <1>7, <1>8 DEF Invariant, DirectOrder, PEs
<1>16. DirectArrays'
  BY <1>0, <1>3, <1>6, <1>7, <1>13 DEF Invariant, DirectArrays, PEs
<1>17. DirectSums'
  BY <1>0, <1>3, <1>6, <1>7, <1>13 DEF Invariant, DirectSums, PEs
<1>18. RingOrder'
  BY <1>5, <1>6, <1>10 DEF Invariant, RingOrder, PEs, Back
<1>19. RingArrays'
  <2> SUFFICES ASSUME NEW q \in PEs, Ring(Back(q, 1))', Live(Back(q, 1), q)'
               PROVE  /\ \A s \in Nat, i \in 0 .. Iterations - 1 :
                           s * Iterations + i < Flags(Back(q, 1))'
                           /\ Flags(Back(q, 1))' <= s * Iterations + i + Iterations =>
                             reduce_pSync'[q][i] = FlagValue(i, s)
                      /\ \A s \in Nat, i \in 0 .. N - 2 :
                           s * Iterations + i < Puts(Back(q, 1))'
                           /\ Puts(Back(q, 1))' <= s * Iterations + i + Iterations =>
                             pWrk'[q][Back(q, i)] = Sum(Arc(Back(q, 1), i), s, Back(q, i), Call(Back(q, 1))')
    BY DEF RingArrays, Back, FlagValue, Sum, Arc, Iterations, PEs
  <2>1. PICK a : a = Back(q, 1)
    OBVIOUS
  <2>2. Ring(a) /\ Live(a, q)
    BY <1>6, <1>7, <2>1
  <2>3. Flags(a)' = Flags(a) /\ Puts(a)' = Puts(a) /\ Call(a)' = Call(a)
    BY <1>3, <1>10
  <2>4. Flags(Back(q, 1))' = Flags(a) /\ Puts(Back(q, 1))' = Puts(a) /\ Call(Back(q, 1))' = Call(a)
    BY <2>1, <2>3
  <2>5. RingArrays
    BY DEF Invariant
  <2> QED
    BY <1>0, <2>1, <2>2, <2>4, <2>5 DEF RingArrays
<1>20. \A x, y, s, e : Totalled(x, y, s, e)' = Totalled(x, y, s, e)
  BY <1>5, <1>10 DEF Totalled, Iterations
<1>21. RingSums'
  <2> SUFFICES ASSUME NEW q \in PEs, Ring(q)', pc'[q] \notin {"out", "seed"},
                      NEW s \in 0 .. Segments(q)' - 1, NEW e \in 0 .. N - 1
               PROVE  SumCell(q, s, e)'
    <3>1. RingSums' <=> \A q \in PEs : Ring(q)' /\ pc'[q] \notin {"out", "seed"} =>
            \A s \in 0 .. Segments(q)' - 1, e \in 0 .. N - 1 : SumCell(q, s, e)'
      BY DEF RingSums, SumCell, Held, Back, Arc, Iterations, PEs, Sum
    <3> QED
      BY <3>1
  <2>1. SumCell(q, s, e)
    <3>1. Ring(q) /\ pc[q] \notin {"out", "seed"} /\ s \in 0 .. Segments(q) - 1
      BY <1>0, <1>3, <1>6
    <3>2. RingSums
      BY DEF Invariant
    <3> QED
      BY <3>1, <3>2, RingSumsAre
  <2>2. PICK a, t : a = Back(q, 1) /\ t = s * Iterations
    OBVIOUS
  <2>3. Totalled(a, q, s, e)' = Totalled(a, q, s, e) /\ Ended(q)' = Ended(q) /\ Call(q)' = Call(q)
    BY <1>3, <1>9, <1>20
  <2>4. Totalled(Back(q, 1), q, s, e)' = Totalled(Back(q, 1), q, s, e)
    BY <2>2, <2>3
  <2>5. Held(q, s, e)' = Held(q, s, e)
    BY <2>3, <2>4 DEF Held, PEs, Arc, Back, Iterations
  <2> QED
    BY <1>0, <2>1, <2>3, <2>5 DEF SumCell, Sum, Back
<1>22. \A x, y, k : Raised(x, y, k)' = Raised(x, y, k)
  BY <1>6, <1>7, <1>10 DEF Raised, Send, Iterations
<1>23. FlagsDown'
  BY <1>0, <1>7, <1>22 DEF Invariant, FlagsDown, PEs
<1>24. PhasesDone'
  BY <1>0, <1>3, <1>13 DEF Invariant, PhasesDone, Over, PEs
<1>25. DstFunctions'
  <2>1. \A n : Cells(prog[n])' = Cells(prog[n])
    BY <1>0
  <2> QED
    BY <1>0, <2>1 DEF DstFunctions, PEs
<1>26. (\A x \in PEs : Where(x))'
  BY <1>2 DEF Invariant, PEs
<1> QED
  BY <1>1, <1>26, <1>11, <1>12, <1>14, <1>15, <1>16, <1>17, <1>18, <1>19, <1>21, <1>23, <1>24, <1>25
  DEF Invariant

(* The invariant holds from the start and every step of every PE keeps it, *)
(* in programs whose reduces fit one phase and that use alltoall_pSync in  *)
(* one way.                                                                *)
THEOREM CollectivesInductive ==
  ASSUME \A prg \in Programs : IpcProgram(prg),
         \A prg \in Programs : OnePhaseReductions(prg),
         \A prg \in Programs : OneUseOfFlags(prg)
  PROVE  Spec => [](Invariant /\ DstFunctions)
<1>1. Init => Invariant /\ DstFunctions
  BY InitInvariant DEF SafeProgram
<1>2. Invariant /\ DstFunctions /\ [Next]_vars => (Invariant /\ DstFunctions)'
  <2> SUFFICES ASSUME Invariant, DstFunctions, [Next]_vars PROVE (Invariant /\ DstFunctions)'
    OBVIOUS
  <2>1. CASE \E p \in PEs : Step(p)
    BY <2>1, InvariantStep
  <2>2. CASE \E p \in PEs : Spin(p)
    BY <2>2, InvariantStutter DEF Spin
  <2>3. CASE UNCHANGED vars
    BY <2>3, InvariantStutter
  <2> QED
    BY <2>1, <2>2, <2>3 DEF Next
<1> QED
  BY <1>1, <1>2, PTL DEF Spec

(* When a PE has returned from a call, everyone has put there for it.      *)
LEMMA ReturnedPut ==
  ASSUME Placed, Lockstep, NEW p \in PEs, NEW r \in PEs, NEW n \in 1 .. returned[p],
         prog[n].op = "BROADCAST" => r = 0
  PROVE  HasPut(r, p, n)
<1>1. returned[p] \in Nat /\ returned[r] \in Nat /\ Call(r) = returned[r] + 1
  BY DEF Placed, Types, Call
<1>2. CASE Level(p, r)
  BY <1>1, <1>2 DEF Level, HasPut
<1>3. CASE Ahead(r, p)
  <2>1. returned[r] >= returned[p]
    BY <1>1, <1>3 DEF Ahead, Follows
  <2> QED
    BY <1>1, <2>1 DEF HasPut
<1>4. CASE Ahead(p, r)
  <2>1. returned[p] = returned[r] \/ returned[p] = returned[r] + 1
    BY <1>4 DEF Ahead, Follows
  <2>2. n <= returned[r] \/ n = Call(r)
    BY <1>1, <2>1
  <2>3. pc[r] \in {"inside", "await", "areset", "count"} \/ (pc[r] = "aadd" /\ p \notin todo[r])
    BY <1>4 DEF Ahead, Added
  <2> QED
    BY <2>2, <2>3 DEF HasPut, Ending
<1> QED
  BY <1>2, <1>3, <1>4 DEF Lockstep

LEMMA InvariantExact ==
  ASSUME Invariant, DstFunctions
  PROVE  Exact
<1>0. Placed /\ Types /\ Lockstep /\ PlainCells /\ PhasesDone
  BY DEF Invariant, Placed
<1> SUFFICES ASSUME NEW p \in PEs, NEW n \in 1 .. returned[p]
             PROVE  dst[p][n] = Expected(p, n)
  BY DEF Exact
<1>1. n \in 1 .. Len(prog) /\ n <= returned[p]
  BY <1>0 DEF Placed, Types, Where, SafeProgram, IpcProgram
<1> DEFINE Wanted(c) ==
      CASE prog[n].op \in Reductions -> {<<q, c, n>> : q \in PEs}
        [] prog[n].op = "SCATTER" -> {<<q, <<c[1], p>>, n>> : q \in PEs}
        [] prog[n].op \in AllToAlls -> {<<c[2], p, n>>}
        [] prog[n].op \in {"FCOLLECT", "GDA_FCOLLECT"} -> {<<c[2], 0, n>>}
        [] prog[n].op \in {"BROADCAST", "GDA_BROADCAST"} -> IF c[2] = 0 THEN {<<0, 0, n>>} ELSE {}
<1>2. ASSUME NEW c \in Cells(prog[n]) PROVE dst[p][n][c] = Wanted(c)
  <2>1. prog[n].op \in {"REDUCE", "SCATTER", "ALLTOALL", "ALLTOALL_THREADS", "FCOLLECT", "BROADCAST"}
    BY <1>0, <1>1, CallIs
  <2>2. CASE IsPlain(n)
    <3>1. prog[n].op \notin {"REDUCE", "SCATTER"}
      BY <1>0, <1>1, <2>2, CallIs DEF IsPlain
    <3>2. c \in {0} \X PEs
      BY <2>2 DEF IsPlain, Cells
    <3>3. PICK r \in PEs : c = <<0, r>> /\ c[2] = r
      BY <3>2
    <3>4. dst[p][n][c] = IF HasPut(r, p, n) THEN PutTo(r, p, n) ELSE {}
      BY <1>0, <1>1, <2>2, <3>3 DEF PlainCells
    <3>5. HasPut(r, p, n) <=> (prog[n].op = "BROADCAST" => r = 0)
      BY <1>0, ReturnedPut DEF HasPut
    <3>6. CASE prog[n].op = "ALLTOALL" \/ prog[n].op = "ALLTOALL_THREADS"
      <4>1. dst[p][n][c] = {<<r, p, n>>}
        BY <3>4, <3>5, <3>6 DEF PutTo
      <4>2. Wanted(c) = {<<c[2], p, n>>}
        BY <3>6 DEF Reductions, AllToAlls
      <4> QED
        BY <3>3, <4>1, <4>2
    <3>7. CASE prog[n].op = "FCOLLECT"
      <4>1. dst[p][n][c] = {<<r, 0, n>>}
        BY <3>4, <3>5, <3>7 DEF PutTo
      <4>2. Wanted(c) = {<<c[2], 0, n>>}
        BY <3>7 DEF Reductions, AllToAlls
      <4> QED
        BY <3>3, <4>1, <4>2
    <3>8. CASE prog[n].op = "BROADCAST"
      <4>1. dst[p][n][c] = IF r = 0 THEN {<<0, 0, n>>} ELSE {}
        BY <3>4, <3>5, <3>8 DEF PutTo
      <4>2. Wanted(c) = IF c[2] = 0 THEN {<<0, 0, n>>} ELSE {}
        BY <3>8 DEF Reductions, AllToAlls
      <4> QED
        BY <3>3, <4>1, <4>2
    <3> QED
      BY <2>1, <3>1, <3>6, <3>7, <3>8
  <2>3. CASE ~IsPlain(n)
    <3>1. c \in DOMAIN dst[p][n]
      BY <1>0, <1>1 DEF Types
    <3>2. /\ prog[n].op \in {"REDUCE", "SCATTER"} /\ c = <<c[1], c[2]>>
      BY <1>0, <1>1, <2>3, <3>1, PhaseCells
    <3>3. dst[p][n][c] = {<<r, <<c[1], IF prog[n].op = "REDUCE" THEN c[2] ELSE p>>, n>> : r \in PEs}
      BY <1>0, <1>1, <2>3, <3>1 DEF PhasesDone, Over
    <3>4. CASE prog[n].op = "REDUCE"
      <4>1. dst[p][n][c] = {<<r, <<c[1], c[2]>>, n>> : r \in PEs}
        BY <3>3, <3>4
      <4>2. Wanted(c) = {<<q, c, n>> : q \in PEs}
        BY <3>4 DEF Reductions, AllToAlls
      <4> QED
        BY <3>2, <4>1, <4>2
    <3>5. CASE prog[n].op = "SCATTER"
      <4>1. dst[p][n][c] = {<<r, <<c[1], p>>, n>> : r \in PEs}
        BY <3>3, <3>5
      <4>2. Wanted(c) = {<<q, <<c[1], p>>, n>> : q \in PEs}
        BY <3>5 DEF Reductions, AllToAlls
      <4> QED
        BY <4>1, <4>2
    <3> QED
      BY <3>2, <3>4, <3>5
  <2> QED
    BY <2>2, <2>3
<1>3. dst[p][n] = [c \in Cells(prog[n]) |-> dst[p][n][c]]
  BY <1>1 DEF DstFunctions
<1>4. Expected(p, n) = [c \in Cells(prog[n]) |-> Wanted(c)]
  BY DEF Expected
<1> HIDE DEF Wanted
<1>5. [c \in Cells(prog[n]) |-> dst[p][n][c]] = [c \in Cells(prog[n]) |-> Wanted(c)]
  BY <1>2
<1> QED
  BY <1>3, <1>4, <1>5

LEMMA InvariantSeen ==
  ASSUME Invariant
  PROVE  SeenBeforeReset
<1>0. /\ Placed /\ Types /\ Lockstep /\ LaneFlags /\ DirectOrder /\ DirectArrays
      /\ RingOrder /\ RingArrays /\ FlagsDown
  BY DEF Invariant, Placed
<1>00. N \in Nat /\ N >= 2 /\ PEs = 0 .. N - 1 /\ Iterations = 2 * N - 2 /\ Iterations \in Nat
  BY Numbers
<1>1. ASSUME NEW p \in PEs, pc[p] = "reset", Segments(p) = 0, NEW q \in PEs
      PROVE  reduce_pSync[p][q] = IF q = p THEN 0 ELSE 1
  <2>1. pc[p] \in Phasing /\ Where(p)
    BY <1>0, <1>1 DEF Phasing, Placed
  <2>2. Direct(p) /\ ~Ring(p) /\ Before(p) /\ \A r \in PEs : ~Ahead(r, p)
    BY <1>0, <1>1, <2>1, InPhaseIs, PhasingIs
  <2>3. CASE q = p
    <3>1. \A r \in PEs : Live(r, p) => ~Raised(r, p, p)
      <4> SUFFICES ASSUME NEW r \in PEs, Live(r, p), Raised(r, p, p) PROVE FALSE
        OBVIOUS
      <4>1. Level(r, p)
        BY <2>2 DEF Live
      <4>2. ~Ring(r)
        BY <2>2, <4>1, LevelPart
      <4> QED
        BY <4>2 DEF Raised
    <3>2. p \in 0 .. 2 * N - 1
      BY <1>00
    <3> QED
      BY <1>0, <2>3, <3>1, <3>2 DEF FlagsDown
  <2>4. CASE q # p
    <3>1. Noticed(p, q)
      BY <1>1 DEF Noticed, Taken
    <3>2. Level(p, q) /\ Flagged(q, p)
      BY <1>0, <2>1, <2>2, <2>4, <3>1, Pairs DEF DirectOrder
    <3>3. Level(q, p) /\ Direct(q)
      <4>1. Level(q, p)
        BY <3>2 DEF Level
      <4> QED
        BY <2>2, <4>1, LevelPart
    <3>4. Live(q, p)
      BY <2>2, <3>3 DEF Live
    <3> QED
      BY <1>0, <2>4, <3>2, <3>3, <3>4 DEF DirectArrays
  <2> QED
    BY <2>3, <2>4
<1>2. ASSUME NEW p \in PEs, pc[p] = "reset", Segments(p) # 0, NEW k \in 0 .. Iterations - 1
      PROVE  reduce_pSync[p][k] = Segments(p) - 1 + IF k < N - 1 \/ Op(p) = "GDA_REDUCE" THEN 100 ELSE 10
  <2>1. pc[p] \in Phasing /\ pc[p] \notin {"out", "seed", "radd"} /\ pc[p] \notin RingPc /\ Where(p)
    BY <1>0, <1>2 DEF Phasing, RingPc, Placed
  <2>2. /\ Ring(p) /\ Before(p) /\ Segments(p) \in Nat /\ Its(p) = Segments(p) * Iterations
        /\ Op(p) = "REDUCE"
    BY <1>0, <1>2, <2>1, InPhaseIs, PhasingIs
  <2>3. Its(p) \in Nat /\ Its(p) >= Iterations /\ Awaited(p) \in Nat
    BY <1>0, <2>2, RingNumbers
  <2>4. Ended(p) = Its(p)
    BY <2>1 DEF Ended
  <2>5. Awaited(p) = Its(p)
    BY <2>1, <2>3, <2>4 DEF Awaited
  <2>6. PICK a \in PEs : a = Back(p, 1)
    <3>1. 1 \in 0 .. N - 1
      BY <1>00
    <3> QED
      BY <3>1, BackPE
  <2>7. 1 \in 1 .. N - 1
    BY <1>00
  <2>8. ~Ahead(p, a)
    <3>1. Ahead(p, a) => Awaited(p) <= 1 - 1
      BY <1>0, <2>2, <2>6, <2>7 DEF RingOrder
    <3> QED
      BY <1>00, <2>3, <2>5, <3>1
  <2>9. Level(p, a) /\ Level(a, p)
    <3>1. Level(p, a)
      BY <1>0, <2>1, <2>8, Pairs
    <3> QED
      BY <3>1 DEF Level
  <2>10. Awaited(p) <= Flags(a) + 1 - 1
    BY <1>0, <2>2, <2>6, <2>7, <2>9 DEF RingOrder
  <2>11. Ring(a) /\ Its(a) = Its(p)
    BY <2>2, <2>9, LevelPart
  <2>12. Flags(a) \in Nat /\ Puts(a) \in Nat /\ Puts(a) >= Flags(a) /\ Puts(a) <= Its(a)
    BY <1>0, <2>11, RingNumbers
  <2>13. Flags(a) = Segments(p) * Iterations
    BY <2>2, <2>3, <2>5, <2>10, <2>11, <2>12
  <2>14. Live(a, p)
    BY <2>2, <2>9 DEF Live
  <2>15. PICK s \in Nat : s = Segments(p) - 1
    BY <1>2, <2>2
  <2>16. Segments(p) * Iterations = s * Iterations + Iterations /\ s * Iterations \in Nat
    BY <1>00, <2>2, <2>15
  <2>17. s * Iterations + k < Flags(a) /\ Flags(a) <= s * Iterations + k + Iterations
    BY <1>00, <2>13, <2>16
  <2>18. reduce_pSync[p][k] = FlagValue(k, s)
    BY <1>0, <2>6, <2>11, <2>14, <2>17 DEF RingArrays
  <2> QED
    BY <2>2, <2>15, <2>18 DEF FlagValue
<1>3. ASSUME NEW p \in PEs, NEW k \in 0 .. 2 * N - 1 PROVE alltoall_pSync[p][k] <= 1
  <2>1. PICK b \in 0 .. 1, r \in PEs : k = b * N + r
    <3>1. CASE k < N
      <4>1. 0 \in 0 .. 1 /\ k \in PEs /\ k = 0 * N + k
        BY <1>00, <3>1
      <4> QED
        BY <4>1
    <3>2. CASE k >= N
      <4>1. 1 \in 0 .. 1 /\ k - N \in PEs /\ k = 1 * N + (k - N)
        BY <1>00, <3>2
      <4> QED
        BY <4>1
    <3> QED
      BY <1>00, <3>1, <3>2
  <2>2. alltoall_pSync[p][b * N + r] \in {0, 1}
    BY <1>0 DEF LaneFlags
  <2> QED
    BY <2>1, <2>2
<1> QED
  BY <1>1, <1>2, <1>3 DEF SeenBeforeReset

(* In a program whose reduces fit one phase and that uses alltoall_pSync   *)
(* in one way, a PE that has returned from a call finds in its destination *)
(* what every PE contributes to it, each once, and nothing written later   *)
(* gets in: reduce, reduce_scatter, alltoall by either algorithm, fcollect *)
(* and broadcast of the IPC backend.                                       *)
THEOREM CallsExact ==
  ASSUME \A prg \in Programs : IpcProgram(prg),
         \A prg \in Programs : OnePhaseReductions(prg),
         \A prg \in Programs : OneUseOfFlags(prg)
  PROVE  Spec => []Exact
<1>1. Invariant /\ DstFunctions => Exact
  BY InvariantExact
<1> QED
  BY <1>1, CollectivesInductive, PTL

(* In such a program the flags a reduction resets at its end are those it  *)
(* has waited for, so no peer's flag for a later call is lost, and the     *)
(* lanes' counters in alltoall_pSync never pass 1.  The reset of a longer  *)
(* reduce's ring does lose flags of its next phase.                        *)
THEOREM FlagsSeenBeforeReset ==
  ASSUME \A prg \in Programs : IpcProgram(prg),
         \A prg \in Programs : OnePhaseReductions(prg),
         \A prg \in Programs : OneUseOfFlags(prg)
  PROVE  Spec => []SeenBeforeReset
<1>1. Invariant /\ DstFunctions => SeenBeforeReset
  BY InvariantSeen
<1> QED
  BY <1>1, CollectivesInductive, PTL

----------------------------------------------------------------------------
(* The module of both backends.                                            *)

NothingPosted == qps = [p \in PEs |-> [q \in PEs |-> <<>>]]

(* A PE that makes calls of the IPC backend takes no step of the other.    *)
LEMMA NoGdaStep ==
  ASSUME Placed, NEW p \in PEs
  PROVE  ~GdaStep(p) /\ ~GdaSpin(p)
<1>1. Calling(p) => Op(p) \notin GdaOps \cup {"GDA_REDUCE"}
  BY PhasesAre DEF GdaOps, Unicast, Placed
<1>2. pc[p] # "out" => Calling(p)
  BY DEF Placed, Where
<1>3. pc[p] \in {"out", "lput"} \cup Phasing \cup Ending \cup Lanes
  BY DEF Placed, Where, InPhase, InLanes, InPuts
<1>4. pc[p] \notin {"vput", "vctrl", "vsee", "vget", "vwait", "vquiet", "vreset", "vcopy",
                    "gput", "gget", "gcopy", "gquiet", "rquiet"}
  BY <1>3 DEF Phasing, Ending, Lanes
<1>5. ~GdaEnter(p)
  BY <1>1 DEF GdaEnter
<1>6. ~(ThreadPuts(p) \/ PutCtrl(p) \/ SeeCtrl(p) \/ GetBlocks(p) \/ SeeFlags(p) \/ QuietAll(p)
        \/ TakeFlagsDown(p) \/ CopyOut(p))
  BY <1>4 DEF Goto, ThreadPuts, PutCtrl, SeeCtrl, GetBlocks, SeeFlags, QuietAll, TakeFlagsDown, CopyOut
<1>7. ~(PutToAll(p) \/ GetFromRoot(p) \/ CopyAtRoot(p) \/ QuietThenSync(p) \/ RingQuiet(p))
  BY <1>4 DEF Goto, PutToAll, GetFromRoot, CopyAtRoot, QuietThenSync, RingQuiet
<1>8. ~RingPost(p)
  BY <1>1, <1>2 DEF RingPost, GdaRing
<1>9. ~GdaSpin(p)
  BY <1>4 DEF GdaSpin
<1> QED
  BY <1>5, <1>6, <1>7, <1>8, <1>9 DEF GdaStep

(* Where only IPC calls are made, under the same conditions, the module of *)
(* both backends takes the steps of IpcCollectives and no other: what is   *)
(* proved of Spec holds of AllSpec.                                        *)
THEOREM IpcCallsAlone ==
  ASSUME \A prg \in Programs : IpcProgram(prg),
         \A prg \in Programs : OnePhaseReductions(prg),
         \A prg \in Programs : OneUseOfFlags(prg)
  PROVE  AllSpec => Spec /\ []NothingPosted
<1> DEFINE Inv == Invariant /\ DstFunctions /\ NothingPosted
<1>1. AllInit => Inv /\ Init
  BY InitInvariant DEF AllInit, NothingPosted, SafeProgram
<1>2. Inv /\ [AllNext]_allVars => [Next]_vars /\ Inv'
  <2> SUFFICES ASSUME Inv, [AllNext]_allVars PROVE [Next]_vars /\ Inv'
    OBVIOUS
  <2>1. Placed
    BY DEF Invariant, Placed
  <2>2. \A p, q \in PEs : ~Execute(p, q)
    BY DEF Execute, NothingPosted
  <2>3. CASE \E p \in PEs : SharedStep(p)
    <3>1. qps' = qps /\ \E p \in PEs : Step(p)
      BY <2>3 DEF SharedStep
    <3>2. (Invariant /\ DstFunctions)'
      BY <3>1, InvariantStep
    <3>3. Next
      BY <3>1 DEF Next
    <3> QED
      BY <3>1, <3>2, <3>3 DEF NothingPosted, PEs
  <2>4. CASE UNCHANGED vars /\ qps' = qps
    <3>1. (Invariant /\ DstFunctions)'
      BY <2>4, InvariantStutter
    <3> QED
      BY <2>4, <3>1 DEF NothingPosted, PEs
  <2>5. CASE \E p \in PEs : Spin(p) /\ UNCHANGED qps
    BY <2>4, <2>5 DEF Spin
  <2>6. CASE UNCHANGED allVars
    <3>1. UNCHANGED vars /\ qps' = qps
      BY <2>6 DEF allVars
    <3> QED
      BY <2>4, <3>1
  <2> QED
    BY <2>1, <2>2, <2>3, <2>5, <2>6, NoGdaStep DEF AllNext
<1> HIDE DEF Inv
<1>3. Inv => NothingPosted
  BY DEF Inv
<1> QED
  BY <1>1, <1>2, <1>3, PTL DEF AllSpec, Spec

==============================================================================
