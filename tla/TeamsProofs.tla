---------------------------- MODULE TeamsProofs ----------------------------
(***************************************************************************)
(* Proofs about Bootstrap and Teams, for every number of ranks, capacity   *)
(* of the sockets and legal program.  The plan of a program is the list of *)
(* its exchanges.  Each connection carries, in order, what has been sent   *)
(* on it and not yet received; a receive finds at the head of its          *)
(* connection what the plan has the peer send in the same round; hence the *)
(* blocks of an exchange are those of its members, and members of a new    *)
(* team take the same slot.                                                *)
(***************************************************************************)
EXTENDS TeamPrograms, FiniteSetTheorems, TLAPS

----------------------------------------------------------------------------
(* Arithmetic.                                                             *)

(* A product with a number that is not negative keeps order. *)
LEMMA Monotone ==
  ASSUME NEW M \in Nat, NEW a \in Int, NEW b \in Int, a <= b
  PROVE  M * a <= M * b
  OBVIOUS

(* Quotient and remainder make up the number. *)
LEMMA DivMod ==
  ASSUME NEW M \in Nat \ {0}, NEW a \in Int
  PROVE  /\ a = M * (a \div M) + (a % M)
         /\ a \div M \in Int /\ a % M \in 0 .. M - 1
  OBVIOUS

(* A number has one quotient and one remainder. *)
LEMMA ModShift ==
  ASSUME NEW M \in Nat \ {0}, NEW x \in 0 .. M - 1, NEW q \in Int
  PROVE  (x + M * q) % M = x /\ (x + M * q) \div M = q
<1> DEFINE y == x + M * q
           z == y % M
           d == y \div M
<1>1. M * q \in Int /\ y \in Int
  OBVIOUS
<1>2. y = M * d + z /\ d \in Int /\ z \in 0 .. M - 1
  BY <1>1, DivMod
<1>3. y = M * q + x
  BY <1>1
<1> HIDE DEF y, z, d
<1>4. M * q - M * d < M /\ M * d - M * q < M /\ M * d \in Int /\ M * q \in Int
  BY <1>1, <1>2, <1>3
<1>5. ~(q + 1 <= d)
  <2>1. M * (q + 1) = M * q + M
    BY <1>1
  <2> QED
    BY <1>2, <1>4, <2>1, Monotone
<1>6. ~(d + 1 <= q)
  <2>1. M * (d + 1) = M * d + M
    BY <1>2
  <2> QED
    BY <1>2, <1>4, <2>1, Monotone
<1>7. q = d
  BY <1>2, <1>5, <1>6
<1> QED
  BY <1>1, <1>2, <1>3, <1>7 DEF y, z, d

(* Places in a circle of m: d further, and d back. *)
Up(i, d, m) == IF i + d < m THEN i + d ELSE i + d - m
Down(i, d, m) == IF i >= d THEN i - d ELSE i - d + m

(* The remainders the exchanges take are places in a circle. *)
LEMMA Circle ==
  ASSUME NEW m \in Nat \ {0}, NEW i \in 0 .. m - 1, NEW d \in 0 .. m
  PROVE  /\ (i + d) % m = Up(i, d, m) /\ Up(i, d, m) \in 0 .. m - 1
         /\ (i - d) % m = Down(i, d, m) /\ Down(i, d, m) \in 0 .. m - 1
<1>1. Up(i, d, m) \in 0 .. m - 1 /\ Down(i, d, m) \in 0 .. m - 1
  BY DEF Up, Down
<1>2. (i + d) % m = Up(i, d, m)
  <2>1. /\ (Up(i, d, m) + m * 0) % m = Up(i, d, m)
        /\ (Up(i, d, m) + m * 1) % m = Up(i, d, m)
    <3> DEFINE u == Up(i, d, m)
    <3>1. u \in 0 .. m - 1
      BY <1>1
    <3> HIDE DEF u
    <3>2. (u + m * 0) % m = u
      BY <3>1, ModShift
    <3>3. (u + m * 1) % m = u
      BY <3>1, ModShift
    <3> QED
      BY <3>2, <3>3 DEF u
  <2>2. m * 0 = 0 /\ m * 1 = m
    OBVIOUS
  <2>3. i + d = Up(i, d, m) + m * 0 \/ i + d = Up(i, d, m) + m * 1
    BY <2>2 DEF Up
  <2> QED
    BY <2>1, <2>3
<1>3. (i - d) % m = Down(i, d, m)
  <2>1. /\ (Down(i, d, m) + m * 0) % m = Down(i, d, m)
        /\ (Down(i, d, m) + m * (-1)) % m = Down(i, d, m)
    <3> DEFINE u == Down(i, d, m)
    <3>1. u \in 0 .. m - 1
      BY <1>1
    <3> HIDE DEF u
    <3>2. (u + m * 0) % m = u
      BY <3>1, ModShift
    <3>3. -1 \in Int /\ (u + m * (-1)) % m = u
      BY <3>1, ModShift
    <3> QED
      BY <3>2, <3>3 DEF u
  <2>2. m * 0 = 0 /\ m * (-1) = -m
    OBVIOUS
  <2>3. i - d = Down(i, d, m) + m * 0 \/ i - d = Down(i, d, m) + m * (-1)
    BY <2>2 DEF Down
  <2> QED
    BY <2>1, <2>3
<1> QED
  BY <1>1, <1>2, <1>3

----------------------------------------------------------------------------
(* The exchanges a program makes: of what kind, and among whom.            *)

MembersOf(g) == {g[i] : i \in 1 .. Len(g)}
IndexIn(g, p) == CHOOSE i \in 0 .. Len(g) - 1 : g[i + 1] = p

(* A plan gives the exchange of a call; the first is made when the library *)
(* starts; the ring serves all ranks.                                      *)
IsPlan(X) ==
  /\ \A c \in DOMAIN X :
       /\ c \in Nat \ {0}
       /\ X[c].what \in Exchanges /\ X[c].group \in Groups
       /\ X[c].what = "ALLGATHER" => X[c].group = World
       /\ \A r \in Ranks : X[c].slots[r] \in SUBSET Int
  /\ 1 \in DOMAIN X /\ X[1].what = "ALLGATHER"

(* A place in a list without repetition is the index of its rank. *)
LEMMA Index ==
  ASSUME NEW g \in Groups, NEW i \in 0 .. Len(g) - 1
  PROVE  IndexIn(g, g[i + 1]) = i /\ g[i + 1] \in Ranks
<1>1. i + 1 \in 1 .. Len(g) /\ g \in Seq(Ranks)
  BY DEF Groups
<1>2. \A j \in 0 .. Len(g) - 1 : g[j + 1] = g[i + 1] => j = i
  BY <1>1 DEF Groups
<1> QED
  BY <1>1, <1>2 DEF IndexIn

(* Every member has an index in its group. *)
LEMMA MemberIndex ==
  ASSUME NEW g \in Groups, NEW p \in MembersOf(g)
  PROVE  /\ IndexIn(g, p) \in 0 .. Len(g) - 1 /\ g[IndexIn(g, p) + 1] = p
         /\ p \in Ranks /\ Len(g) \in Nat \ {0}
<1>1. g \in Seq(Ranks)
  BY DEF Groups
<1>2. PICK j \in 1 .. Len(g) : p = g[j]
  BY DEF MembersOf
<1>3. j - 1 \in 0 .. Len(g) - 1 /\ (j - 1) + 1 = j /\ Len(g) \in Nat \ {0}
  BY <1>1, <1>2
<1>4. IndexIn(g, g[(j - 1) + 1]) = j - 1 /\ g[(j - 1) + 1] \in Ranks
  BY <1>3, Index
<1> QED
  BY <1>2, <1>3, <1>4

(* No more members than ranks. *)
LEMMA GroupSize ==
  ASSUME NEW g \in Groups
  PROVE  Len(g) \in Nat /\ Len(g) <= nRanks
<1>1. g \in Seq(Ranks) /\ Len(g) \in Nat
  BY DEF Groups
<1>2. IsFiniteSet(Ranks) /\ Cardinality(Ranks) = nRanks
  <2>1. 0 \in Int /\ nRanks - 1 \in Int
    BY TeamsAssumption
  <2>2. IsFiniteSet(0 .. nRanks - 1) /\ Cardinality(0 .. nRanks - 1) = nRanks
    BY <2>1, FS_Interval, TeamsAssumption
  <2> QED
    BY <2>2 DEF Ranks
<1>3. IsFiniteSet(1 .. Len(g)) /\ Cardinality(1 .. Len(g)) = Len(g)
  BY <1>1, FS_Interval
<1>4. g \in [1 .. Len(g) -> Ranks]
  BY <1>1
<1>5. ~(Cardinality(Ranks) < Cardinality(1 .. Len(g)))
  <2> SUFFICES ASSUME Cardinality(Ranks) < Cardinality(1 .. Len(g)) PROVE FALSE
    OBVIOUS
  <2>1. \E x, y \in 1 .. Len(g) : x # y /\ g[x] = g[y]
    BY <1>2, <1>3, <1>4, FS_PigeonHole, Zenon
  <2> QED
    BY <2>1 DEF Groups
<1> QED
  BY <1>1, <1>2, <1>3, <1>5, TeamsAssumption

(* The world is a group, each rank at its own index. *)
LEMMA WorldGroup ==
  /\ World \in Groups /\ Len(World) = nRanks /\ MembersOf(World) = Ranks
  /\ \A p \in Ranks : IndexIn(World, p) = p /\ World[p + 1] = p
<1>1. World \in Seq(Ranks) /\ Len(World) = nRanks
  <2>1. World \in [1 .. nRanks -> Ranks] /\ nRanks \in Nat
    BY TeamsAssumption DEF World, Ranks
  <2>2. World \in Seq(Ranks)
    BY <2>1
  <2> QED
    BY <2>1, <2>2
<1>2. World \in Groups
  <2>1. \A i, j \in 1 .. nRanks : World[i] = World[j] => i = j
    BY TeamsAssumption DEF World
  <2> QED
    BY <1>1, <2>1 DEF Groups
<1>3. \A p \in Ranks : World[p + 1] = p /\ p \in 0 .. Len(World) - 1 /\ p + 1 \in 1 .. Len(World)
  BY <1>1, TeamsAssumption DEF World, Ranks
<1>4. \A p \in Ranks : IndexIn(World, p) = p
  <2> SUFFICES ASSUME NEW p \in Ranks PROVE IndexIn(World, p) = p
    OBVIOUS
  <2>1. IndexIn(World, World[p + 1]) = p
    BY <1>2, <1>3, Index
  <2> QED
    BY <1>3, <2>1
<1>5. MembersOf(World) = Ranks
  <2>1. MembersOf(World) \subseteq Ranks
    BY <1>1 DEF MembersOf
  <2>2. Ranks \subseteq MembersOf(World)
    BY <1>3 DEF MembersOf
  <2> QED
    BY <2>1, <2>2
<1> QED
  BY <1>1, <1>2, <1>3, <1>4, <1>5

(* The sends and receives of rank p in an exchange, as the code makes them.*)
Gathers == {"ALLGATHER", "GROUPGATHER"}
TagOf(x, j) == IF x.what = "GROUPGATHER" THEN j ELSE RingTag
Jump(i, k) == IF k <= i THEN k ELSE k + 1

InsOf(x, p, k) ==
  LET g == x.group
      m == Len(g)
      i == IndexIn(g, p)
      j == (k - 1) \div 2
  IN IF x.what = "BARRIER"
     THEN IF k < m THEN Instr(TRUE, g[Jump(i, k)], 0, nRanks)
                   ELSE Instr(FALSE, g[Jump(i, k - m + 1)], 0, nRanks)
     ELSE IF x.what = "ALLTOALL"
     THEN IF k % 2 = 1
          THEN Instr(TRUE, g[Up(i, j + 1, m) + 1], j + 1, Up(i, j + 1, m))
          ELSE Instr(FALSE, g[Down(i, j + 1, m) + 1], j + 1, Down(i, j + 1, m))
     ELSE IF k % 2 = 1
          THEN Instr(TRUE, g[Up(i, 1, m) + 1], TagOf(x, j), Down(i, j, m))
          ELSE Instr(FALSE, g[Down(i, 1, m) + 1], TagOf(x, j), Down(i, j + 1, m))

StepsOf(x) == 2 * (Len(x.group) - 1)

(* What rank p executes is the instruction of the exchange it is in. *)
LEMMA NowIs ==
  ASSUME NEW x, x.group \in Groups, x.what \in Exchanges, NEW p \in MembersOf(x.group),
         op[p] = x.what, group[p] = x.group, at[p] \in 1 .. StepsOf(x)
  PROVE  Now(p) = InsOf(x, p, at[p]) /\ Steps(p) = StepsOf(x)
<1> DEFINE g == x.group
           m == Len(g)
           i == IndexIn(g, p)
           k == at[p]
           j == (k - 1) \div 2
<1>1. /\ i \in 0 .. m - 1 /\ m \in Nat \ {0} /\ Size(p) = m /\ Pos(p) = i
      /\ Steps(p) = StepsOf(x)
  BY MemberIndex DEF Size, Pos, IndexIn, Steps, StepsOf
<1>2. k \in 1 .. 2 * (m - 1) /\ j \in 0 .. m - 2 /\ j + 1 \in 0 .. m /\ j \in 0 .. m /\ 1 \in 0 .. m
  <2>1. k \in 1 .. 2 * (m - 1)
    BY DEF StepsOf
  <2>2. m \in Nat \ {0}
    BY <1>1
  <2> HIDE DEF k, m
  <2> QED
    BY <2>1, <2>2
<1>3. \A d \in 0 .. m :
        /\ (i + d) % m = Up(i, d, m) /\ Up(i, d, m) \in 0 .. m - 1
        /\ (i - d) % m = Down(i, d, m) /\ Down(i, d, m) \in 0 .. m - 1
  <2> HIDE DEF g, m, i
  <2> QED
    BY <1>1, Circle
<1>4. \A d \in 0 .. m - 1 : d % m = d
  <2> HIDE DEF g, m, i
  <2> SUFFICES ASSUME NEW d \in 0 .. m - 1 PROVE d % m = d
    OBVIOUS
  <2>1. (d + m * 0) % m = d
    BY <1>1, ModShift
  <2>2. m * 0 = 0
    BY <1>1
  <2> QED
    BY <1>1, <2>1, <2>2
<1>5. CASE x.what = "BARRIER"
  <2>1. Now(p) = Signals(p, k)
    BY <1>5 DEF Now
  <2>2. \A l \in 1 .. m - 1 : Others(p)[l] = g[Jump(i, l)]
    BY <1>1 DEF Others, Jump
  <2>3. Signals(p, k) = IF k < m THEN Instr(TRUE, g[Jump(i, k)], 0, nRanks)
                        ELSE Instr(FALSE, g[Jump(i, k - m + 1)], 0, nRanks)
    <3>1. Size(p) = m /\ m \in Nat /\ k \in 1 .. 2 * (m - 1)
      BY <1>1, <1>2
    <3> HIDE DEF k, m, g, i, j
    <3>2. CASE k < m
      <4>1. k \in 1 .. m - 1
        BY <3>1, <3>2
      <4>2. Others(p)[k] = g[Jump(i, k)]
        BY <2>2, <4>1
      <4> QED
        BY <3>1, <3>2, <4>2 DEF Signals
    <3>3. CASE ~(k < m)
      <4>1. k - m + 1 \in 1 .. m - 1
        BY <3>1, <3>3
      <4>2. Others(p)[k - m + 1] = g[Jump(i, k - m + 1)]
        BY <2>2, <4>1
      <4> QED
        BY <3>1, <3>3, <4>2 DEF Signals
    <3> QED
      BY <3>2, <3>3
  <2> QED
    BY <1>1, <1>5, <2>1, <2>3 DEF InsOf
<1>6. CASE x.what = "ALLTOALL"
  <2>1. Now(p) = Pairwise(p, k)
    BY <1>6 DEF Now
  <2>2. (k + 1) \div 2 = IF k % 2 = 1 THEN j + 1 ELSE j + 1
    BY <1>2
  <2>3. /\ Member(p, Up(i, j + 1, m)) = g[Up(i, j + 1, m) + 1]
        /\ Member(p, Down(i, j + 1, m)) = g[Down(i, j + 1, m) + 1]
    BY <1>1, <1>2, <1>3, <1>4 DEF Member
  <2>4. (Pos(p) + (j + 1)) % Size(p) = Up(i, j + 1, m) /\ (Pos(p) - (j + 1)) % Size(p) = Down(i, j + 1, m)
    BY <1>1, <1>2, <1>3
  <2>5. Pairwise(p, k) = IF k % 2 = 1
          THEN Instr(TRUE, g[Up(i, j + 1, m) + 1], j + 1, Up(i, j + 1, m))
          ELSE Instr(FALSE, g[Down(i, j + 1, m) + 1], j + 1, Down(i, j + 1, m))
    <3> HIDE DEF j, i, m, g
    <3> QED
      BY <2>2, <2>3, <2>4 DEF Pairwise
  <2> QED
    BY <1>1, <1>6, <2>1, <2>5 DEF InsOf
<1>7. CASE x.what \in Gathers
  <2>1. Now(p) = Gather(p, k)
    BY <1>7 DEF Now, Gathers
  <2>2. /\ Member(p, Pos(p) + 1) = g[Up(i, 1, m) + 1]
        /\ Member(p, Pos(p) - 1) = g[Down(i, 1, m) + 1]
    BY <1>1, <1>2, <1>3, <1>4 DEF Member
  <2>3. (Pos(p) - j) % Size(p) = Down(i, j, m)
    BY <1>1, <1>2, <1>3
  <2>4. Pos(p) - j - 1 = i - (j + 1)
    BY <1>1, <1>2
  <2>5. (Pos(p) - j - 1) % Size(p) = Down(i, j + 1, m)
    <3>1. (i - (j + 1)) % m = Down(i, j + 1, m)
      BY <1>2, <1>3
    <3> QED
      BY <1>1, <2>4, <3>1
  <2>6. Gather(p, k) = IF k % 2 = 1
          THEN Instr(TRUE, g[Up(i, 1, m) + 1], TagOf(x, j), Down(i, j, m))
          ELSE Instr(FALSE, g[Down(i, 1, m) + 1], TagOf(x, j), Down(i, j + 1, m))
    <3>1. (IF op[p] = "GROUPGATHER" THEN j ELSE RingTag) = TagOf(x, j)
      BY DEF TagOf
    <3> HIDE DEF i, m, g
    <3> QED
      BY <2>2, <2>3, <2>5, <3>1 DEF Gather
  <2> QED
    BY <1>1, <1>7, <2>1, <2>6 DEF InsOf, Gathers
<1> QED
  BY <1>1, <1>5, <1>6, <1>7 DEF Exchanges, Gathers

Tags == Nat \cup {RingTag}
Chan == Ranks \X Ranks \X Tags

IsExchange(x) == x.what \in Exchanges /\ x.group \in Groups

(* What a send is, for each kind of exchange: parity, tag, block, peer. *)
LEMMA SendForm ==
  ASSUME NEW x, IsExchange(x), NEW p \in MembersOf(x.group),
         NEW k \in 1 .. StepsOf(x), InsOf(x, p, k).send
  PROVE  LET g == x.group
             m == Len(g)
             i == IndexIn(g, p)
             j == (k - 1) \div 2
             s == InsOf(x, p, k)
             r == IndexIn(g, s.peer)
         IN /\ s.peer \in MembersOf(g) /\ s.tag \in Tags /\ s.block \in Blocks
            /\ i \in 0 .. m - 1 /\ r \in 0 .. m - 1 /\ r # i /\ m \in Nat \ {0} /\ m <= nRanks
            /\ k \in 1 .. 2 * (m - 1)
            /\ \/ /\ x.what = "BARRIER" /\ s.tag = 0 /\ s.block = nRanks
                  /\ k < m /\ r = Jump(i, k) - 1
               \/ /\ x.what = "ALLTOALL" /\ s.tag = j + 1 /\ s.block = r
                  /\ k % 2 = 1 /\ r = Up(i, j + 1, m)
               \/ /\ x.what \in Gathers /\ s.tag = TagOf(x, j) /\ s.block = Down(i, j, m)
                  /\ k % 2 = 1 /\ r = Up(i, 1, m)
<1> DEFINE g == x.group
           m == Len(g)
           i == IndexIn(g, p)
           j == (k - 1) \div 2
           s == InsOf(x, p, k)
<1>1. g \in Groups /\ i \in 0 .. m - 1 /\ m \in Nat \ {0} /\ m <= nRanks
  BY MemberIndex, GroupSize DEF IsExchange
<1>2. k \in 1 .. 2 * (m - 1) /\ j \in 0 .. m - 2
  <2>1. k \in 1 .. 2 * (m - 1)
    BY DEF StepsOf
  <2> HIDE DEF m
  <2> QED
    BY <1>1, <2>1
<1>3. \A r \in 0 .. m - 1 :
        IndexIn(g, g[r + 1]) = r /\ g[r + 1] \in MembersOf(g)
  <2> HIDE DEF g
  <2> QED
    BY <1>1, Index DEF MembersOf
<1>4. nRanks \in Nat
  BY TeamsAssumption
<1>5. x.what \in Exchanges
  BY DEF IsExchange
<1>6. CASE x.what = "BARRIER"
  <2>1. k < m /\ s = Instr(TRUE, g[Jump(i, k)], 0, nRanks)
    BY <1>6 DEF InsOf, Instr
  <2>2. Jump(i, k) - 1 \in 0 .. m - 1 /\ Jump(i, k) - 1 # i /\ (Jump(i, k) - 1) + 1 = Jump(i, k)
    <3> HIDE DEF m, i
    <3> QED
      BY <1>1, <1>2, <2>1 DEF Jump
  <2>3. IndexIn(g, g[Jump(i, k)]) = Jump(i, k) - 1 /\ g[Jump(i, k)] \in MembersOf(g)
    <3> HIDE DEF m, i, g
    <3> QED
      BY <1>3, <2>2
  <2>4. /\ s.peer = g[Jump(i, k)] /\ s.tag = 0 /\ s.block = nRanks
        /\ s.tag \in Tags /\ s.block \in Blocks
    BY <1>4, <2>1 DEF Instr, Tags, Blocks
  <2> HIDE DEF g, m, i, s, j
  <2>5. IndexIn(g, s.peer) = Jump(i, k) - 1 /\ s.peer \in MembersOf(g)
    BY <2>3, <2>4
  <2>6. QED
    BY <1>1, <1>2, <1>6, <2>1, <2>2, <2>4, <2>5 DEF g, m, i, s, j
<1>7. CASE x.what # "BARRIER"
  <2> DEFINE r == IF x.what = "ALLTOALL" THEN Up(i, j + 1, m) ELSE Up(i, 1, m)
  <2>1. /\ k % 2 = 1
        /\ s = IF x.what = "ALLTOALL" THEN Instr(TRUE, g[r + 1], j + 1, r)
               ELSE Instr(TRUE, g[r + 1], TagOf(x, j), Down(i, j, m))
    BY <1>7 DEF InsOf, Instr
  <2>2. r \in 0 .. m - 1 /\ r # i /\ Down(i, j, m) \in 0 .. m - 1
    <3> HIDE DEF m, i, j
    <3> QED
      BY <1>1, <1>2 DEF Up, Down
  <2>3. IndexIn(g, g[r + 1]) = r /\ g[r + 1] \in MembersOf(g)
    <3> HIDE DEF m, i, g, r, j
    <3> QED
      BY <1>3, <2>2
  <2>4. r \in Blocks /\ Down(i, j, m) \in Blocks
    <3> HIDE DEF m, i, g, r, j
    <3> QED
      BY <1>1, <1>4, <2>2 DEF Blocks
  <2>5. /\ s.peer = g[r + 1] /\ s.block \in Blocks
        /\ s.tag = IF x.what = "ALLTOALL" THEN j + 1 ELSE TagOf(x, j)
        /\ s.block = IF x.what = "ALLTOALL" THEN r ELSE Down(i, j, m)
    <3> HIDE DEF m, i, g, r, j
    <3> QED
      BY <2>1, <2>4 DEF Instr
  <2>6. s.tag \in Tags
    <3> HIDE DEF m, i, g, r, s
    <3> QED
      BY <1>2, <2>5 DEF Tags, TagOf
  <2>7. x.what = "ALLTOALL" \/ x.what \in Gathers
    BY <1>5, <1>7 DEF Exchanges, Gathers
  <2>8. "ALLTOALL" \notin Gathers
    BY DEF Gathers
  <2> HIDE DEF g, m, i, s, j, r
  <2>9. IndexIn(g, s.peer) = r /\ s.peer \in MembersOf(g)
    BY <2>3, <2>5
  <2> QED
    BY <1>1, <1>2, <2>1, <2>2, <2>5, <2>6, <2>7, <2>8, <2>9 DEF g, m, i, s, j, r
<1> QED
  BY <1>6, <1>7

(* What a receive is, for each kind of exchange. *)
LEMMA RecvForm ==
  ASSUME NEW x, IsExchange(x), NEW p \in MembersOf(x.group),
         NEW k \in 1 .. StepsOf(x), ~InsOf(x, p, k).send
  PROVE  LET g == x.group
             m == Len(g)
             i == IndexIn(g, p)
             j == (k - 1) \div 2
             s == InsOf(x, p, k)
             r == IndexIn(g, s.peer)
         IN /\ s.peer \in MembersOf(g) /\ s.tag \in Tags /\ s.block \in Blocks
            /\ i \in 0 .. m - 1 /\ r \in 0 .. m - 1 /\ r # i /\ m \in Nat \ {0} /\ m <= nRanks
            /\ k \in 1 .. 2 * (m - 1)
            /\ \/ /\ x.what = "BARRIER" /\ s.tag = 0 /\ s.block = nRanks
                  /\ k >= m /\ r = Jump(i, k - m + 1) - 1
               \/ /\ x.what = "ALLTOALL" /\ s.tag = j + 1 /\ s.block = r
                  /\ k % 2 = 0 /\ r = Down(i, j + 1, m)
               \/ /\ x.what \in Gathers /\ s.tag = TagOf(x, j) /\ s.block = Down(i, j + 1, m)
                  /\ k % 2 = 0 /\ r = Down(i, 1, m)
<1> DEFINE g == x.group
           m == Len(g)
           i == IndexIn(g, p)
           j == (k - 1) \div 2
           s == InsOf(x, p, k)
<1>1. g \in Groups /\ i \in 0 .. m - 1 /\ m \in Nat \ {0} /\ m <= nRanks
  BY MemberIndex, GroupSize DEF IsExchange
<1>2. k \in 1 .. 2 * (m - 1) /\ j \in 0 .. m - 2
  <2>1. k \in 1 .. 2 * (m - 1)
    BY DEF StepsOf
  <2> HIDE DEF m
  <2> QED
    BY <1>1, <2>1
<1>3. \A r \in 0 .. m - 1 :
        IndexIn(g, g[r + 1]) = r /\ g[r + 1] \in MembersOf(g)
  <2> HIDE DEF g
  <2> QED
    BY <1>1, Index DEF MembersOf
<1>4. nRanks \in Nat
  BY TeamsAssumption
<1>5. x.what \in Exchanges
  BY DEF IsExchange
<1>6. CASE x.what = "BARRIER"
  <2> DEFINE l == k - m + 1
  <2>1. ~(k < m) /\ s = Instr(FALSE, g[Jump(i, l)], 0, nRanks)
    BY <1>6 DEF InsOf, Instr
  <2>2. /\ Jump(i, l) - 1 \in 0 .. m - 1 /\ Jump(i, l) - 1 # i
        /\ (Jump(i, l) - 1) + 1 = Jump(i, l) /\ k >= m
    <3> HIDE DEF m, i
    <3> QED
      BY <1>1, <1>2, <2>1 DEF Jump
  <2>3. IndexIn(g, g[Jump(i, l)]) = Jump(i, l) - 1 /\ g[Jump(i, l)] \in MembersOf(g)
    <3> HIDE DEF m, i, g, l
    <3> QED
      BY <1>3, <2>2
  <2>4. /\ s.peer = g[Jump(i, l)] /\ s.tag = 0 /\ s.block = nRanks
        /\ s.tag \in Tags /\ s.block \in Blocks
    BY <1>4, <2>1 DEF Instr, Tags, Blocks
  <2> HIDE DEF g, m, i, s, j, l
  <2>5. IndexIn(g, s.peer) = Jump(i, l) - 1 /\ s.peer \in MembersOf(g)
    BY <2>3, <2>4
  <2>6. QED
    BY <1>1, <1>2, <1>6, <2>1, <2>2, <2>4, <2>5 DEF g, m, i, s, j, l
<1>7. CASE x.what # "BARRIER"
  <2> DEFINE r == IF x.what = "ALLTOALL" THEN Down(i, j + 1, m) ELSE Down(i, 1, m)
  <2>1. /\ ~(k % 2 = 1)
        /\ s = IF x.what = "ALLTOALL" THEN Instr(FALSE, g[r + 1], j + 1, r)
               ELSE Instr(FALSE, g[r + 1], TagOf(x, j), Down(i, j + 1, m))
    BY <1>7 DEF InsOf, Instr
  <2>2. r \in 0 .. m - 1 /\ r # i /\ Down(i, j + 1, m) \in 0 .. m - 1
    <3> HIDE DEF m, i, j
    <3> QED
      BY <1>1, <1>2 DEF Down
  <2>3. IndexIn(g, g[r + 1]) = r /\ g[r + 1] \in MembersOf(g)
    <3> HIDE DEF m, i, g, r, j
    <3> QED
      BY <1>3, <2>2
  <2>4. r \in Blocks /\ Down(i, j + 1, m) \in Blocks
    <3> HIDE DEF m, i, g, r, j
    <3> QED
      BY <1>1, <1>4, <2>2 DEF Blocks
  <2>5. /\ s.peer = g[r + 1] /\ s.block \in Blocks
        /\ s.tag = IF x.what = "ALLTOALL" THEN j + 1 ELSE TagOf(x, j)
        /\ s.block = IF x.what = "ALLTOALL" THEN r ELSE Down(i, j + 1, m)
    <3> HIDE DEF m, i, g, r, j
    <3> QED
      BY <2>1, <2>4 DEF Instr
  <2>6. s.tag \in Tags
    <3> HIDE DEF m, i, g, r, s
    <3> QED
      BY <1>2, <2>5 DEF Tags, TagOf
  <2>7. x.what = "ALLTOALL" \/ x.what \in Gathers
    BY <1>5, <1>7 DEF Exchanges, Gathers
  <2>8. "ALLTOALL" \notin Gathers
    BY DEF Gathers
  <2> HIDE DEF g, m, i, s, j, r
  <2>9. IndexIn(g, s.peer) = r /\ s.peer \in MembersOf(g)
    BY <2>3, <2>5
  <2>10. k % 2 = 0
    BY <1>2, <2>1
  <2> QED
    BY <1>1, <1>2, <2>10, <2>2, <2>5, <2>6, <2>7, <2>8, <2>9 DEF g, m, i, s, j, r
<1> QED
  BY <1>6, <1>7

SendShape(x, p, q, l) ==
  LET m == Len(x.group)
        i == IndexIn(x.group, p)
        r == IndexIn(x.group, q)
        j == (l - 1) \div 2
        tag == InsOf(x, p, l).tag
        block == InsOf(x, p, l).block
    IN /\ q \in MembersOf(x.group) /\ tag \in Tags /\ block \in Blocks
       /\ i \in 0 .. m - 1 /\ r \in 0 .. m - 1 /\ r # i /\ m \in Nat \ {0} /\ m <= nRanks
       /\ l \in 1 .. 2 * (m - 1)
       /\ x.what = "BARRIER" =>
            tag = 0 /\ block = nRanks /\ l < m /\ r = Jump(i, l) - 1
       /\ x.what = "ALLTOALL" =>
            tag = j + 1 /\ block = r /\ l % 2 = 1 /\ r = Up(i, j + 1, m)
       /\ x.what \in Gathers =>
            tag = TagOf(x, j) /\ block = Down(i, j, m) /\ l % 2 = 1 /\ r = Up(i, 1, m)

(* A send goes to another member, and which one says where its index is. *)
LEMMA SendIndex ==
  ASSUME NEW x, IsExchange(x), NEW q, NEW p \in MembersOf(x.group),
         NEW l, l \in 1 .. StepsOf(x), InsOf(x, p, l).send, InsOf(x, p, l).peer = q
  PROVE  SendShape(x, p, q, l)
<1> DEFINE g == x.group
           m == Len(g)
           i == IndexIn(g, p)
           r == IndexIn(g, q)
           j == (l - 1) \div 2
           s == InsOf(x, p, l)
           h == IndexIn(g, s.peer)
<1>1. /\ s.peer \in MembersOf(g) /\ s.tag \in Tags /\ s.block \in Blocks
      /\ IndexIn(g, p) \in 0 .. m - 1 /\ h \in 0 .. m - 1 /\ h # IndexIn(g, p)
      /\ m \in Nat \ {0} /\ m <= nRanks
      /\ l \in 1 .. 2 * (m - 1)
  BY SendForm
<1>2. CASE x.what = "BARRIER"
  BY <1>1, <1>2, SendForm DEF Gathers, SendShape
<1>3. CASE x.what = "ALLTOALL"
  BY <1>1, <1>3, SendForm DEF Gathers, SendShape
<1>4. CASE x.what \in Gathers
  BY <1>1, <1>4, SendForm DEF Gathers, SendShape
<1> QED
  BY <1>2, <1>3, <1>4 DEF IsExchange, Exchanges, Gathers, SendShape

RecvShape(x, p, q, l) ==
  LET m == Len(x.group)
        i == IndexIn(x.group, p)
        r == IndexIn(x.group, q)
        j == (l - 1) \div 2
        tag == InsOf(x, q, l).tag
        block == InsOf(x, q, l).block
    IN /\ p \in MembersOf(x.group) /\ tag \in Tags /\ block \in Blocks
       /\ i \in 0 .. m - 1 /\ r \in 0 .. m - 1 /\ r # i /\ m \in Nat \ {0} /\ m <= nRanks
       /\ l \in 1 .. 2 * (m - 1)
       /\ x.what = "BARRIER" =>
            tag = 0 /\ block = nRanks /\ l >= m /\ i = Jump(r, l - m + 1) - 1
       /\ x.what = "ALLTOALL" =>
            tag = j + 1 /\ block = i /\ l % 2 = 0 /\ i = Down(r, j + 1, m)
       /\ x.what \in Gathers =>
            tag = TagOf(x, j) /\ block = Down(r, j + 1, m) /\ l % 2 = 0 /\ i = Down(r, 1, m)

(* A receive is from another member, and which one says where its index    *)
(* is.                                                                     *)
LEMMA RecvIndex ==
  ASSUME NEW x, IsExchange(x), NEW p, NEW q \in MembersOf(x.group),
         NEW l, l \in 1 .. StepsOf(x), ~InsOf(x, q, l).send, InsOf(x, q, l).peer = p
  PROVE  RecvShape(x, p, q, l)
<1> DEFINE g == x.group
           m == Len(g)
           i == IndexIn(g, p)
           r == IndexIn(g, q)
           j == (l - 1) \div 2
           s == InsOf(x, q, l)
           h == IndexIn(g, s.peer)
<1>1. /\ s.peer \in MembersOf(g) /\ s.tag \in Tags /\ s.block \in Blocks
      /\ IndexIn(g, q) \in 0 .. m - 1 /\ h \in 0 .. m - 1 /\ h # IndexIn(g, q)
      /\ m \in Nat \ {0} /\ m <= nRanks
      /\ l \in 1 .. 2 * (m - 1)
  BY RecvForm
<1>2. \/ /\ x.what = "BARRIER" /\ s.tag = 0 /\ s.block = nRanks
         /\ l >= m /\ h = Jump(r, l - m + 1) - 1
      \/ /\ x.what = "ALLTOALL" /\ s.tag = j + 1 /\ s.block = h
         /\ l % 2 = 0 /\ h = Down(r, j + 1, m)
      \/ /\ x.what \in Gathers /\ s.tag = TagOf(x, j) /\ s.block = Down(r, j + 1, m)
         /\ l % 2 = 0 /\ h = Down(r, 1, m)
  BY RecvForm
<1>3. s.peer = p /\ h = i
  OBVIOUS
<1>4. /\ x.what = "BARRIER" => x.what \notin Gathers /\ x.what # "ALLTOALL"
      /\ x.what = "ALLTOALL" => x.what \notin Gathers
  BY DEF Gathers
<1> HIDE DEF h, i, r, j, m
<1> QED
  BY <1>1, <1>2, <1>3, <1>4 DEF h, i, r, j, m, RecvShape

(* Step k of call c sends, or receives, on connection d. *)
SendsOn(X, d, c, k) ==
  /\ c \in DOMAIN X /\ d[1] \in MembersOf(X[c].group) /\ k \in 1 .. StepsOf(X[c])
  /\ InsOf(X[c], d[1], k).send
  /\ InsOf(X[c], d[1], k).peer = d[2] /\ InsOf(X[c], d[1], k).tag = d[3]

RecvsOn(X, d, c, k) ==
  /\ c \in DOMAIN X /\ d[2] \in MembersOf(X[c].group) /\ k \in 1 .. StepsOf(X[c])
  /\ ~InsOf(X[c], d[2], k).send
  /\ InsOf(X[c], d[2], k).peer = d[1] /\ InsOf(X[c], d[2], k).tag = d[3]

(* What is sent in step k is for the receive in step l. *)
Paired(X, d, c, k, l) ==
  /\ SendsOn(X, d, c, k) /\ RecvsOn(X, d, c, l)
  /\ X[c].what # "BARRIER" => l = k + 1

(* The receive that follows a send is of the same round. *)
LEMMA Halves ==
  ASSUME NEW k \in Nat, k % 2 = 1
  PROVE  ((k + 1) - 1) \div 2 = (k - 1) \div 2 /\ (k + 1) % 2 # 1
  OBVIOUS

(* Every send has a receive at its peer. *)
LEMMA SendIsPaired ==
  ASSUME NEW X, IsPlan(X), NEW d \in Chan, NEW c, NEW k, SendsOn(X, d, c, k)
  PROVE  \E l : Paired(X, d, c, k, l)
<1>0. PICK x, p, q : x = X[c] /\ p = d[1] /\ q = d[2]
  OBVIOUS
<1> DEFINE g == x.group
           m == Len(g)
           i == IndexIn(g, p)
           r == IndexIn(g, q)
           j == (k - 1) \div 2
<1>1. /\ IsExchange(x) /\ p \in MembersOf(g) /\ k \in 1 .. StepsOf(x)
      /\ InsOf(x, p, k).send /\ InsOf(x, p, k).peer = q /\ InsOf(x, p, k).tag = d[3]
      /\ c \in DOMAIN X
  BY <1>0 DEF IsPlan, IsExchange, SendsOn
<1>2. /\ q \in MembersOf(g)
      /\ i \in 0 .. m - 1 /\ r \in 0 .. m - 1 /\ r # i /\ m \in Nat \ {0}
      /\ k \in 1 .. 2 * (m - 1)
      /\ \/ /\ x.what = "BARRIER" /\ d[3] = 0
            /\ k < m /\ r = Jump(i, k) - 1
         \/ /\ x.what = "ALLTOALL" /\ d[3] = j + 1
            /\ k % 2 = 1 /\ r = Up(i, j + 1, m)
         \/ /\ x.what \in Gathers /\ d[3] = TagOf(x, j)
            /\ k % 2 = 1 /\ r = Up(i, 1, m)
  BY <1>1, SendForm
<1>3. g[i + 1] = p
  BY <1>1, MemberIndex DEF IsExchange
<1>4. CASE x.what = "BARRIER"
  <2> DEFINE l == m - 1 + (IF i < r THEN i + 1 ELSE i)
  <2>1. /\ l \in 1 .. 2 * (m - 1) /\ ~(l < m) /\ Jump(r, l - m + 1) = i + 1
    <3> HIDE DEF m, i, r
    <3> QED
      BY <1>2 DEF Jump
  <2>2. d[3] = 0
    BY <1>2, <1>4 DEF Gathers
  <2>3. InsOf(x, q, l) = Instr(FALSE, g[i + 1], 0, nRanks)
    <3>1. InsOf(x, q, l) = Instr(FALSE, g[Jump(r, l - m + 1)], 0, nRanks)
      <4> HIDE DEF l
      <4> QED
        BY <1>4, <2>1 DEF InsOf
    <3> HIDE DEF l, g, m, i, r
    <3> QED
      BY <2>1, <3>1
  <2>4. RecvsOn(X, d, c, l)
    <3> HIDE DEF l
    <3> QED
      BY <1>0, <1>1, <1>2, <1>3, <2>1, <2>2, <2>3 DEF RecvsOn, Instr, StepsOf
  <2> HIDE DEF l
  <2> QED
    BY <1>0, <1>4, <2>4 DEF Paired
<1>5. CASE x.what # "BARRIER"
  <2> DEFINE l == k + 1
  <2>1. k % 2 = 1
    BY <1>2, <1>5
  <2>2. l \in 1 .. 2 * (m - 1) /\ ~(l % 2 = 1) /\ (l - 1) \div 2 = j
    <3> HIDE DEF m
    <3> QED
      BY <1>2, <2>1
  <2>3. /\ x.what = "ALLTOALL" => Down(r, j + 1, m) = i
        /\ x.what # "ALLTOALL" => Down(r, 1, m) = i
    <3>1. j \in Nat /\ j + 1 < m
      <4> HIDE DEF m
      <4> QED
        BY <1>2
    <3>2. /\ x.what = "ALLTOALL" => r = Up(i, j + 1, m)
          /\ x.what # "ALLTOALL" => r = Up(i, 1, m)
      BY <1>2, <1>5 DEF Gathers
    <3> HIDE DEF m, i, r, j
    <3> QED
      BY <1>2, <3>1, <3>2 DEF Up, Down
  <2>4. InsOf(x, q, l) = IF x.what = "ALLTOALL"
                         THEN Instr(FALSE, g[Down(r, j + 1, m) + 1], j + 1, Down(r, j + 1, m))
                         ELSE Instr(FALSE, g[Down(r, 1, m) + 1], TagOf(x, j), Down(r, j + 1, m))
    <3> HIDE DEF l, j
    <3> QED
      BY <1>5, <2>2 DEF InsOf
  <2>5. ~InsOf(x, q, l).send /\ InsOf(x, q, l).peer = g[i + 1] /\ InsOf(x, q, l).tag = d[3]
    <3>1. d[3] = IF x.what = "ALLTOALL" THEN j + 1 ELSE TagOf(x, j)
      BY <1>2, <1>5 DEF Gathers
    <3> HIDE DEF l, g, m, i, r, j
    <3> QED
      BY <2>3, <2>4, <3>1 DEF Instr
  <2>6. RecvsOn(X, d, c, l)
    <3> HIDE DEF l
    <3> QED
      BY <1>0, <1>1, <1>2, <1>3, <2>2, <2>5 DEF RecvsOn, StepsOf
  <2> QED
    BY <1>0, <2>6 DEF Paired
<1> QED
  BY <1>4, <1>5

(* Every receive has a send at its peer. *)
LEMMA RecvIsPaired ==
  ASSUME NEW X, IsPlan(X), NEW d \in Chan, NEW c, NEW l, RecvsOn(X, d, c, l)
  PROVE  \E k : Paired(X, d, c, k, l)
<1>0. PICK x, p, q : x = X[c] /\ p = d[1] /\ q = d[2]
  OBVIOUS
<1> DEFINE g == x.group
           m == Len(g)
           i == IndexIn(g, p)
           r == IndexIn(g, q)
           j == (l - 1) \div 2
<1>1. /\ IsExchange(x) /\ q \in MembersOf(g) /\ l \in 1 .. StepsOf(x)
      /\ ~InsOf(x, q, l).send /\ InsOf(x, q, l).peer = p /\ InsOf(x, q, l).tag = d[3]
      /\ c \in DOMAIN X
  BY <1>0 DEF IsPlan, IsExchange, RecvsOn
<1>2. /\ p \in MembersOf(g)
      /\ i \in 0 .. m - 1 /\ r \in 0 .. m - 1 /\ r # i /\ m \in Nat \ {0}
      /\ l \in 1 .. 2 * (m - 1)
      /\ \/ /\ x.what = "BARRIER" /\ d[3] = 0
            /\ l >= m /\ i = Jump(r, l - m + 1) - 1
         \/ /\ x.what = "ALLTOALL" /\ d[3] = j + 1
            /\ l % 2 = 0 /\ i = Down(r, j + 1, m)
         \/ /\ x.what \in Gathers /\ d[3] = TagOf(x, j)
            /\ l % 2 = 0 /\ i = Down(r, 1, m)
  <2>0. RecvShape(x, p, q, l)
    BY <1>1, RecvIndex
  <2>1. /\ p \in MembersOf(g)
        /\ i \in 0 .. m - 1 /\ r \in 0 .. m - 1 /\ r # i /\ m \in Nat \ {0}
        /\ l \in 1 .. 2 * (m - 1)
    BY <2>0 DEF RecvShape
  <2>2. /\ x.what = "BARRIER" => d[3] = 0 /\ l >= m /\ i = Jump(r, l - m + 1) - 1
        /\ x.what = "ALLTOALL" => d[3] = j + 1 /\ l % 2 = 0 /\ i = Down(r, j + 1, m)
        /\ x.what \in Gathers => d[3] = TagOf(x, j) /\ l % 2 = 0 /\ i = Down(r, 1, m)
    BY <1>1, <2>0 DEF RecvShape
  <2>3. x.what = "BARRIER" \/ x.what = "ALLTOALL" \/ x.what \in Gathers
    BY <1>1 DEF IsExchange, Exchanges, Gathers
  <2> HIDE DEF i, r, j, m
  <2> QED
    BY <2>1, <2>2, <2>3
<1>3. g[r + 1] = q
  BY <1>1, MemberIndex DEF IsExchange
<1>4. CASE x.what = "BARRIER"
  <2> DEFINE k == IF r < i THEN r + 1 ELSE r
  <2>1. /\ k \in 1 .. 2 * (m - 1) /\ k < m /\ Jump(i, k) = r + 1
    <3> HIDE DEF m, i, r
    <3> QED
      BY <1>2 DEF Jump
  <2>2. d[3] = 0
    BY <1>2, <1>4 DEF Gathers
  <2>3. InsOf(x, p, k) = Instr(TRUE, g[r + 1], 0, nRanks)
    <3>1. InsOf(x, p, k) = Instr(TRUE, g[Jump(i, k)], 0, nRanks)
      <4> HIDE DEF k
      <4> QED
        BY <1>4, <2>1 DEF InsOf
    <3> HIDE DEF k, g, m, i, r
    <3> QED
      BY <2>1, <3>1
  <2>4. SendsOn(X, d, c, k)
    <3> HIDE DEF k
    <3> QED
      BY <1>0, <1>1, <1>2, <1>3, <2>1, <2>2, <2>3 DEF SendsOn, Instr, StepsOf
  <2> HIDE DEF k
  <2> QED
    BY <1>0, <1>4, <2>4 DEF Paired
<1>5. CASE x.what # "BARRIER"
  <2> DEFINE k == l - 1
  <2>1. l % 2 = 0
    BY <1>2, <1>5
  <2>2. k \in 1 .. 2 * (m - 1) /\ k % 2 = 1 /\ (k - 1) \div 2 = j /\ l = k + 1
    <3> HIDE DEF m
    <3> QED
      BY <1>2, <2>1
  <2>3. /\ x.what = "ALLTOALL" => Up(i, j + 1, m) = r
        /\ x.what # "ALLTOALL" => Up(i, 1, m) = r
    <3>1. j \in Nat /\ j + 1 < m
      <4> HIDE DEF m
      <4> QED
        BY <1>2
    <3>2. /\ x.what = "ALLTOALL" => i = Down(r, j + 1, m)
          /\ x.what # "ALLTOALL" => i = Down(r, 1, m)
      BY <1>2, <1>5 DEF Gathers
    <3> HIDE DEF m, i, r, j
    <3> QED
      BY <1>2, <3>1, <3>2 DEF Up, Down
  <2>4. InsOf(x, p, k) = IF x.what = "ALLTOALL"
                         THEN Instr(TRUE, g[Up(i, j + 1, m) + 1], j + 1, Up(i, j + 1, m))
                         ELSE Instr(TRUE, g[Up(i, 1, m) + 1], TagOf(x, j), Down(i, j, m))
    <3> HIDE DEF k, j
    <3> QED
      BY <1>5, <2>2 DEF InsOf
  <2>5. InsOf(x, p, k).send /\ InsOf(x, p, k).peer = g[r + 1] /\ InsOf(x, p, k).tag = d[3]
    <3>1. d[3] = IF x.what = "ALLTOALL" THEN j + 1 ELSE TagOf(x, j)
      BY <1>2, <1>5 DEF Gathers
    <3> HIDE DEF k, g, m, i, r, j
    <3> QED
      BY <2>3, <2>4, <3>1 DEF Instr
  <2>6. SendsOn(X, d, c, k)
    <3> HIDE DEF k
    <3> QED
      BY <1>0, <1>1, <1>2, <1>3, <2>2, <2>5 DEF SendsOn, StepsOf
  <2>7. l = k + 1
    BY <2>2
  <2> HIDE DEF k
  <2> QED
    BY <1>0, <2>6, <2>7 DEF Paired
<1> QED
  BY <1>4, <1>5

(* A connection carries the blocks of a call in the order it is read in. *)
LEMMA PairsInOrder ==
  ASSUME NEW X, IsPlan(X), NEW d \in Chan, NEW c, NEW k, NEW l, NEW k2, NEW l2,
         Paired(X, d, c, k, l), Paired(X, d, c, k2, l2)
  PROVE  /\ k \in Nat /\ l \in Nat /\ k2 \in Nat /\ l2 \in Nat
         /\ (k < k2 <=> l < l2) /\ (k = k2 <=> l = l2)
<1>0. PICK x, p, q : x = X[c] /\ p = d[1] /\ q = d[2]
  OBVIOUS
<1> DEFINE g == x.group
           m == Len(g)
           i == IndexIn(g, p)
           r == IndexIn(g, q)
<1>1. /\ IsExchange(x) /\ p \in MembersOf(g) /\ q \in MembersOf(g)
      /\ k \in 1 .. StepsOf(x) /\ k2 \in 1 .. StepsOf(x)
      /\ l \in 1 .. StepsOf(x) /\ l2 \in 1 .. StepsOf(x)
      /\ InsOf(x, p, k).send /\ InsOf(x, p, k).peer = q
      /\ InsOf(x, p, k2).send /\ InsOf(x, p, k2).peer = q
      /\ ~InsOf(x, q, l).send /\ InsOf(x, q, l).peer = p
      /\ ~InsOf(x, q, l2).send /\ InsOf(x, q, l2).peer = p
  BY <1>0 DEF IsPlan, IsExchange, SendsOn, RecvsOn, Paired
<1>2. m \in Nat \ {0} /\ i \in 0 .. m - 1 /\ r \in 0 .. m - 1
  BY <1>1, MemberIndex DEF IsExchange
<1>3. k \in Nat /\ l \in Nat /\ k2 \in Nat /\ l2 \in Nat
  BY <1>1, <1>2 DEF StepsOf
<1>4. CASE x.what = "BARRIER"
  <2>1. /\ SendShape(x, p, q, k) /\ SendShape(x, p, q, k2)
        /\ RecvShape(x, p, q, l) /\ RecvShape(x, p, q, l2)
    BY <1>1, SendIndex, RecvIndex
  <2>2. r = Jump(i, k) - 1
    BY <2>1, <1>4 DEF SendShape
  <2>3. r = Jump(i, k2) - 1
    BY <2>1, <1>4 DEF SendShape
  <2>4. i = Jump(r, l - m + 1) - 1
    BY <2>1, <1>4 DEF RecvShape
  <2>5. i = Jump(r, l2 - m + 1) - 1
    BY <2>1, <1>4 DEF RecvShape
  <2> HIDE DEF m, i, r
  <2>7. k = k2 /\ l = l2
    BY <1>2, <1>3, <2>2, <2>3, <2>4, <2>5 DEF Jump
  <2> QED
    BY <1>3, <2>7
<1>5. CASE x.what # "BARRIER"
  BY <1>0, <1>3, <1>5 DEF Paired
<1> QED
  BY <1>3, <1>4, <1>5

(* The block sent is the one received; in an all-to-all it is numbered by  *)
(* the receiver, and put where the sender's is expected.                   *)
LEMMA PairedBlocks ==
  ASSUME NEW X, IsPlan(X), NEW d \in Chan, NEW c, NEW k, NEW l, Paired(X, d, c, k, l)
  PROVE  /\ X[c].what \in Gathers =>
              InsOf(X[c], d[1], k).block = InsOf(X[c], d[2], l).block
         /\ X[c].what = "ALLTOALL" =>
              /\ InsOf(X[c], d[1], k).block = IndexIn(X[c].group, d[2])
              /\ InsOf(X[c], d[2], l).block = IndexIn(X[c].group, d[1])
<1>0. PICK x, p, q : x = X[c] /\ p = d[1] /\ q = d[2]
  OBVIOUS
<1> DEFINE g == x.group
           m == Len(g)
           i == IndexIn(g, p)
           r == IndexIn(g, q)
           j == (k - 1) \div 2
<1>1. /\ IsExchange(x) /\ p \in MembersOf(g) /\ q \in MembersOf(g)
      /\ k \in 1 .. StepsOf(x) /\ l \in 1 .. StepsOf(x)
      /\ InsOf(x, p, k).send /\ InsOf(x, p, k).peer = q
      /\ ~InsOf(x, q, l).send /\ InsOf(x, q, l).peer = p
  BY <1>0 DEF IsPlan, IsExchange, SendsOn, RecvsOn, Paired
<1>9. SendShape(x, p, q, k) /\ RecvShape(x, p, q, l)
  BY <1>1, SendIndex, RecvIndex
<1>2. CASE x.what = "ALLTOALL"
  <2>1. x.what \notin Gathers
    BY <1>2 DEF Gathers
  <2>2. InsOf(x, p, k).block = r
    BY <1>9, <1>2 DEF SendShape
  <2>3. InsOf(x, q, l).block = i
    BY <1>9, <1>2 DEF RecvShape
  <2> QED
    BY <1>0, <1>2, <2>1, <2>2, <2>3
<1>3. CASE x.what \in Gathers
  <2>1. x.what # "ALLTOALL" /\ x.what # "BARRIER"
    BY <1>3 DEF Gathers
  <2>2. /\ InsOf(x, p, k).block = Down(i, j, m) /\ r = Up(i, 1, m) /\ k % 2 = 1
        /\ i \in 0 .. m - 1 /\ m \in Nat \ {0} /\ k \in 1 .. 2 * (m - 1)
    BY <1>9, <1>3 DEF SendShape
  <2>3. InsOf(x, q, l).block = Down(r, (l - 1) \div 2 + 1, m)
    BY <1>9, <1>3 DEF RecvShape
  <2>4. l = k + 1
    BY <1>0, <2>1 DEF Paired
  <2>5. (l - 1) \div 2 = j /\ j \in 0 .. m - 2
    <3> HIDE DEF m
    <3> QED
      BY <2>2, <2>4
  <2>6. Down(r, j + 1, m) = Down(i, j, m)
    <3> HIDE DEF m, i, r, j
    <3> QED
      BY <2>2, <2>5 DEF Up, Down
  <2> QED
    BY <1>0, <2>1, <2>2, <2>3, <2>5, <2>6
<1> QED
  BY <1>0, <1>1, <1>2, <1>3 DEF IsExchange, Exchanges, Gathers

----------------------------------------------------------------------------
(* A set of pairs listed in order *)

Pairs == Nat \X Nat
Before(e, f) == e[1] < f[1] \/ (e[1] = f[1] /\ e[2] < f[2])

Lists(s, P) ==
  /\ s \in Seq(Pairs)
  /\ \A i \in 1 .. Len(s) : s[i] \in P
  /\ \A e \in P : \E i \in 1 .. Len(s) : s[i] = e
  /\ \A i, j \in 1 .. Len(s) : i < j => Before(s[i], s[j])

(* No pairs are listed by the empty sequence. *)
LEMMA ListNone == ASSUME NEW P, \A e \in P : FALSE PROVE Lists(<<>>, P)
  BY DEF Lists

(* A pair after all those listed is appended to the list. *)
LEMMA ListMore ==
  ASSUME NEW s, NEW P, NEW Q, Lists(s, P), NEW e \in Pairs,
         \A f \in P : Before(f, e), \A f : f \in Q <=> f \in P \/ f = e
  PROVE  Lists(Append(s, e), Q)
<1> DEFINE t == Append(s, e)
<1>1. s \in Seq(Pairs) /\ Len(s) \in Nat
  BY DEF Lists
<1>2. t \in Seq(Pairs) /\ Len(t) = Len(s) + 1 /\ t[Len(s) + 1] = e
      /\ \A i \in 1 .. Len(s) : t[i] = s[i]
  BY <1>1
<1> HIDE DEF t
<1>3. \A i \in 1 .. Len(t) : t[i] \in Q
  <2> SUFFICES ASSUME NEW i \in 1 .. Len(t) PROVE t[i] \in Q
    OBVIOUS
  <2>1. CASE i \in 1 .. Len(s)
    BY <1>2, <2>1 DEF Lists
  <2>2. CASE i = Len(s) + 1
    BY <1>2, <2>2
  <2> QED
    BY <1>1, <1>2, <2>1, <2>2
<1>4. \A f \in Q : \E i \in 1 .. Len(t) : t[i] = f
  <2> SUFFICES ASSUME NEW f \in Q PROVE \E i \in 1 .. Len(t) : t[i] = f
    OBVIOUS
  <2>1. CASE f = e
    BY <1>1, <1>2, <2>1
  <2>2. CASE f \in P
    <3>1. PICK i \in 1 .. Len(s) : s[i] = f
      BY <2>2 DEF Lists
    <3>2. i \in 1 .. Len(t) /\ t[i] = f
      BY <1>1, <1>2, <3>1
    <3> QED
      BY <3>2
  <2> QED
    BY <2>1, <2>2
<1>5. \A i, j \in 1 .. Len(t) : i < j => Before(t[i], t[j])
  <2> SUFFICES ASSUME NEW i \in 1 .. Len(t), NEW j \in 1 .. Len(t), i < j
               PROVE  Before(t[i], t[j])
    OBVIOUS
  <2>1. i \in 1 .. Len(s) /\ t[i] = s[i] /\ s[i] \in P
    BY <1>1, <1>2 DEF Lists
  <2>2. CASE j = Len(s) + 1
    BY <1>2, <2>1, <2>2
  <2>3. CASE j \in 1 .. Len(s)
    BY <1>2, <2>1, <2>3 DEF Lists
  <2> QED
    BY <1>1, <1>2, <2>2, <2>3
<1>6. Lists(t, Q)
  BY <1>2, <1>3, <1>4, <1>5 DEF Lists
<1> QED
  BY <1>6 DEF t

(* Without its first pair the list is the tail. *)
LEMMA ListLess ==
  ASSUME NEW s, NEW P, NEW Q, Lists(s, P), s # <<>>,
         \A f : f \in Q <=> f \in P /\ f # s[1]
  PROVE  /\ Lists(Tail(s), Q) /\ s[1] \in P /\ s[1] \in Pairs
         /\ \A f \in P : f = s[1] \/ Before(s[1], f)
<1> DEFINE t == Tail(s)
<1>1. s \in Seq(Pairs) /\ Len(s) \in Nat /\ 1 \in 1 .. Len(s)
  BY DEF Lists
<1>2. t \in Seq(Pairs) /\ Len(t) = Len(s) - 1
      /\ \A i \in 1 .. Len(t) : t[i] = s[i + 1] /\ i + 1 \in 1 .. Len(s)
  BY <1>1
<1> HIDE DEF t
<1>3. s[1] \in P /\ s[1] \in Pairs
  BY <1>1 DEF Lists
<1>4. \A i \in 1 .. Len(s) : s[i] \in Pairs /\ s[i] \in P /\ (i > 1 => Before(s[1], s[i]))
  BY <1>1 DEF Lists
<1>5. \A e \in Pairs : ~Before(e, e)
  BY DEF Pairs, Before
<1>6. \A f \in P : f = s[1] \/ Before(s[1], f)
  <2> SUFFICES ASSUME NEW f \in P PROVE f = s[1] \/ Before(s[1], f)
    OBVIOUS
  <2>1. PICK i \in 1 .. Len(s) : s[i] = f
    BY DEF Lists
  <2> QED
    BY <1>1, <1>4, <2>1
<1>7. \A i \in 1 .. Len(t) : t[i] \in Q
  <2> SUFFICES ASSUME NEW i \in 1 .. Len(t) PROVE t[i] \in Q
    OBVIOUS
  <2>1. i + 1 > 1 /\ i + 1 \in 1 .. Len(s) /\ t[i] = s[i + 1]
    BY <1>2
  <2>2. Before(s[1], s[i + 1]) /\ s[i + 1] \in P
    BY <1>4, <2>1
  <2>3. s[i + 1] # s[1]
    BY <1>3, <1>5, <2>2
  <2> QED
    BY <2>1, <2>2, <2>3
<1>8. \A f \in Q : \E i \in 1 .. Len(t) : t[i] = f
  <2> SUFFICES ASSUME NEW f \in Q PROVE \E i \in 1 .. Len(t) : t[i] = f
    OBVIOUS
  <2>1. f \in P /\ f # s[1]
    OBVIOUS
  <2>2. PICK i \in 1 .. Len(s) : s[i] = f
    BY <2>1 DEF Lists
  <2>3. i # 1
    BY <2>1, <2>2
  <2>4. i - 1 \in 1 .. Len(t) /\ (i - 1) + 1 = i
    BY <1>1, <1>2, <2>3
  <2>5. t[i - 1] = s[(i - 1) + 1]
    BY <1>2, <2>4
  <2> QED
    BY <2>2, <2>4, <2>5
<1>9. \A i, j \in 1 .. Len(t) : i < j => Before(t[i], t[j])
  <2> SUFFICES ASSUME NEW i \in 1 .. Len(t), NEW j \in 1 .. Len(t), i < j
               PROVE  Before(t[i], t[j])
    OBVIOUS
  <2>1. i + 1 < j + 1 /\ i + 1 \in 1 .. Len(s) /\ j + 1 \in 1 .. Len(s)
    BY <1>2
  <2>2. Before(s[i + 1], s[j + 1])
    BY <2>1 DEF Lists
  <2> QED
    BY <1>2, <2>2
<1>10. Lists(t, Q)
  BY <1>2, <1>7, <1>8, <1>9 DEF Lists
<1> QED
  BY <1>3, <1>6, <1>10 DEF t

----------------------------------------------------------------------------
(* How far a rank is *)

Active(p) == op[p] # "NONE" /\ pc[p] \in {"exchange", "over", "aborted"}
Began(p, c) == c <= returned[p] \/ (c = Call(p) /\ Active(p))
Passed(p, c, k) == c <= returned[p] \/ (c = Call(p) /\ Active(p) /\ k < at[p])

(* What has been sent on a connection and not yet received. *)
Received(X, d, c, k) == \E l : Paired(X, d, c, k, l) /\ Passed(d[2], c, l)
Pending(X, d) ==
  {e \in Pairs : /\ SendsOn(X, d, e[1], e[2]) /\ Passed(d[1], e[1], e[2])
                 /\ ~Received(X, d, e[1], e[2])}

(* The block of r for place b in call c. *)
BlockOf(X, c, r, b) == <<r, b, c, X[c].slots[r]>>
Messages == {NoBlock} \cup (Ranks \X Int \X Nat \X SUBSET Int)

(* The block that goes with a send. *)
Load(X, d, c, k) ==
  LET g == X[c].group
      b == InsOf(X[c], d[1], k).block
  IN CASE X[c].what = "BARRIER" -> NoBlock
       [] X[c].what = "ALLTOALL" -> BlockOf(X, c, d[1], b)
       [] OTHER -> BlockOf(X, c, g[b + 1], b)

(* Who made the block has begun the call. *)
OriginBegan(X, d, c, k) ==
  X[c].what \in Gathers => Began(X[c].group[InsOf(X[c], d[1], k).block + 1], c)

Carries(X, d, w, s) ==
  /\ w \in Seq(Messages) /\ Lists(s, Pending(X, d)) /\ Len(s) = Len(w)
  /\ \A i \in 1 .. Len(w) :
       w[i] = Load(X, d, s[i][1], s[i][2]) /\ OriginBegan(X, d, s[i][1], s[i][2])

Wires(X) ==
  \A d \in Chan :
    /\ d \notin DOMAIN wire => \A e \in Pending(X, d) : FALSE
    /\ d \in DOMAIN wire => \E s : Carries(X, d, wire[d], s)

Causal(X) ==
  \A d \in Chan : \A c, k, l :
    Paired(X, d, c, k, l) /\ Passed(d[2], c, l) => Passed(d[1], c, k)

InCall(X) ==
  \A p \in Ranks : Active(p) =>
    /\ Call(p) \in DOMAIN X
    /\ op[p] = X[Call(p)].what /\ group[p] = X[Call(p)].group
    /\ p \in MembersOf(X[Call(p)].group)
    /\ at[p] \in 1 .. StepsOf(X[Call(p)]) + 1
    /\ pc[p] = "over" => at[p] = StepsOf(X[Call(p)]) + 1

(* What a rank in an exchange holds. *)
Gathered(X, p) ==
  LET c == Call(p)
      g == X[c].group
      m == Len(g)
      i == IndexIn(g, p)
  IN \A e \in 0 .. m - 1 : 2 * e < at[p] =>
       /\ data[p][Down(i, e, m)] = BlockOf(X, c, g[Down(i, e, m) + 1], Down(i, e, m))
       /\ Began(g[Down(i, e, m) + 1], c)

Swapping(X, p) ==
  LET c == Call(p)
      g == X[c].group
      m == Len(g)
      i == IndexIn(g, p)
  IN /\ \A b \in 0 .. m - 1 : data[p][b] = BlockOf(X, c, p, b)
     /\ \A e \in 1 .. m - 1 : 2 * e < at[p] =>
          recv_buf[p][Down(i, e, m)] = BlockOf(X, c, g[Down(i, e, m) + 1], i)

Swapped(X, p) ==
  LET c == Call(p)
      g == X[c].group
  IN \A b \in 0 .. Len(g) - 1 : data[p][b] = BlockOf(X, c, g[b + 1], IndexIn(g, p))

Holds(X, p) ==
  pc[p] \in {"exchange", "over"} =>
    /\ op[p] \in Gathers => Gathered(X, p)
    /\ op[p] = "ALLTOALL" /\ pc[p] = "exchange" => Swapping(X, p)
    /\ op[p] = "ALLTOALL" /\ pc[p] = "over" => Swapped(X, p)
    /\ op[p] = "BARRIER" => data[p][nRanks] = NoBlock

Holding(X) == \A p \in Ranks : Holds(X, p)

(* Nobody returns from a call before all ranks have begun the first. *)
AllIn == (\E p \in Ranks : returned[p] > 0) => \A p \in Ranks : op[p] # "NONE"

Shapes ==
  /\ DOMAIN pc = Ranks /\ DOMAIN op = Ranks /\ DOMAIN group = Ranks /\ DOMAIN at = Ranks
  /\ DOMAIN data = Ranks /\ DOMAIN recv_buf = Ranks /\ DOMAIN returned = Ranks
  /\ \A p \in Ranks : DOMAIN data[p] = Blocks /\ DOMAIN recv_buf[p] = Blocks
  /\ \A p \in Ranks : returned[p] \in Nat

(* Ranks that stay where they are in the plan. *)
Still(X) ==
  \A p \in Ranks : \A c \in DOMAIN X : p \in MembersOf(X[c].group) =>
    /\ \A k \in 1 .. StepsOf(X[c]) : Passed(p, c, k)' <=> Passed(p, c, k)
    /\ Began(p, c) => Began(p, c)'

(* What goes with a send is a message. *)
LEMMA LoadIsMessage ==
  ASSUME NEW X, IsPlan(X), NEW d \in Chan, NEW c, NEW k, SendsOn(X, d, c, k)
  PROVE  Load(X, d, c, k) \in Messages /\ <<c, k>> \in Pairs
<1>0. PICK x, p, q : x = X[c] /\ p = d[1] /\ q = d[2]
  OBVIOUS
<1> DEFINE g == x.group
           m == Len(g)
           b == InsOf(x, p, k).block
<1>1. /\ IsExchange(x) /\ p \in MembersOf(g) /\ k \in 1 .. StepsOf(x)
      /\ InsOf(x, p, k).send /\ InsOf(x, p, k).peer = q
      /\ c \in DOMAIN X /\ c \in Nat /\ p \in Ranks
      /\ \A r \in Ranks : X[c].slots[r] \in SUBSET Int
  BY <1>0 DEF IsPlan, IsExchange, SendsOn, Chan
<1>2. SendShape(x, p, q, k)
  BY <1>1, SendIndex
<1>3. m \in Nat \ {0} /\ k \in Nat /\ b \in Blocks /\ nRanks \in Nat
  BY <1>2, TeamsAssumption DEF SendShape
<1>4. b \in Int
  BY <1>3 DEF Blocks
<1>5. <<c, k>> \in Pairs
  BY <1>1, <1>3 DEF Pairs
<1>6. CASE x.what \in Gathers
  <2>1. b = Down(IndexIn(g, p), (k - 1) \div 2, m) /\ IndexIn(g, p) \in 0 .. m - 1
        /\ k \in 1 .. 2 * (m - 1)
    BY <1>2, <1>6 DEF SendShape
  <2>2. b \in 0 .. m - 1
    <3> DEFINE i == IndexIn(g, p)
               j == (k - 1) \div 2
    <3>1. j \in 0 .. m - 1
      <4> HIDE DEF m
      <4> QED
        BY <1>3, <2>1
    <3> HIDE DEF i, j, m, b
    <3> QED
      BY <1>3, <2>1, <3>1 DEF Down, i, j
  <2>3. g[b + 1] \in Ranks
    <3>1. g \in Groups
      BY <1>1 DEF IsExchange
    <3> HIDE DEF b
    <3> QED
      BY <2>2, <3>1, Index
  <2>4. BlockOf(X, c, g[b + 1], b) \in Messages
    <3> HIDE DEF b
    <3> QED
      BY <1>1, <1>4, <2>3 DEF BlockOf, Messages
  <2>5. Load(X, d, c, k) = BlockOf(X, c, g[b + 1], b)
    BY <1>0, <1>6 DEF Load, Gathers
  <2> QED
    BY <1>5, <2>4, <2>5
<1>7. CASE x.what = "ALLTOALL"
  <2>1. BlockOf(X, c, p, b) \in Messages
    BY <1>1, <1>4 DEF BlockOf, Messages
  <2>2. Load(X, d, c, k) = BlockOf(X, c, p, b)
    BY <1>0, <1>7 DEF Load
  <2> QED
    BY <1>5, <2>1, <2>2
<1>8. CASE x.what = "BARRIER"
  BY <1>0, <1>5, <1>8 DEF Load, Messages
<1> QED
  BY <1>1, <1>6, <1>7, <1>8 DEF IsExchange, Exchanges, Gathers

(* Where a rank is on the two sides of a connection. *)
LEMMA OnPlan ==
  ASSUME NEW X, IsPlan(X), NEW d \in Chan
  PROVE  /\ \A c, k : SendsOn(X, d, c, k) =>
              /\ d[1] \in Ranks /\ c \in DOMAIN X /\ d[1] \in MembersOf(X[c].group)
              /\ k \in 1 .. StepsOf(X[c]) /\ k \in Nat /\ c \in Nat /\ <<c, k>> \in Pairs
         /\ \A c, l : RecvsOn(X, d, c, l) =>
              /\ d[2] \in Ranks /\ c \in DOMAIN X /\ d[2] \in MembersOf(X[c].group)
              /\ l \in 1 .. StepsOf(X[c]) /\ l \in Nat /\ c \in Nat
<1>1. \A c \in DOMAIN X : c \in Nat /\ StepsOf(X[c]) \in Int
  <2> SUFFICES ASSUME NEW c \in DOMAIN X PROVE c \in Nat /\ StepsOf(X[c]) \in Int
    OBVIOUS
  <2>1. X[c].group \in Seq(Ranks) /\ c \in Nat
    BY DEF IsPlan, Groups
  <2> QED
    BY <2>1 DEF StepsOf
<1> QED
  BY <1>1 DEF SendsOn, RecvsOn, Chan, Pairs

(* Ranks that stay where they are leave what is pending. *)
LEMMA StillPending ==
  ASSUME NEW X, IsPlan(X), Still(X), NEW d \in Chan
  PROVE  \A e : e \in Pending(X, d)' <=> e \in Pending(X, d)
<1>1. \A c, k : SendsOn(X, d, c, k) => (Passed(d[1], c, k)' <=> Passed(d[1], c, k))
  BY OnPlan DEF Still
<1>2. \A c, k, l : Paired(X, d, c, k, l) => (Passed(d[2], c, l)' <=> Passed(d[2], c, l))
  BY OnPlan DEF Still, Paired
<1>3. \A c, k : Received(X, d, c, k)' <=> Received(X, d, c, k)
  BY <1>2 DEF Received
<1> QED
  BY <1>1, <1>3 DEF Pending

(* Who has begun a call still has. *)
LEMMA StillOrigin ==
  ASSUME NEW X, IsPlan(X), NEW d \in Chan, NEW c, NEW k, SendsOn(X, d, c, k),
         \A p \in Ranks : p \in MembersOf(X[c].group) /\ Began(p, c) => Began(p, c)',
         OriginBegan(X, d, c, k)
  PROVE  OriginBegan(X, d, c, k)'
<1>0. PICK x, p, q : x = X[c] /\ p = d[1] /\ q = d[2]
  OBVIOUS
<1> DEFINE g == x.group
           m == Len(g)
           i == IndexIn(g, p)
           j == (k - 1) \div 2
<1> SUFFICES ASSUME x.what \in Gathers
             PROVE  Began(g[InsOf(x, p, k).block + 1], c)'
  BY <1>0 DEF OriginBegan
<1>1. /\ IsExchange(x) /\ p \in MembersOf(g) /\ k \in 1 .. StepsOf(x)
      /\ InsOf(x, p, k).send /\ InsOf(x, p, k).peer = q
  BY <1>0 DEF IsPlan, IsExchange, SendsOn, Chan
<1>2. SendShape(x, p, q, k)
  BY <1>1, SendIndex
<1>3. /\ InsOf(x, p, k).block = Down(i, j, m) /\ i \in 0 .. m - 1 /\ m \in Nat \ {0}
      /\ k \in 1 .. 2 * (m - 1)
  BY <1>2 DEF SendShape
<1>4. Down(i, j, m) \in 0 .. m - 1
  <2>1. j \in 0 .. m - 1
    <3> HIDE DEF m
    <3> QED
      BY <1>3
  <2> HIDE DEF i, j, m
  <2> QED
    BY <1>3, <2>1 DEF Down
<1>5. g[Down(i, j, m) + 1] \in Ranks /\ g[Down(i, j, m) + 1] \in MembersOf(g)
  <2>1. g \in Groups
    BY <1>1 DEF IsExchange
  <2>2. g[Down(i, j, m) + 1] \in Ranks
    BY <1>4, <2>1, Index
  <2> HIDE DEF i, j
  <2> QED
    BY <1>3, <1>4, <2>2 DEF MembersOf
<1> QED
  BY <1>0, <1>3, <1>5 DEF OriginBegan

(* Connections whose content stays carry what is pending, if ranks stay    *)
(* where they are.                                                         *)
LEMMA WiresStill ==
  ASSUME NEW X, IsPlan(X), Still(X), Wires(X),
         \A d \in Chan :
           IF d \in DOMAIN wire THEN d \in DOMAIN wire' /\ wire'[d] = wire[d]
                                ELSE d \in DOMAIN wire' => wire'[d] = <<>>
  PROVE  Wires(X)'
<1> SUFFICES ASSUME NEW d \in Chan
             PROVE  /\ d \notin DOMAIN wire' => \A e \in Pending(X, d)' : FALSE
                    /\ d \in DOMAIN wire' => \E s : Carries(X, d, wire[d], s)'
  BY DEF Wires
<1>1. \A e : e \in Pending(X, d)' <=> e \in Pending(X, d)
  BY StillPending
<1>2. CASE d \notin DOMAIN wire
  <2>1. \A e \in Pending(X, d)' : FALSE
    BY <1>1, <1>2 DEF Wires
  <2>2. Lists(<<>>, Pending(X, d)')
    BY <2>1, ListNone
  <2>3. d \in DOMAIN wire' => wire'[d] = <<>> /\ <<>> \in Seq(Messages) /\ Len(<<>>) = 0
    BY <1>2
  <2>4. d \in DOMAIN wire' => Carries(X, d, wire[d], <<>>)'
    BY <2>2, <2>3 DEF Carries
  <2> QED
    BY <2>1, <2>4
<1>3. CASE d \in DOMAIN wire
  <2>1. PICK s : Carries(X, d, wire[d], s)
    BY <1>3 DEF Wires
  <2>2. Lists(s, Pending(X, d))
    BY <2>1 DEF Carries
  <2>3. Lists(s, Pending(X, d)')
    BY <1>1, <2>2 DEF Lists
  <2>4. \A i \in 1 .. Len(s) : OriginBegan(X, d, s[i][1], s[i][2])'
    <3> SUFFICES ASSUME NEW i \in 1 .. Len(s) PROVE OriginBegan(X, d, s[i][1], s[i][2])'
      OBVIOUS
    <3>1. s[i] \in Pending(X, d) /\ OriginBegan(X, d, s[i][1], s[i][2])
      BY <2>1, <2>2 DEF Carries, Lists
    <3>2. PICK c, k : c = s[i][1] /\ k = s[i][2]
      OBVIOUS
    <3>3. SendsOn(X, d, c, k) /\ OriginBegan(X, d, c, k) /\ c \in DOMAIN X
      BY <3>1, <3>2 DEF Pending, SendsOn
    <3>4. \A p \in Ranks : p \in MembersOf(X[c].group) /\ Began(p, c) => Began(p, c)'
      BY <3>3 DEF Still
    <3>5. OriginBegan(X, d, c, k)'
      BY <3>3, <3>4, StillOrigin
    <3> QED
      BY <3>2, <3>5
  <2>5. \A i \in 1 .. Len(wire[d]) : wire[d][i] = Load(X, d, s[i][1], s[i][2])
    BY <2>1 DEF Carries
  <2>6. wire'[d] = wire[d] /\ d \in DOMAIN wire'
    BY <1>3
  <2>7. wire[d] \in Seq(Messages) /\ Len(s) = Len(wire[d])
    BY <2>1 DEF Carries
  <2>8. \A i \in 1 .. Len(wire'[d]) : wire'[d][i] = Load(X, d, s[i][1], s[i][2])'
    BY <2>5, <2>6 DEF Load
  <2>9. Carries(X, d, wire[d], s)'
    BY <2>3, <2>4, <2>6, <2>7, <2>8 DEF Carries
  <2> QED
    BY <2>6, <2>9
<1> QED
  BY <1>2, <1>3

(* Receives stay after their sends, if ranks stay where they are. *)
LEMMA CausalStill ==
  ASSUME NEW X, IsPlan(X), Still(X), Causal(X)
  PROVE  Causal(X)'
<1> SUFFICES ASSUME NEW d \in Chan, NEW c, NEW k, NEW l,
                    Paired(X, d, c, k, l), Passed(d[2], c, l)'
             PROVE  Passed(d[1], c, k)'
  BY DEF Causal
<1>1. SendsOn(X, d, c, k) /\ RecvsOn(X, d, c, l)
  BY DEF Paired
<1>2. Passed(d[2], c, l)
  BY <1>1, OnPlan DEF Still
<1>3. Passed(d[1], c, k)
  BY <1>2 DEF Causal
<1> QED
  BY <1>1, <1>3, OnPlan DEF Still

(* A rank makes the next step of its exchange. *)
Advances(p) ==
  /\ pc[p] = "exchange" /\ op[p] # "NONE"
  /\ at' = [at EXCEPT ![p] = at[p] + 1]
  /\ pc' = pc /\ op' = op /\ group' = group /\ returned' = returned

(* A step of rank p is passed by p and by nobody else. *)
LEMMA AdvancePassed ==
  ASSUME Shapes, NEW p \in Ranks, at[p] \in Nat, Advances(p)
  PROVE  /\ \A q \in Ranks : \A c : Began(q, c)' <=> Began(q, c)
         /\ \A q \in Ranks : \A c, k : q # p => (Passed(q, c, k)' <=> Passed(q, c, k))
         /\ \A c : \A k \in Nat :
              Passed(p, c, k)' <=> Passed(p, c, k) \/ (c = Call(p) /\ k = at[p])
<1>1. /\ \A q \in Ranks : Call(q)' = Call(q) /\ (Active(q)' <=> Active(q))
      /\ Active(p)
  BY DEF Advances, Active, Call
<1>2. at'[p] = at[p] + 1 /\ (\A q \in Ranks : q # p => at'[q] = at[q]) /\ returned' = returned
  BY DEF Advances, Shapes
<1>3. returned[p] \in Nat /\ Call(p) = returned[p] + 1
  BY DEF Shapes, Call
<1>4. \A q \in Ranks : \A c : Began(q, c)' <=> Began(q, c)
  BY <1>1, <1>2 DEF Began
<1>5. \A q \in Ranks : \A c, k : q # p => (Passed(q, c, k)' <=> Passed(q, c, k))
  BY <1>1, <1>2 DEF Passed
<1>6. \A c : \A k \in Nat :
              Passed(p, c, k)' <=> Passed(p, c, k) \/ (c = Call(p) /\ k = at[p])
  <2> SUFFICES ASSUME NEW c, NEW k \in Nat
               PROVE  Passed(p, c, k)' <=> Passed(p, c, k) \/ (c = Call(p) /\ k = at[p])
    OBVIOUS
  <2>1. k < at'[p] <=> k < at[p] \/ k = at[p]
    BY <1>2
  <2> QED
    BY <1>1, <1>2, <2>1 DEF Passed
<1> QED
  BY <1>4, <1>5, <1>6

(* What is passed comes before the step under way. *)
LEMMA PassedBefore ==
  ASSUME Shapes, NEW p \in Ranks, at[p] \in Nat, NEW c \in Nat, NEW k \in Nat, Passed(p, c, k)
  PROVE  Before(<<c, k>>, <<Call(p), at[p]>>)
BY DEF Passed, Before, Call, Shapes

(* A step before one passed is passed. *)
LEMMA BeforePassed ==
  ASSUME Shapes, NEW p \in Ranks, at[p] \in Nat, NEW c \in Nat, NEW k \in Nat, NEW b \in Nat,
         NEW j \in Nat, Passed(p, c, k), b < c \/ (b = c /\ j <= k)
  PROVE  Passed(p, b, j)
BY DEF Passed, Call, Shapes

(* A connection is known by its two ends and its tag. *)
LEMMA SameConnection ==
  ASSUME NEW d \in Chan, NEW e \in Chan, d[1] = e[1], d[2] = e[2], d[3] = e[3]
  PROVE  d = e
BY DEF Chan

(* A block put on a connection is the last that is pending there. *)
LEMMA Push ==
  ASSUME NEW X, IsPlan(X), Shapes, Wires(X), Causal(X), NEW p \in Ranks, at[p] \in Nat,
         Advances(p), NEW h \in Chan, h[1] = p, SendsOn(X, h, Call(p), at[p]),
         OriginBegan(X, h, Call(p), at[p]), h \in DOMAIN wire,
         wire' = [wire EXCEPT ![h] = Append(wire[h], Load(X, h, Call(p), at[p]))]
  PROVE  Wires(X)' /\ Causal(X)'
<1>0. PICK c, k : c = Call(p) /\ k = at[p]
  OBVIOUS
<1>1. /\ SendsOn(X, h, c, k) /\ <<c, k>> \in Pairs /\ c \in Nat /\ k \in Nat
      /\ \A b, l : RecvsOn(X, h, b, l) => l \in Nat
  BY <1>0, OnPlan
<1>2. ~Passed(p, c, k) /\ \A b : \A j \in Nat :
        Passed(p, b, j)' <=> Passed(p, b, j) \/ (b = c /\ j = k)
  <2>1. ~Passed(p, c, k)
    BY <1>0 DEF Passed, Call, Shapes
  <2> QED
    BY <1>0, <2>1, AdvancePassed
<1>3. \A q \in Ranks : \A b, l : q # p => (Passed(q, b, l)' <=> Passed(q, b, l))
  BY AdvancePassed
<1>4. \A d \in Chan : \A b, l : RecvsOn(X, d, b, l) =>
        (Passed(d[2], b, l)' <=> Passed(d[2], b, l))
  <2> SUFFICES ASSUME NEW d \in Chan, NEW b, NEW l, RecvsOn(X, d, b, l)
               PROVE  Passed(d[2], b, l)' <=> Passed(d[2], b, l)
    OBVIOUS
  <2>1. d[2] \in Ranks /\ l \in Nat
    BY OnPlan
  <2>2. d[2] = p => ~(b = c /\ l = k)
    BY <1>1 DEF SendsOn, RecvsOn
  <2> QED
    BY <1>2, <1>3, <2>1, <2>2
<1>5. \A d \in Chan : \A b, j : SendsOn(X, d, b, j) =>
        (Passed(d[1], b, j)' <=> Passed(d[1], b, j) \/ (d = h /\ b = c /\ j = k))
  <2> SUFFICES ASSUME NEW d \in Chan, NEW b, NEW j, SendsOn(X, d, b, j)
               PROVE  Passed(d[1], b, j)' <=> Passed(d[1], b, j) \/ (d = h /\ b = c /\ j = k)
    OBVIOUS
  <2>1. d[1] \in Ranks /\ j \in Nat
    BY OnPlan
  <2>2. d[1] = p /\ b = c /\ j = k => d = h
    BY <1>1, SameConnection DEF SendsOn
  <2> QED
    BY <1>2, <1>3, <2>1, <2>2
<1>6. \A d \in Chan : \A b, j : Received(X, d, b, j)' <=> Received(X, d, b, j)
  BY <1>4 DEF Received, Paired
<1>7. ~Received(X, h, c, k)
  BY <1>2 DEF Received, Causal
<1>8. \A d \in Chan : \A e : e \in Pending(X, d)' <=>
        e \in Pending(X, d) \/ (d = h /\ e = <<c, k>>)
  <2> SUFFICES ASSUME NEW d \in Chan, NEW e
               PROVE  e \in Pending(X, d)' <=> e \in Pending(X, d) \/ (d = h /\ e = <<c, k>>)
    OBVIOUS
  <2>1. e \in Pairs => (e = <<c, k>> <=> e[1] = c /\ e[2] = k)
    BY <1>1 DEF Pairs
  <2>2. e \in Pending(X, d)' <=>
          e \in Pairs /\ SendsOn(X, d, e[1], e[2]) /\ Passed(d[1], e[1], e[2])'
          /\ ~Received(X, d, e[1], e[2])
    BY <1>6 DEF Pending
  <2> QED
    BY <1>1, <1>5, <1>7, <2>1, <2>2 DEF Pending
<1>9. \A d \in Chan : \A b, j : SendsOn(X, d, b, j) =>
         (OriginBegan(X, d, b, j) => OriginBegan(X, d, b, j)')
  <2> SUFFICES ASSUME NEW d \in Chan, NEW b, NEW j, SendsOn(X, d, b, j), OriginBegan(X, d, b, j)
               PROVE  OriginBegan(X, d, b, j)'
    OBVIOUS
  <2>1. \A q \in Ranks : Began(q, b) => Began(q, b)'
    BY AdvancePassed
  <2> QED
    BY <2>1, StillOrigin
<1>10. Wires(X)'
  <2> SUFFICES ASSUME NEW d \in Chan
               PROVE  /\ d \notin DOMAIN wire' => \A e \in Pending(X, d)' : FALSE
                      /\ d \in DOMAIN wire' => \E s : Carries(X, d, wire[d], s)'
    BY DEF Wires
  <2>1. CASE d \notin DOMAIN wire
    <3>1. d \notin DOMAIN wire' /\ d # h
      BY <2>1
    <3> QED
      BY <1>8, <2>1, <3>1 DEF Wires
  <2>2. CASE d \in DOMAIN wire /\ d # h
    <3>1. PICK s : Carries(X, d, wire[d], s)
      BY <2>2 DEF Wires
    <3>2. Lists(s, Pending(X, d))
      BY <3>1 DEF Carries
    <3>3. Lists(s, Pending(X, d)')
      BY <1>8, <2>2, <3>2 DEF Lists
    <3>4. \A i \in 1 .. Len(s) : OriginBegan(X, d, s[i][1], s[i][2])'
      <4> SUFFICES ASSUME NEW i \in 1 .. Len(s) PROVE OriginBegan(X, d, s[i][1], s[i][2])'
        OBVIOUS
      <4>1. s[i] \in Pending(X, d) /\ OriginBegan(X, d, s[i][1], s[i][2])
        BY <3>1, <3>2 DEF Carries, Lists
      <4>2. SendsOn(X, d, s[i][1], s[i][2])
        BY <4>1 DEF Pending
      <4> QED
        BY <1>9, <4>1, <4>2
    <3>5. wire'[d] = wire[d] /\ d \in DOMAIN wire'
      BY <2>2
    <3>6. \A i \in 1 .. Len(wire'[d]) : wire'[d][i] = Load(X, d, s[i][1], s[i][2])'
      BY <3>1, <3>5 DEF Carries, Load
    <3>7. Carries(X, d, wire[d], s)'
      BY <3>1, <3>3, <3>4, <3>5, <3>6 DEF Carries
    <3> QED
      BY <3>5, <3>7
  <2>3. CASE d = h
    <3>1. PICK s : Carries(X, h, wire[h], s)
      BY DEF Wires
    <3> DEFINE t == Append(s, <<c, k>>)
               w == Append(wire[h], Load(X, h, c, k))
    <3>2. Lists(s, Pending(X, h)) /\ wire[h] \in Seq(Messages) /\ Len(s) = Len(wire[h])
      BY <3>1 DEF Carries
    <3>3. \A e \in Pending(X, h) : Before(e, <<c, k>>)
      <4> SUFFICES ASSUME NEW e \in Pending(X, h) PROVE Before(e, <<c, k>>)
        OBVIOUS
      <4>1. e[1] \in Nat /\ e[2] \in Nat /\ Passed(p, e[1], e[2])
        BY DEF Pending, Pairs
      <4>2. Before(<<e[1], e[2]>>, <<c, k>>)
        BY <1>0, <4>1, PassedBefore
      <4> QED
        BY <4>2 DEF Before
    <3>4. Lists(t, Pending(X, h)')
      <4>1. \A e : e \in Pending(X, h)' <=> e \in Pending(X, h) \/ e = <<c, k>>
        BY <1>8
      <4> QED
        BY <1>1, <3>2, <3>3, <4>1, ListMore
    <3>5. Load(X, h, c, k) \in Messages
      BY <1>1, LoadIsMessage
    <3>6. s \in Seq(Pairs)
      BY <3>2 DEF Lists
    <3>7. /\ w \in Seq(Messages) /\ Len(t) = Len(w) /\ Len(w) = Len(s) + 1
          /\ w[Len(s) + 1] = Load(X, h, c, k) /\ t[Len(s) + 1] = <<c, k>>
          /\ \A i \in 1 .. Len(s) : w[i] = wire[h][i] /\ t[i] = s[i]
      BY <1>1, <3>2, <3>5, <3>6
    <3>8. wire'[h] = w /\ h \in DOMAIN wire'
      BY <1>0
    <3> HIDE DEF t, w
    <3>9. \A i \in 1 .. Len(w) :
            w[i] = Load(X, h, t[i][1], t[i][2]) /\ OriginBegan(X, h, t[i][1], t[i][2])'
      <4> SUFFICES ASSUME NEW i \in 1 .. Len(w)
                   PROVE  w[i] = Load(X, h, t[i][1], t[i][2])
                          /\ OriginBegan(X, h, t[i][1], t[i][2])'
        OBVIOUS
      <4>1. CASE i = Len(s) + 1
        <5>1. t[i][1] = c /\ t[i][2] = k /\ OriginBegan(X, h, c, k)'
          BY <1>0, <1>1, <1>9, <3>7, <4>1
        <5> QED
          BY <3>7, <4>1, <5>1
      <4>2. CASE i \in 1 .. Len(s)
        <5>1. /\ w[i] = wire[h][i] /\ t[i] = s[i] /\ s[i] \in Pending(X, h)
              /\ wire[h][i] = Load(X, h, s[i][1], s[i][2])
              /\ OriginBegan(X, h, s[i][1], s[i][2])
          BY <3>1, <3>2, <3>7, <4>2 DEF Carries, Lists
        <5>2. SendsOn(X, h, s[i][1], s[i][2])
          BY <5>1 DEF Pending
        <5> QED
          BY <1>9, <5>1, <5>2
      <4>3. Len(s) \in Nat
        BY <3>6
      <4> QED
        BY <3>7, <4>1, <4>2, <4>3
    <3>10. \A i \in 1 .. Len(wire'[h]) : wire'[h][i] = Load(X, h, t[i][1], t[i][2])'
      BY <3>8, <3>9 DEF Load
    <3>11. Carries(X, h, wire[h], t)'
      BY <3>4, <3>7, <3>8, <3>9, <3>10 DEF Carries
    <3> QED
      BY <2>3, <3>8, <3>11
  <2> QED
    BY <2>1, <2>2, <2>3
<1>11. Causal(X)'
  <2> SUFFICES ASSUME NEW d \in Chan, NEW b, NEW j, NEW l,
                      Paired(X, d, b, j, l), Passed(d[2], b, l)'
               PROVE  Passed(d[1], b, j)'
    BY DEF Causal
  <2>1. SendsOn(X, d, b, j) /\ RecvsOn(X, d, b, l)
    BY DEF Paired
  <2>2. Passed(d[2], b, l)
    BY <1>4, <2>1
  <2>3. Passed(d[1], b, j)
    BY <2>2 DEF Causal
  <2> QED
    BY <1>5, <2>1, <2>3
<1> QED
  BY <1>10, <1>11

(* What a rank receives is what it waits for. *)
LEMMA HeadIsWanted ==
  ASSUME NEW X, IsPlan(X), Shapes, Wires(X), NEW p \in Ranks, at[p] \in Nat,
         pc[p] = "exchange", op[p] # "NONE", \A q \in Ranks : Active(q) => at[q] \in Nat,
         NEW h \in Chan, h[2] = p, RecvsOn(X, h, Call(p), at[p]),
         h \in DOMAIN wire, wire[h] # <<>>
  PROVE  /\ \E s, k : /\ Carries(X, h, wire[h], s) /\ s # <<>> /\ s[1] = <<Call(p), k>>
                      /\ Paired(X, h, Call(p), k, at[p]) /\ Passed(h[1], Call(p), k)
<1>0. PICK c, l : c = Call(p) /\ l = at[p]
  OBVIOUS
<1>1. RecvsOn(X, h, c, l) /\ l \in Nat /\ c \in Nat /\ h[1] \in Ranks
  BY <1>0, OnPlan DEF Chan
<1>2. ~Passed(p, c, l)
  BY <1>0 DEF Passed, Call, Shapes
<1>3. PICK s : Carries(X, h, wire[h], s)
  BY DEF Wires
<1>4. Lists(s, Pending(X, h)) /\ wire[h] \in Seq(Messages) /\ Len(s) = Len(wire[h])
      /\ s \in Seq(Pairs)
  BY <1>3 DEF Carries, Lists
<1>5. s # <<>>
  BY <1>4
<1> DEFINE P == Pending(X, h)
           Q == {e \in P : e # s[1]}
<1>6. /\ s[1] \in P /\ s[1] \in Pairs /\ \A f \in P : f = s[1] \/ Before(s[1], f)
  <2>1. \A f : f \in Q <=> f \in P /\ f # s[1]
    OBVIOUS
  <2> HIDE DEF P, Q
  <2> QED
    BY <1>4, <1>5, <2>1, ListLess DEF P
<1>7. PICK k : Paired(X, h, c, k, l)
  BY <1>1, RecvIsPaired
<1>8. SendsOn(X, h, c, k) /\ k \in Nat /\ <<c, k>> \in Pairs
  BY <1>7, OnPlan DEF Paired
<1>9. PICK b, j : b = s[1][1] /\ j = s[1][2]
  OBVIOUS
<1>10. /\ s[1] = <<b, j>> /\ b \in Nat /\ j \in Nat
       /\ SendsOn(X, h, b, j) /\ Passed(h[1], b, j) /\ ~Received(X, h, b, j)
  BY <1>6, <1>9 DEF Pending, Pairs
<1>11. PICK i : Paired(X, h, b, j, i)
  BY <1>10, SendIsPaired
<1>12. ~Passed(p, b, i) /\ i \in Nat
  <2>1. i \in Nat
    BY <1>11, OnPlan DEF Paired
  <2> QED
    BY <1>10, <1>11, <2>1 DEF Received
<1>13. c < b \/ (c = b /\ l <= i)
  <2>1. ~(b < c)
    BY <1>0, <1>10, <1>12 DEF Passed, Call, Shapes
  <2>2. b = c => ~(i < l)
    BY <1>0, <1>12 DEF Passed, Active
  <2> QED
    BY <1>1, <1>10, <1>12, <2>1, <2>2
<1>14. CASE c = b /\ l = i
  <2>1. j = k
    <3>1. Paired(X, h, c, j, l)
      BY <1>11, <1>14
    <3> QED
      BY <3>1, <1>7, PairsInOrder
  <2> QED
    BY <1>0, <1>3, <1>5, <1>7, <1>10, <1>14, <2>1
<1>15. CASE ~(c = b /\ l = i)
  <2>1. c < b \/ (c = b /\ k < j)
    <3>1. CASE c < b
      BY <3>1
    <3>2. CASE c = b
      <4>1. Paired(X, h, c, j, i) /\ l < i
        BY <1>1, <1>11, <1>12, <1>13, <1>15, <3>2
      <4>2. k < j <=> l < i
        BY <4>1, <1>7, PairsInOrder
      <4> QED
        BY <3>2, <4>1, <4>2
    <3> QED
      BY <1>13, <3>1, <3>2
  <2>2. Passed(h[1], c, k)
    <3>1. b <= returned[h[1]] \/ at[h[1]] \in Nat
      BY <1>1, <1>10 DEF Passed
    <3>2. returned[h[1]] \in Nat
      BY <1>1 DEF Shapes
    <3> QED
      BY <1>1, <1>8, <1>10, <2>1, <3>1, <3>2 DEF Passed, Call
  <2>3. ~Received(X, h, c, k)
    <3> SUFFICES ASSUME NEW l2, Paired(X, h, c, k, l2), Passed(p, c, l2) PROVE FALSE
      BY DEF Received
    <3>1. l2 = l
      BY <1>7, PairsInOrder
    <3> QED
      BY <1>2, <3>1
  <2>4. <<c, k>> \in P
    BY <1>8, <2>2, <2>3 DEF Pending
  <2>5. <<c, k>> = s[1] \/ Before(s[1], <<c, k>>)
    BY <1>6, <2>4
  <2>6. FALSE
    <3>1. ~(<<c, k>> = <<b, j>>)
      BY <2>1, <1>1, <1>8, <1>10
    <3>2. ~Before(<<b, j>>, <<c, k>>)
      BY <2>1, <1>1, <1>8, <1>10 DEF Before
    <3> QED
      BY <1>10, <2>5, <3>1, <3>2
  <2> QED
    BY <2>6
<1> QED
  BY <1>14, <1>15

----------------------------------------------------------------------------
(* The ring *)

Nx(p) == Up(p, 1, nRanks)
Pv(p) == Down(p, 1, nRanks)
RingTo(p) == <<p, Nx(p), RingTag>>
RingFrom(p) == <<Pv(p), p, RingTag>>

Early == {"create", "listen", "toRoot", "info", "fromRoot", "nextAddr", "toNext", "fromPrev"}

Stages ==
  \A p \in Ranks :
    /\ pc[p] \in Early \cup {"ready", "exchange", "over", "aborted"}
    /\ pc[p] \in Early => op[p] = "NONE"
    /\ op[p] = "NONE" => returned[p] = 0 /\ pc[p] \notin {"exchange", "over"}
    /\ op[p] # "NONE" /\ returned[p] = 0 => pc[p] \in {"exchange", "over", "aborted"}

Knows(p) == pc[p] \in {"toNext", "fromPrev", "ready", "exchange", "over"} \/ op[p] # "NONE"
Connected(p) == pc[p] \in {"fromPrev", "ready", "exchange", "over"} \/ op[p] # "NONE"
InRing(p) == pc[p] \in {"ready", "exchange", "over"} \/ op[p] # "NONE"

Ring ==
  \A p \in Ranks :
    /\ Knows(p) => next[p] = Nx(p)
    /\ Connected(p) => RingTo(p) \in DOMAIN wire
    /\ InRing(p) => prev[p] = RingFrom(p) /\ RingFrom(p) \in DOMAIN wire

(* The neighbours in the ring are ranks, and the connection to one is the  *)
(* one from the other.                                                     *)
LEMMA RingPlaces ==
  ASSUME NEW p \in Ranks
  PROVE  /\ Nx(p) \in Ranks /\ Pv(p) \in Ranks /\ (p + 1) % nRanks = Nx(p)
         /\ RingTo(p) \in Chan /\ RingFrom(p) \in Chan /\ RingFrom(Nx(p)) = RingTo(p)
<1>1. nRanks \in Nat \ {0} /\ p \in 0 .. nRanks - 1 /\ 1 \in 0 .. nRanks
  BY TeamsAssumption DEF Ranks
<1>2. (p + 1) % nRanks = Nx(p) /\ Nx(p) \in 0 .. nRanks - 1 /\ Pv(p) \in 0 .. nRanks - 1
  BY <1>1, Circle DEF Nx, Pv
<1>3. Pv(Nx(p)) = p
  BY <1>1 DEF Nx, Pv, Up, Down
<1> QED
  BY <1>2, <1>3 DEF RingTo, RingFrom, Chan, Tags, Ranks

(* The step a rank in an exchange is at, as the plan has it. *)
LEMMA ExchangingStep ==
  ASSUME NEW X, IsPlan(X), InCall(X), Stages, NEW p \in Ranks, Exchanging(p)
  PROVE  /\ Call(p) \in DOMAIN X /\ IsExchange(X[Call(p)])
         /\ op[p] = X[Call(p)].what /\ group[p] = X[Call(p)].group
         /\ p \in MembersOf(X[Call(p)].group) /\ at[p] \in 1 .. StepsOf(X[Call(p)])
         /\ at[p] \in Nat /\ op[p] # "NONE" /\ pc[p] = "exchange" /\ Active(p)
         /\ Now(p) = InsOf(X[Call(p)], p, at[p]) /\ Steps(p) = StepsOf(X[Call(p)])
<1>0. PICK x : x = X[Call(p)]
  OBVIOUS
<1>1. pc[p] = "exchange" /\ op[p] # "NONE" /\ at[p] <= Steps(p) /\ Active(p)
  BY DEF Exchanging, Stages, Active
<1>2. /\ Call(p) \in DOMAIN X /\ op[p] = x.what /\ group[p] = x.group
      /\ p \in MembersOf(x.group) /\ at[p] \in 1 .. StepsOf(x) + 1
  BY <1>0, <1>1 DEF InCall
<1>3. IsExchange(x)
  BY <1>0, <1>2 DEF IsPlan, IsExchange
<1>4. Steps(p) = StepsOf(x) /\ StepsOf(x) \in Int
  <2>1. x.group \in Seq(Ranks)
    BY <1>3 DEF IsExchange, Groups
  <2> QED
    BY <1>2, <2>1 DEF Steps, StepsOf, Size
<1>5. at[p] \in 1 .. StepsOf(x) /\ at[p] \in Nat
  BY <1>1, <1>2, <1>4
<1>6. Now(p) = InsOf(x, p, at[p])
  BY <1>2, <1>3, <1>5, NowIs DEF IsExchange
<1> QED
  BY <1>0, <1>1, <1>2, <1>3, <1>4, <1>5, <1>6

(* A rank sends to whom its exchange tells it, and receives from whom its  *)
(* exchange tells it, over the ring too.                                   *)
LEMMA SendSocket ==
  ASSUME NEW X, IsPlan(X), InCall(X), Stages, Ring, NEW p \in Ranks, Sending(p)
  PROVE  /\ Socket(p) \in Chan /\ Socket(p)[1] = p /\ Socket(p)[2] = Now(p).peer
         /\ SendsOn(X, Socket(p), Call(p), at[p])
         /\ Call(p) = 1 => Socket(p) \in DOMAIN wire
<1>0. PICK x, k, q, t, h : x = X[Call(p)] /\ k = at[p] /\ q = Now(p).peer /\ t = Now(p).tag
                            /\ h = <<p, q, t>>
  OBVIOUS
<1>1. /\ Call(p) \in DOMAIN X /\ IsExchange(x) /\ p \in MembersOf(x.group)
      /\ k \in 1 .. StepsOf(x) /\ Now(p) = InsOf(x, p, k) /\ Now(p).send
      /\ pc[p] = "exchange"
  BY <1>0, ExchangingStep DEF Sending
<1>2. InsOf(x, p, k).send /\ InsOf(x, p, k).peer = q /\ InsOf(x, p, k).tag = t
  BY <1>0, <1>1
<1>3. SendShape(x, p, q, k)
  BY <1>1, <1>2, SendIndex
<1>4. q \in Ranks /\ t \in Tags
  <2>1. q \in MembersOf(x.group) /\ t \in Tags
    BY <1>2, <1>3 DEF SendShape
  <2> QED
    BY <1>1, <2>1, MemberIndex DEF IsExchange
<1>5. x.what = "ALLGATHER" => q = Nx(p)
  <2> SUFFICES ASSUME x.what = "ALLGATHER" PROVE q = Nx(p)
    OBVIOUS
  <2>1. x.group = World
    BY <1>0, <1>1 DEF IsPlan
  <2>2. IndexIn(World, q) = Up(IndexIn(World, p), 1, Len(World))
    BY <1>3, <2>1 DEF SendShape, Gathers
  <2> QED
    BY <1>4, <2>2, WorldGroup DEF Nx
<1>6. t = RingTag <=> x.what = "ALLGATHER"
  <2>1. k \in 1 .. 2 * (Len(x.group) - 1) /\ Len(x.group) \in Nat \ {0}
    BY <1>3 DEF SendShape
  <2>2. (k - 1) \div 2 \in Nat
    <3>1. k \in Nat \ {0}
      BY <2>1
    <3> QED
      BY <3>1
  <2>3. CASE x.what = "BARRIER"
    BY <1>2, <1>3, <2>3 DEF SendShape, RingTag
  <2>4. CASE x.what = "ALLTOALL"
    <3>1. t = (k - 1) \div 2 + 1
      BY <1>2, <1>3, <2>4 DEF SendShape
    <3> QED
      BY <2>2, <2>4, <3>1 DEF RingTag
  <2>5. CASE x.what \in Gathers
    <3>1. t = TagOf(x, (k - 1) \div 2)
      BY <1>2, <1>3, <2>5 DEF SendShape
    <3>2. CASE x.what = "GROUPGATHER"
      BY <2>2, <3>1, <3>2 DEF RingTag, TagOf
    <3>3. CASE x.what = "ALLGATHER"
      BY <3>1, <3>3 DEF TagOf
    <3> QED
      BY <2>5, <3>2, <3>3 DEF Gathers
  <2> QED
    BY <1>1, <2>3, <2>4, <2>5 DEF IsExchange, Exchanges, Gathers
<1>7. next[p] = Nx(p) /\ RingTo(p) \in DOMAIN wire
  BY <1>1 DEF Ring, Knows, Connected
<1>8. Socket(p) = h
  <2>1. CASE t = RingTag
    BY <1>0, <1>1, <1>5, <1>6, <1>7, <2>1 DEF Socket
  <2>2. CASE t # RingTag
    BY <1>0, <1>1, <2>2 DEF Socket
  <2> QED
    BY <2>1, <2>2
<1>9. h \in Chan /\ h[1] = p /\ h[2] = q /\ h[3] = t
  BY <1>0, <1>4 DEF Chan
<1>10. SendsOn(X, h, Call(p), k)
  BY <1>0, <1>1, <1>2, <1>9 DEF SendsOn
<1>11. Call(p) = 1 => h \in DOMAIN wire
  BY <1>0, <1>5, <1>6, <1>7 DEF IsPlan, RingTo
<1> QED
  BY <1>0, <1>8, <1>9, <1>10, <1>11

(* A rank receives on the connection its exchange names. *)
LEMMA RecvSocket ==
  ASSUME NEW X, IsPlan(X), InCall(X), Stages, Ring, NEW p \in Ranks, Receiving(p)
  PROVE  /\ Socket(p) \in Chan /\ Socket(p)[1] = Now(p).peer /\ Socket(p)[2] = p
         /\ RecvsOn(X, Socket(p), Call(p), at[p])
         /\ Now(p).tag = RingTag => Socket(p) \in DOMAIN wire
<1>0. PICK x, k, q, t, h : x = X[Call(p)] /\ k = at[p] /\ q = Now(p).peer /\ t = Now(p).tag
                            /\ h = <<q, p, t>>
  OBVIOUS
<1>1. /\ Call(p) \in DOMAIN X /\ IsExchange(x) /\ p \in MembersOf(x.group)
      /\ k \in 1 .. StepsOf(x) /\ Now(p) = InsOf(x, p, k) /\ ~Now(p).send
      /\ pc[p] = "exchange"
  BY <1>0, ExchangingStep DEF Receiving
<1>2. ~InsOf(x, p, k).send /\ InsOf(x, p, k).peer = q /\ InsOf(x, p, k).tag = t
  BY <1>0, <1>1
<1>3. RecvShape(x, q, p, k)
  BY <1>1, <1>2, RecvIndex
<1>4. q \in Ranks /\ t \in Tags
  <2>1. q \in MembersOf(x.group) /\ t \in Tags
    BY <1>2, <1>3 DEF RecvShape
  <2> QED
    BY <1>1, <2>1, MemberIndex DEF IsExchange
<1>5. x.what = "ALLGATHER" => q = Pv(p)
  <2> SUFFICES ASSUME x.what = "ALLGATHER" PROVE q = Pv(p)
    OBVIOUS
  <2>1. x.group = World
    BY <1>0, <1>1 DEF IsPlan
  <2>2. IndexIn(World, q) = Down(IndexIn(World, p), 1, Len(World))
    BY <1>3, <2>1 DEF RecvShape, Gathers
  <2> QED
    BY <1>4, <2>2, WorldGroup DEF Pv
<1>6. t = RingTag <=> x.what = "ALLGATHER"
  <2>1. k \in 1 .. 2 * (Len(x.group) - 1) /\ Len(x.group) \in Nat \ {0}
    BY <1>3 DEF RecvShape
  <2>2. (k - 1) \div 2 \in Nat
    <3>1. k \in Nat \ {0}
      BY <2>1
    <3> QED
      BY <3>1
  <2>3. CASE x.what = "BARRIER"
    BY <1>2, <1>3, <2>3 DEF RecvShape, RingTag
  <2>4. CASE x.what = "ALLTOALL"
    <3>1. t = (k - 1) \div 2 + 1
      BY <1>2, <1>3, <2>4 DEF RecvShape
    <3> QED
      BY <2>2, <2>4, <3>1 DEF RingTag
  <2>5. CASE x.what \in Gathers
    <3>1. t = TagOf(x, (k - 1) \div 2)
      BY <1>2, <1>3, <2>5 DEF RecvShape
    <3>2. CASE x.what = "GROUPGATHER"
      BY <2>2, <3>1, <3>2 DEF RingTag, TagOf
    <3>3. CASE x.what = "ALLGATHER"
      BY <3>1, <3>3 DEF TagOf
    <3> QED
      BY <2>5, <3>2, <3>3 DEF Gathers
  <2> QED
    BY <1>1, <2>3, <2>4, <2>5 DEF IsExchange, Exchanges, Gathers
<1>7. prev[p] = RingFrom(p) /\ RingFrom(p) \in DOMAIN wire
  BY <1>1 DEF Ring, InRing
<1>8. Socket(p) = h
  <2>1. CASE t = RingTag
    BY <1>0, <1>1, <1>5, <1>6, <1>7, <2>1 DEF Socket, RingFrom
  <2>2. CASE t # RingTag
    BY <1>0, <1>1, <2>2 DEF Socket
  <2> QED
    BY <2>1, <2>2
<1>9. h \in Chan /\ h[1] = q /\ h[2] = p /\ h[3] = t
  BY <1>0, <1>4 DEF Chan
<1>10. RecvsOn(X, h, Call(p), k)
  BY <1>0, <1>1, <1>2, <1>9 DEF RecvsOn
<1>11. t = RingTag => h \in DOMAIN wire
  BY <1>0, <1>5, <1>6, <1>7 DEF RingFrom
<1> QED
  BY <1>0, <1>8, <1>9, <1>10, <1>11

AtIsNat == \A q \in Ranks : Active(q) => at[q] \in Nat

(* The next step of a rank in an exchange is a number. *)
LEMMA AtNat ==
  ASSUME NEW X, IsPlan(X), InCall(X)
  PROVE  AtIsNat
<1> SUFFICES ASSUME NEW q \in Ranks, Active(q) PROVE at[q] \in Nat
  BY DEF AtIsNat
<1>1. Call(q) \in DOMAIN X /\ at[q] \in 1 .. StepsOf(X[Call(q)]) + 1
  BY DEF InCall
<1>2. StepsOf(X[Call(q)]) \in Int
  <2>1. X[Call(q)].group \in Seq(Ranks)
    BY <1>1 DEF IsPlan, Groups
  <2> QED
    BY <2>1 DEF StepsOf
<1> QED
  BY <1>1, <1>2

(* A block taken from a connection was the first that was pending there. *)
LEMMA Pop ==
  ASSUME NEW X, IsPlan(X), Shapes, Wires(X), Causal(X), AtIsNat, NEW p \in Ranks,
         Advances(p), NEW h \in Chan, h[2] = p, RecvsOn(X, h, Call(p), at[p]),
         h \in DOMAIN wire, wire[h] # <<>>, wire' = [wire EXCEPT ![h] = Tail(wire[h])]
  PROVE  /\ Wires(X)' /\ Causal(X)'
         /\ \E k : /\ Paired(X, h, Call(p), k, at[p])
                   /\ Head(wire[h]) = Load(X, h, Call(p), k)
                   /\ OriginBegan(X, h, Call(p), k)
<1>0. PICK c, l : c = Call(p) /\ l = at[p]
  OBVIOUS
<1>1. /\ RecvsOn(X, h, c, l) /\ c \in Nat /\ l \in Nat /\ at[p] \in Nat
      /\ pc[p] = "exchange" /\ op[p] # "NONE"
  BY <1>0, OnPlan DEF Advances
<1>2. PICK s, k : /\ Carries(X, h, wire[h], s) /\ s # <<>> /\ s[1] = <<c, k>>
                  /\ Paired(X, h, c, k, l) /\ Passed(h[1], c, k)
  BY <1>0, <1>1, HeadIsWanted DEF AtIsNat
<1>3. /\ SendsOn(X, h, c, k) /\ <<c, k>> \in Pairs /\ k \in Nat
  BY <1>2, OnPlan DEF Paired
<1>4. ~Passed(p, c, l) /\ \A b : \A j \in Nat :
        Passed(p, b, j)' <=> Passed(p, b, j) \/ (b = c /\ j = l)
  <2>1. ~Passed(p, c, l)
    BY <1>0, <1>1 DEF Passed, Call, Shapes
  <2> QED
    BY <1>0, <1>1, <2>1, AdvancePassed
<1>5. \A q \in Ranks : \A b, j : q # p => (Passed(q, b, j)' <=> Passed(q, b, j))
  BY <1>1, AdvancePassed
<1>6. \A d \in Chan : \A b, j : SendsOn(X, d, b, j) =>
        (Passed(d[1], b, j)' <=> Passed(d[1], b, j))
  <2> SUFFICES ASSUME NEW d \in Chan, NEW b, NEW j, SendsOn(X, d, b, j)
               PROVE  Passed(d[1], b, j)' <=> Passed(d[1], b, j)
    OBVIOUS
  <2>1. d[1] \in Ranks /\ j \in Nat
    BY OnPlan
  <2>2. d[1] = p => ~(b = c /\ j = l)
    BY <1>1 DEF SendsOn, RecvsOn
  <2> QED
    BY <1>4, <1>5, <2>1, <2>2
<1>7. \A d \in Chan : \A b, j : RecvsOn(X, d, b, j) =>
        (Passed(d[2], b, j)' <=> Passed(d[2], b, j) \/ (d = h /\ b = c /\ j = l))
  <2> SUFFICES ASSUME NEW d \in Chan, NEW b, NEW j, RecvsOn(X, d, b, j)
               PROVE  Passed(d[2], b, j)' <=> Passed(d[2], b, j) \/ (d = h /\ b = c /\ j = l)
    OBVIOUS
  <2>1. d[2] \in Ranks /\ j \in Nat
    BY OnPlan
  <2>2. d[2] = p /\ b = c /\ j = l => d = h
    BY <1>1, SameConnection DEF RecvsOn
  <2> QED
    BY <1>4, <1>5, <2>1, <2>2
<1>8. \A d \in Chan : \A b, j : Received(X, d, b, j)' <=>
         Received(X, d, b, j) \/ (d = h /\ b = c /\ j = k)
  <2> SUFFICES ASSUME NEW d \in Chan, NEW b, NEW j
               PROVE  Received(X, d, b, j)' <=>
                        Received(X, d, b, j) \/ (d = h /\ b = c /\ j = k)
    OBVIOUS
  <2>1. \A i : Paired(X, d, b, j, i) =>
          (Passed(d[2], b, i)' <=> Passed(d[2], b, i) \/ (d = h /\ b = c /\ i = l))
    BY <1>7 DEF Paired
  <2>2. \A i : Paired(X, d, b, j, i) /\ d = h /\ b = c => (i = l <=> j = k)
    <3> SUFFICES ASSUME NEW i, Paired(X, h, c, j, i) PROVE i = l <=> j = k
      OBVIOUS
    <3> QED
      BY <1>2, PairsInOrder
  <2> QED
    BY <1>2, <2>1, <2>2 DEF Received
<1>9. \A d \in Chan : \A e : e \in Pending(X, d)' <=>
        e \in Pending(X, d) /\ ~(d = h /\ e = <<c, k>>)
  <2> SUFFICES ASSUME NEW d \in Chan, NEW e
               PROVE  e \in Pending(X, d)' <=> e \in Pending(X, d) /\ ~(d = h /\ e = <<c, k>>)
    OBVIOUS
  <2>1. e \in Pairs => (e = <<c, k>> <=> e[1] = c /\ e[2] = k)
    BY <1>1, <1>3 DEF Pairs
  <2>2. e \in Pending(X, d)' <=>
          /\ e \in Pairs /\ SendsOn(X, d, e[1], e[2]) /\ Passed(d[1], e[1], e[2])
          /\ ~Received(X, d, e[1], e[2])'
    BY <1>6 DEF Pending
  <2> QED
    BY <1>8, <2>1, <2>2 DEF Pending
<1>10. \A d \in Chan : \A b, j : SendsOn(X, d, b, j) =>
         (OriginBegan(X, d, b, j) => OriginBegan(X, d, b, j)')
  <2> SUFFICES ASSUME NEW d \in Chan, NEW b, NEW j, SendsOn(X, d, b, j), OriginBegan(X, d, b, j)
               PROVE  OriginBegan(X, d, b, j)'
    OBVIOUS
  <2>1. \A q \in Ranks : Began(q, b) => Began(q, b)'
    BY <1>1, AdvancePassed
  <2> QED
    BY <2>1, StillOrigin
<1>11. Wires(X)'
  <2> SUFFICES ASSUME NEW d \in Chan
               PROVE  /\ d \notin DOMAIN wire' => \A e \in Pending(X, d)' : FALSE
                      /\ d \in DOMAIN wire' => \E u : Carries(X, d, wire[d], u)'
    BY DEF Wires
  <2>1. CASE d \notin DOMAIN wire
    <3>1. d \notin DOMAIN wire' /\ d # h
      BY <2>1
    <3> QED
      BY <1>9, <2>1, <3>1 DEF Wires
  <2>2. CASE d \in DOMAIN wire /\ d # h
    <3>1. PICK u : Carries(X, d, wire[d], u)
      BY <2>2 DEF Wires
    <3>2. Lists(u, Pending(X, d))
      BY <3>1 DEF Carries
    <3>3. Lists(u, Pending(X, d)')
      BY <1>9, <2>2, <3>2 DEF Lists
    <3>4. \A i \in 1 .. Len(u) : OriginBegan(X, d, u[i][1], u[i][2])'
      <4> SUFFICES ASSUME NEW i \in 1 .. Len(u) PROVE OriginBegan(X, d, u[i][1], u[i][2])'
        OBVIOUS
      <4>1. u[i] \in Pending(X, d) /\ OriginBegan(X, d, u[i][1], u[i][2])
        BY <3>1, <3>2 DEF Carries, Lists
      <4>2. SendsOn(X, d, u[i][1], u[i][2])
        BY <4>1 DEF Pending
      <4> QED
        BY <1>10, <4>1, <4>2
    <3>5. wire'[d] = wire[d] /\ d \in DOMAIN wire'
      BY <2>2
    <3>6. \A i \in 1 .. Len(wire'[d]) : wire'[d][i] = Load(X, d, u[i][1], u[i][2])'
      BY <3>1, <3>5 DEF Carries, Load
    <3>7. Carries(X, d, wire[d], u)'
      BY <3>1, <3>3, <3>4, <3>5, <3>6 DEF Carries
    <3> QED
      BY <3>5, <3>7
  <2>3. CASE d = h
    <3> DEFINE t == Tail(s)
               w == Tail(wire[h])
    <3>2. /\ Lists(s, Pending(X, h)) /\ wire[h] \in Seq(Messages) /\ Len(s) = Len(wire[h])
          /\ s \in Seq(Pairs)
      BY <1>2 DEF Carries, Lists
    <3>3. Lists(t, Pending(X, h)')
      <4>1. \A e : e \in Pending(X, h)' <=> e \in Pending(X, h) /\ e # s[1]
        BY <1>2, <1>9
      <4> QED
        BY <1>2, <3>2, <4>1, ListLess
    <3>4. /\ w \in Seq(Messages) /\ Len(t) = Len(w) /\ Len(w) + 1 = Len(s)
          /\ \A i \in 1 .. Len(w) :
               w[i] = wire[h][i + 1] /\ t[i] = s[i + 1] /\ i + 1 \in 1 .. Len(s)
      BY <1>2, <3>2
    <3>5. wire'[h] = w /\ h \in DOMAIN wire'
      OBVIOUS
    <3> HIDE DEF t, w
    <3>6. \A i \in 1 .. Len(w) :
            w[i] = Load(X, h, t[i][1], t[i][2]) /\ OriginBegan(X, h, t[i][1], t[i][2])'
      <4> SUFFICES ASSUME NEW i \in 1 .. Len(w)
                   PROVE  w[i] = Load(X, h, t[i][1], t[i][2])
                          /\ OriginBegan(X, h, t[i][1], t[i][2])'
        OBVIOUS
      <4>1. PICK n : n = i + 1 /\ n \in 1 .. Len(s) /\ w[i] = wire[h][n] /\ t[i] = s[n]
        BY <3>4
      <4>2. /\ s[n] \in Pending(X, h) /\ wire[h][n] = Load(X, h, s[n][1], s[n][2])
            /\ OriginBegan(X, h, s[n][1], s[n][2])
        BY <1>2, <3>2, <4>1 DEF Carries, Lists
      <4>3. SendsOn(X, h, s[n][1], s[n][2])
        BY <4>2 DEF Pending
      <4> QED
        BY <1>10, <4>1, <4>2, <4>3
    <3>7. \A i \in 1 .. Len(wire'[h]) : wire'[h][i] = Load(X, h, t[i][1], t[i][2])'
      BY <3>5, <3>6 DEF Load
    <3>8. Carries(X, h, wire[h], t)'
      BY <3>3, <3>4, <3>5, <3>6, <3>7 DEF Carries
    <3> QED
      BY <2>3, <3>5, <3>8
  <2> QED
    BY <2>1, <2>2, <2>3
<1>12. Causal(X)'
  <2> SUFFICES ASSUME NEW d \in Chan, NEW b, NEW j, NEW i,
                      Paired(X, d, b, j, i), Passed(d[2], b, i)'
               PROVE  Passed(d[1], b, j)'
    BY DEF Causal
  <2>1. SendsOn(X, d, b, j) /\ RecvsOn(X, d, b, i)
    BY DEF Paired
  <2>2. CASE Passed(d[2], b, i)
    <3>1. Passed(d[1], b, j)
      BY <2>2 DEF Causal
    <3> QED
      BY <1>6, <2>1, <3>1
  <2>3. CASE d = h /\ b = c /\ i = l
    <3>1. j = k
      BY <1>2, <2>3, PairsInOrder
    <3>2. Passed(d[1], b, j)
      BY <1>2, <2>3, <3>1
    <3> QED
      BY <1>6, <2>1, <3>2
  <2> QED
    BY <1>7, <2>1, <2>2, <2>3
<1>13. Head(wire[h]) = Load(X, h, c, k) /\ OriginBegan(X, h, c, k)
  <2>1. wire[h] \in Seq(Messages) /\ 1 \in 1 .. Len(wire[h])
    BY <1>2 DEF Carries
  <2>2. wire[h][1] = Load(X, h, s[1][1], s[1][2]) /\ OriginBegan(X, h, s[1][1], s[1][2])
    BY <1>2, <2>1 DEF Carries
  <2>3. s[1][1] = c /\ s[1][2] = k
    BY <1>2
  <2>4. Head(wire[h]) = wire[h][1]
    BY <2>1
  <2> QED
    BY <2>2, <2>3, <2>4
<1> QED
  BY <1>0, <1>2, <1>11, <1>12, <1>13

Same(q) ==
  /\ data'[q] = data[q] /\ recv_buf'[q] = recv_buf[q] /\ pc'[q] = pc[q] /\ op'[q] = op[q]
  /\ group'[q] = group[q] /\ at'[q] = at[q] /\ returned'[q] = returned[q]

(* A place counted back from a member's is one of the group's. *)
LEMMA Places ==
  ASSUME NEW x, IsExchange(x), NEW p \in MembersOf(x.group), NEW e \in 0 .. Len(x.group) - 1
  PROVE  LET g == x.group
             m == Len(g)
             i == IndexIn(g, p)
         IN /\ m \in Nat \ {0} /\ i \in 0 .. m - 1 /\ m <= nRanks /\ g[i + 1] = p
            /\ Down(i, e, m) \in 0 .. m - 1 /\ Down(i, e, m) \in Blocks
            /\ g[Down(i, e, m) + 1] \in Ranks /\ g[Down(i, e, m) + 1] \in MembersOf(g)
<1> DEFINE g == x.group
           m == Len(g)
           i == IndexIn(g, p)
           b == Down(i, e, m)
<1>1. g \in Groups /\ m \in Nat \ {0} /\ i \in 0 .. m - 1 /\ m <= nRanks /\ g[i + 1] = p
  BY MemberIndex, GroupSize DEF IsExchange
<1>2. b \in 0 .. m - 1 /\ b \in Blocks
  <2>1. nRanks \in Nat
    BY TeamsAssumption
  <2>2. e \in 0 .. m - 1
    OBVIOUS
  <2> HIDE DEF m, i
  <2> QED
    BY <1>1, <2>1, <2>2 DEF Down, Blocks
<1>3. g[b + 1] \in Ranks
  <2> HIDE DEF b
  <2> QED
    BY <1>1, <1>2, Index
<1>4. g[b + 1] \in MembersOf(g)
  <2> HIDE DEF b
  <2> QED
    BY <1>1, <1>2 DEF MembersOf
<1> QED
  BY <1>1, <1>2, <1>3, <1>4

(* A rank that a step leaves alone holds what it held. *)
LEMMA HoldsKept ==
  ASSUME NEW X, IsPlan(X), InCall(X), Stages, NEW q \in Ranks, Same(q), Holds(X, q),
         \A c : c = Call(q) /\ pc[q] \in {"exchange", "over"} =>
           \A r \in Ranks : Began(r, c) => Began(r, c)'
  PROVE  Holds(X, q)'
<1> SUFFICES ASSUME pc'[q] \in {"exchange", "over"} PROVE Holds(X, q)'
  BY DEF Holds
<1>0. PICK c, x : c = Call(q) /\ x = X[c]
  OBVIOUS
<1>1. /\ pc[q] \in {"exchange", "over"} /\ op[q] # "NONE" /\ Active(q) /\ Call(q)' = c
  BY <1>0 DEF Same, Stages, Active, Call
<1>2. IsExchange(x) /\ q \in MembersOf(x.group)
  BY <1>0, <1>1 DEF IsPlan, InCall, IsExchange
<1>3. op'[q] \in Gathers => Gathered(X, q)'
  <2> SUFFICES ASSUME op'[q] \in Gathers PROVE Gathered(X, q)'
    OBVIOUS
  <2> DEFINE m == Len(x.group)
             i == IndexIn(x.group, q)
  <2>1. Gathered(X, q)
    BY <1>1 DEF Same, Holds
  <2>2. \A e \in 0 .. m - 1 : 2 * e < at[q] =>
          /\ data[q][Down(i, e, m)] = BlockOf(X, c, x.group[Down(i, e, m) + 1], Down(i, e, m))
          /\ Began(x.group[Down(i, e, m) + 1], c)'
    <3> SUFFICES ASSUME NEW e \in 0 .. m - 1, 2 * e < at[q]
                 PROVE  /\ data[q][Down(i, e, m)] =
                             BlockOf(X, c, x.group[Down(i, e, m) + 1], Down(i, e, m))
                        /\ Began(x.group[Down(i, e, m) + 1], c)'
      OBVIOUS
    <3>1. x.group[Down(i, e, m) + 1] \in Ranks
      BY <1>2, Places
    <3>2. /\ data[q][Down(i, e, m)] =
               BlockOf(X, c, x.group[Down(i, e, m) + 1], Down(i, e, m))
          /\ Began(x.group[Down(i, e, m) + 1], c)
      BY <1>0, <2>1 DEF Gathered
    <3> QED
      BY <1>0, <1>1, <3>1, <3>2
  <2>3. \A e \in 0 .. m - 1 : 2 * e < at'[q] =>
          /\ data'[q][Down(i, e, m)] = BlockOf(X, c, x.group[Down(i, e, m) + 1], Down(i, e, m))'
          /\ Began(x.group[Down(i, e, m) + 1], c)'
    BY <2>2 DEF Same, BlockOf
  <2> QED
    BY <1>0, <1>1, <2>3 DEF Gathered
<1>4. op'[q] = "ALLTOALL" /\ pc'[q] = "exchange" => Swapping(X, q)'
  <2> SUFFICES ASSUME op'[q] = "ALLTOALL", pc'[q] = "exchange" PROVE Swapping(X, q)'
    OBVIOUS
  <2>1. Swapping(X, q)
    BY <1>1 DEF Same, Holds
  <2> QED
    BY <1>0, <1>1, <2>1 DEF Swapping, Same, BlockOf
<1>5. op'[q] = "ALLTOALL" /\ pc'[q] = "over" => Swapped(X, q)'
  <2> SUFFICES ASSUME op'[q] = "ALLTOALL", pc'[q] = "over" PROVE Swapped(X, q)'
    OBVIOUS
  <2>1. Swapped(X, q)
    BY <1>1 DEF Same, Holds
  <2> QED
    BY <1>0, <1>1, <2>1 DEF Swapped, Same, BlockOf
<1>6. op'[q] = "BARRIER" => data'[q][nRanks] = NoBlock
  BY <1>1 DEF Same, Holds, NoBlock
<1> QED
  BY <1>3, <1>4, <1>5, <1>6 DEF Holds, NoBlock

(* A rank that takes a step of its exchange stays in that exchange. *)
LEMMA AdvanceInCall ==
  ASSUME NEW X, IsPlan(X), InCall(X), Shapes, Stages, NEW p \in Ranks, Exchanging(p), Advances(p)
  PROVE  InCall(X)'
<1> SUFFICES ASSUME NEW q \in Ranks, Active(q)'
             PROVE  /\ Call(q)' \in DOMAIN X
                    /\ op'[q] = X[Call(q)'].what /\ group'[q] = X[Call(q)'].group
                    /\ q \in MembersOf(X[Call(q)'].group)
                    /\ at'[q] \in 1 .. StepsOf(X[Call(q)']) + 1
                    /\ pc'[q] = "over" => at'[q] = StepsOf(X[Call(q)']) + 1
  BY DEF InCall, StepsOf
<1>1. Call(q)' = Call(q) /\ Active(q)
  BY DEF Advances, Active, Call
<1>2. CASE q # p
  BY <1>1, <1>2 DEF InCall, Advances, Shapes
<1>3. CASE q = p
  <2>1. at[p] \in 1 .. StepsOf(X[Call(p)]) /\ at'[p] = at[p] + 1 /\ pc'[p] = "exchange"
    BY ExchangingStep DEF Advances, Shapes
  <2>2. at'[p] \in 1 .. StepsOf(X[Call(p)]) + 1
    <3>1. StepsOf(X[Call(p)]) \in Int
      <4>1. X[Call(p)].group \in Seq(Ranks)
        BY ExchangingStep DEF IsExchange, Groups
      <4> QED
        BY <4>1 DEF StepsOf
    <3> QED
      BY <2>1, <3>1
  <2> QED
    BY <1>1, <1>3, <2>1, <2>2 DEF InCall, Advances
<1> QED
  BY <1>2, <1>3

Delivering(X) ==
  /\ Shapes /\ Stages /\ Ring /\ InCall(X)
  /\ Wires(X) /\ Causal(X) /\ Holding(X)

(* The block a rank sends is the one its exchange wants there. *)
LEMMA SentIsLoad ==
  ASSUME NEW X, IsPlan(X), Delivering(X), NEW p \in Ranks, Sending(p)
  PROVE  /\ data[p][Now(p).block] = Load(X, Socket(p), Call(p), at[p])
         /\ OriginBegan(X, Socket(p), Call(p), at[p])
<1>0. PICK x, c, k, q, h, b : x = X[c] /\ c = Call(p) /\ k = at[p] /\ q = Now(p).peer
                            /\ h = Socket(p) /\ b = Now(p).block
  OBVIOUS
<1> DEFINE g == x.group
           m == Len(g)
           i == IndexIn(g, p)
           j == (k - 1) \div 2
<1>1. /\ c \in DOMAIN X /\ IsExchange(x) /\ p \in MembersOf(g) /\ k \in 1 .. StepsOf(x)
      /\ Now(p) = InsOf(x, p, k) /\ Now(p).send /\ pc[p] = "exchange" /\ op[p] = x.what
  BY <1>0, ExchangingStep DEF Sending, Delivering
<1>2. h[1] = p /\ h \in Chan
  BY <1>0, SendSocket DEF Delivering
<1>3. SendShape(x, p, q, k) /\ InsOf(x, p, k).block = b
  <2>1. InsOf(x, p, k).send /\ InsOf(x, p, k).peer = q /\ InsOf(x, p, k).block = b
    BY <1>0, <1>1
  <2> QED
    BY <1>1, <2>1, SendIndex
<1>4. Holds(X, p)
  BY DEF Delivering, Holding
<1>5. m \in Nat \ {0} /\ k \in 1 .. 2 * (m - 1) /\ m <= nRanks /\ i \in 0 .. m - 1
      /\ IndexIn(g, q) \in 0 .. m - 1
  BY <1>3 DEF SendShape
<1>6. CASE x.what \in Gathers
  <2>1. b = Down(i, j, m) /\ k % 2 = 1
    BY <1>3, <1>6 DEF SendShape
  <2>2. Gathered(X, p)
    BY <1>1, <1>4, <1>6 DEF Holds
  <2>3. j \in 0 .. m - 1 /\ 2 * j < k
    <3> HIDE DEF m
    <3> QED
      BY <1>5, <2>1
  <2>4. data[p][Down(i, j, m)] = BlockOf(X, c, g[Down(i, j, m) + 1], Down(i, j, m))
        /\ Began(g[Down(i, j, m) + 1], c)
    <3> HIDE DEF j
    <3> QED
      BY <1>0, <2>2, <2>3 DEF Gathered
  <2>5. data[p][b] = BlockOf(X, c, g[b + 1], b) /\ Began(g[b + 1], c)
    BY <2>1, <2>4
  <2>6. Load(X, h, c, k) = BlockOf(X, c, g[b + 1], b)
    BY <1>0, <1>2, <1>3, <1>6 DEF Load, Gathers
  <2>7. OriginBegan(X, h, c, k)
    BY <1>0, <1>2, <1>3, <2>5 DEF OriginBegan
  <2> QED
    BY <1>0, <2>5, <2>6, <2>7
<1>7. CASE x.what = "ALLTOALL"
  <2>1. b = IndexIn(g, q)
    BY <1>3, <1>7 DEF SendShape
  <2>2. Swapping(X, p)
    BY <1>1, <1>4, <1>7 DEF Holds
  <2>3. data[p][b] = BlockOf(X, c, p, b)
    BY <1>0, <1>5, <2>1, <2>2 DEF Swapping
  <2>4. Load(X, h, c, k) = BlockOf(X, c, p, b)
    BY <1>0, <1>2, <1>3, <1>7 DEF Load
  <2>5. OriginBegan(X, h, c, k)
    BY <1>0, <1>7 DEF OriginBegan, Gathers
  <2> QED
    BY <1>0, <2>3, <2>4, <2>5
<1>8. CASE x.what = "BARRIER"
  <2>1. b = nRanks
    BY <1>3, <1>8 DEF SendShape
  <2>2. data[p][b] = NoBlock
    BY <1>1, <1>4, <1>8, <2>1 DEF Holds
  <2>3. Load(X, h, c, k) = NoBlock
    BY <1>0, <1>8 DEF Load
  <2>4. OriginBegan(X, h, c, k)
    BY <1>0, <1>8 DEF OriginBegan, Gathers
  <2> QED
    BY <1>0, <2>2, <2>3, <2>4
<1> QED
  BY <1>1, <1>6, <1>7, <1>8 DEF IsExchange, Exchanges, Gathers

(* A send, SendBlock, keeps the delivery of blocks. *)
LEMMA SendStep ==
  ASSUME NEW X, IsPlan(X), Delivering(X), NEW p \in Ranks, SendBlock(p)
  PROVE  Shapes' /\ InCall(X)' /\ Wires(X)' /\ Causal(X)' /\ Holding(X)'
<1>0. PICK x, c, k : x = X[c] /\ c = Call(p) /\ k = at[p]
  OBVIOUS
<1> DEFINE g == x.group
           m == Len(g)
           i == IndexIn(g, p)
           j == (k - 1) \div 2
<1>1. /\ c \in DOMAIN X /\ IsExchange(x) /\ p \in MembersOf(g) /\ k \in 1 .. StepsOf(x)
      /\ k \in Nat
      /\ Now(p) = InsOf(x, p, k) /\ Now(p).send /\ pc[p] = "exchange" /\ op[p] = x.what
      /\ op[p] # "NONE" /\ Exchanging(p) /\ Sending(p)
  BY <1>0, ExchangingStep DEF Sending, Delivering, SendBlock
<1>2. Advances(p) /\ data' = data /\ recv_buf' = recv_buf
  BY <1>1 DEF SendBlock, Advances, fixed
<1>3. Shapes'
  BY <1>2 DEF Advances, Shapes, Delivering
<1>4. InCall(X)'
  BY <1>1, <1>2, AdvanceInCall DEF Delivering
<1>5. Wires(X)' /\ Causal(X)'
  <2>1. wire' = [wire EXCEPT ![Socket(p)] =
                   Append(wire[Socket(p)], Load(X, Socket(p), Call(p), at[p]))]
    BY <1>1, SentIsLoad DEF SendBlock, Send
  <2>2. OriginBegan(X, Socket(p), Call(p), at[p]) /\ Socket(p) \in DOMAIN wire
    BY <1>1, SentIsLoad DEF SendBlock
  <2>3. Socket(p) \in Chan /\ Socket(p)[1] = p /\ SendsOn(X, Socket(p), Call(p), at[p])
    BY <1>1, SendSocket DEF Delivering
  <2>4. PICK h : h = Socket(p)
    OBVIOUS
  <2>5. h \in Chan /\ h[1] = p /\ SendsOn(X, h, Call(p), at[p]) /\ h \in DOMAIN wire
        /\ OriginBegan(X, h, Call(p), at[p])
        /\ wire' = [wire EXCEPT ![h] = Append(wire[h], Load(X, h, Call(p), at[p]))]
    BY <2>1, <2>2, <2>3, <2>4
  <2>6. at[p] \in Nat /\ Shapes /\ Wires(X) /\ Causal(X)
    BY <1>0, <1>1 DEF Delivering
  <2> QED
    BY <1>2, <2>5, <2>6, Push
<1>6. \A q \in Ranks : \A b : Began(q, b)' <=> Began(q, b)
  BY <1>0, <1>1, <1>2, AdvancePassed DEF Delivering
<1>7. Holding(X)'
  <2> SUFFICES ASSUME NEW q \in Ranks PROVE Holds(X, q)'
    BY DEF Holding
  <2>0. Holds(X, q)
    BY DEF Delivering, Holding
  <2>1. CASE q # p
    <3>1. Same(q)
      BY <1>2, <2>1 DEF Same, Advances, Delivering, Shapes
    <3> QED
      BY <1>6, <2>0, <3>1, HoldsKept DEF Delivering
  <2>2. CASE q = p
    <3>1. at'[p] = k + 1 /\ pc'[p] = "exchange" /\ op'[p] = x.what /\ Call(p)' = c
      BY <1>0, <1>1, <1>2 DEF Advances, Delivering, Shapes, Call
    <3>2. CASE x.what = "BARRIER"
      BY <1>1, <1>2, <2>0, <2>2, <3>1, <3>2 DEF Holds, Gathers, NoBlock
    <3>3. CASE x.what # "BARRIER"
      <4>1. k % 2 = 1 /\ m \in Nat \ {0} /\ k \in 1 .. 2 * (m - 1)
        <5>1. PICK r : r = Now(p).peer
          OBVIOUS
        <5>2. SendShape(x, p, r, k)
          BY <1>1, <5>1, SendIndex
        <5> QED
          BY <1>1, <3>3, <5>2 DEF SendShape, IsExchange, Exchanges, Gathers
      <4>2. \A e \in 0 .. m - 1 : 2 * e < k + 1 => 2 * e < k
        <5> HIDE DEF m
        <5> QED
          BY <4>1
      <4>3. CASE x.what \in Gathers
        <5>1. Gathered(X, p)
          BY <1>1, <2>0, <2>2, <4>3 DEF Holds
        <5>2. \A e \in 0 .. m - 1 : 2 * e < k + 1 =>
                /\ data'[p][Down(i, e, m)] = BlockOf(X, c, g[Down(i, e, m) + 1], Down(i, e, m))
                /\ Began(g[Down(i, e, m) + 1], c)'
          <6> SUFFICES ASSUME NEW e \in 0 .. m - 1, 2 * e < k + 1
                       PROVE  /\ data'[p][Down(i, e, m)] =
                                   BlockOf(X, c, g[Down(i, e, m) + 1], Down(i, e, m))
                              /\ Began(g[Down(i, e, m) + 1], c)'
            OBVIOUS
          <6>1. 2 * e < k
            BY <4>2
          <6>2. g[Down(i, e, m) + 1] \in Ranks
            BY <1>1, Places
          <6> QED
            BY <1>0, <1>2, <1>6, <5>1, <6>1, <6>2 DEF Gathered
        <5>3. Gathered(X, p)'
          BY <1>0, <3>1, <5>2 DEF Gathered, BlockOf
        <5> QED
          BY <2>2, <3>1, <4>3, <5>3 DEF Holds, Gathers
      <4>4. CASE x.what = "ALLTOALL"
        <5>1. Swapping(X, p)
          BY <1>1, <2>0, <2>2, <4>4 DEF Holds
        <5>2. \A e \in 1 .. m - 1 : 2 * e < k + 1 => 2 * e < k
          <6>1. m \in Nat
            BY <4>1
          <6> HIDE DEF m
          <6> QED
            BY <4>2, <6>1
        <5>3. Swapping(X, p)'
          BY <1>0, <1>2, <3>1, <5>1, <5>2 DEF Swapping, BlockOf
        <5> QED
          BY <2>2, <3>1, <4>4, <5>3 DEF Holds, Gathers
      <4> QED
        BY <1>1, <3>3, <4>3, <4>4 DEF IsExchange, Exchanges, Gathers
    <3> QED
      BY <3>2, <3>3
  <2> QED
    BY <2>1, <2>2
<1> QED
  BY <1>3, <1>4, <1>5, <1>7

(* A block is received where the code expects that of its sender. *)
LEMMA RecvStep ==
  ASSUME NEW X, IsPlan(X), Delivering(X), NEW p \in Ranks, RecvBlock(p),
         peerRecvSockets_[p] \subseteq DOMAIN wire
  PROVE  Shapes' /\ InCall(X)' /\ Wires(X)' /\ Causal(X)' /\ Holding(X)'
<1>0. PICK x, c, l, q, h : x = X[c] /\ c = Call(p) /\ l = at[p] /\ q = Now(p).peer /\ h = Socket(p)
  OBVIOUS
<1> DEFINE g == x.group
           m == Len(g)
           i == IndexIn(g, p)
           j == (l - 1) \div 2
           b == Now(p).block
<1>1. /\ c \in DOMAIN X /\ IsExchange(x) /\ p \in MembersOf(g) /\ l \in 1 .. StepsOf(x)
      /\ l \in Nat
      /\ Now(p) = InsOf(x, p, l) /\ ~Now(p).send /\ pc[p] = "exchange" /\ op[p] = x.what
      /\ op[p] # "NONE" /\ Exchanging(p) /\ Receiving(p)
  BY <1>0, ExchangingStep DEF Receiving, Delivering, RecvBlock
<1>2. Advances(p)
  BY <1>1 DEF RecvBlock, Advances, fixed
<1>3. h \in Chan /\ h[1] = q /\ h[2] = p /\ RecvsOn(X, h, c, l) /\ h \in DOMAIN wire
  <2>1. h \in Chan /\ h[1] = q /\ h[2] = p /\ RecvsOn(X, h, c, l)
        /\ (Now(p).tag = RingTag => h \in DOMAIN wire)
    BY <1>0, <1>1, RecvSocket DEF Delivering
  <2> QED
    BY <1>0, <2>1 DEF RecvBlock, Open
<1>4. Shapes'
  BY <1>2 DEF Advances, Shapes, Delivering, RecvBlock, With
<1>5. InCall(X)'
  BY <1>1, <1>2, AdvanceInCall DEF Delivering
<1>6. /\ Wires(X)' /\ Causal(X)'
      /\ \E k : /\ Paired(X, h, c, k, l)
                /\ Head(wire[h]) = Load(X, h, c, k)
                /\ OriginBegan(X, h, c, k)
  <2>1. wire[h] # <<>> /\ wire' = [wire EXCEPT ![h] = Tail(wire[h])]
    BY <1>0 DEF RecvBlock, Recv
  <2>2. AtIsNat
    BY AtNat DEF Delivering
  <2>3. RecvsOn(X, h, Call(p), at[p])
    BY <1>0, <1>3
  <2>4. /\ Wires(X)' /\ Causal(X)'
         /\ \E k : /\ Paired(X, h, Call(p), k, at[p])
                   /\ Head(wire[h]) = Load(X, h, Call(p), k)
                   /\ OriginBegan(X, h, Call(p), k)
    BY <1>2, <1>3, <2>1, <2>2, <2>3, Pop DEF Delivering
  <2> QED
    BY <1>0, <2>4
<1>7. PICK k : Paired(X, h, c, k, l) /\ Head(wire[h]) = Load(X, h, c, k)
               /\ OriginBegan(X, h, c, k)
  BY <1>6
<1>8. PICK M : M = Head(wire[h])
  OBVIOUS
<1>9. \A r \in Ranks : \A a : Began(r, a)' <=> Began(r, a)
  BY <1>0, <1>1, <1>2, AdvancePassed DEF Delivering
<1>10. RecvShape(x, q, p, l) /\ InsOf(x, p, l).block = b
  <2>1. ~InsOf(x, p, l).send /\ InsOf(x, p, l).peer = q /\ InsOf(x, p, l).block = b
    BY <1>0, <1>1
  <2> QED
    BY <1>1, <2>1, RecvIndex
<1>11. /\ m \in Nat \ {0} /\ l \in 1 .. 2 * (m - 1) /\ m <= nRanks /\ i \in 0 .. m - 1
       /\ q \in MembersOf(g) /\ IndexIn(g, q) \in 0 .. m - 1 /\ b \in Blocks
  BY <1>10 DEF RecvShape
<1>12. /\ x.what \in Gathers => InsOf(x, q, k).block = b
       /\ x.what = "ALLTOALL" => InsOf(x, q, k).block = i /\ b = IndexIn(g, q)
  BY <1>0, <1>3, <1>7, <1>10, PairedBlocks
<1>13. Holding(X)'
  <2> SUFFICES ASSUME NEW r \in Ranks PROVE Holds(X, r)'
    BY DEF Holding
  <2>0. Holds(X, r)
    BY DEF Delivering, Holding
  <2>1. CASE r # p
    <3>1. Same(r)
      <4>1. data'[r] = data[r] /\ recv_buf'[r] = recv_buf[r]
        BY <2>1 DEF Delivering, Shapes, RecvBlock, With
      <4> QED
        BY <1>2, <2>1, <4>1 DEF Same, Advances, Delivering, Shapes
    <3>2. \A a : a = Call(r) /\ pc[r] \in {"exchange", "over"} =>
           \A s \in Ranks : Began(s, a) => Began(s, a)'
      BY <1>9
    <3> QED
      BY <2>0, <3>1, <3>2, HoldsKept DEF Delivering
  <2>2. CASE r = p
    <3>1. at'[p] = l + 1 /\ pc'[p] = "exchange" /\ op'[p] = x.what /\ Call(p)' = c
      BY <1>0, <1>1, <1>2 DEF Advances, Delivering, Shapes, Call
    <3>2. CASE x.what = "BARRIER"
      <4>1. M = NoBlock
        BY <1>0, <1>7, <1>8, <3>2 DEF Load
      <4>2. data' = With(data, p, b, M)
        BY <1>0, <1>1, <1>8, <3>2 DEF RecvBlock
      <4>3. DOMAIN data = Ranks /\ DOMAIN data[p] = Blocks /\ nRanks \in Blocks
        BY TeamsAssumption DEF Delivering, Shapes, Blocks
      <4>4. data'[p][nRanks] = NoBlock
        <5>1. data[p][nRanks] = NoBlock
          BY <1>1, <2>0, <2>2, <3>2 DEF Holds
        <5> QED
          BY <4>1, <4>2, <4>3, <5>1 DEF With
      <4> QED
        BY <2>2, <3>1, <3>2, <4>4 DEF Holds, Gathers, NoBlock
    <3>3. CASE x.what \in Gathers
      <4>1. l % 2 = 0 /\ b = Down(i, j + 1, m)
        BY <1>10, <3>3 DEF RecvShape
      <4>2. j + 1 \in 0 .. m - 1 /\ \A e \in 0 .. m - 1 : 2 * e < l + 1 => 2 * e < l \/ e = j + 1
        <5> HIDE DEF m
        <5> QED
          BY <1>11, <4>1
      <4>3. M = BlockOf(X, c, g[b + 1], b) /\ Began(g[b + 1], c)
        <5>1. Load(X, h, c, k) = BlockOf(X, c, g[b + 1], b)
          <6>1. X[c].what # "BARRIER" /\ X[c].what # "ALLTOALL"
            BY <1>0, <3>3 DEF Gathers
          <6>2. InsOf(X[c], h[1], k).block = b /\ X[c].group = g
            BY <1>0, <1>3, <1>12, <3>3
          <6> HIDE DEF b, g
          <6> QED
            BY <6>1, <6>2 DEF Load
        <5>2. Began(g[b + 1], c)
          BY <1>0, <1>3, <1>7, <1>12, <3>3 DEF OriginBegan
        <5> QED
          BY <1>7, <1>8, <5>1, <5>2
      <4>4. data' = With(data, p, b, M)
        BY <1>0, <1>1, <1>8, <3>3 DEF RecvBlock, Gathers
      <4>5. DOMAIN data = Ranks /\ DOMAIN data[p] = Blocks
        BY DEF Delivering, Shapes
      <4>6. \A a : data'[p][a] = IF a = b THEN M ELSE data[p][a]
        <5>1. data' = [data EXCEPT ![p] = [data[p] EXCEPT ![b] = M]]
          BY <4>4 DEF With
        <5>2. data'[p] = [data[p] EXCEPT ![b] = M]
          BY <4>5, <5>1
        <5> HIDE DEF b
        <5> QED
          BY <1>11, <4>5, <5>2
      <4>7. Gathered(X, p)
        BY <1>1, <2>0, <2>2, <3>3 DEF Holds
      <4>8. \A e \in 0 .. m - 1 : 2 * e < l + 1 =>
              /\ data'[p][Down(i, e, m)] = BlockOf(X, c, g[Down(i, e, m) + 1], Down(i, e, m))
              /\ Began(g[Down(i, e, m) + 1], c)'
        <5> SUFFICES ASSUME NEW e \in 0 .. m - 1, 2 * e < l + 1
                     PROVE  /\ data'[p][Down(i, e, m)] =
                                 BlockOf(X, c, g[Down(i, e, m) + 1], Down(i, e, m))
                            /\ Began(g[Down(i, e, m) + 1], c)'
          OBVIOUS
        <5>1. g[Down(i, e, m) + 1] \in Ranks
          BY <1>1, Places
        <5>2. CASE Down(i, e, m) = b
          <6> HIDE DEF b
          <6> QED
            BY <1>9, <4>3, <4>6, <5>1, <5>2
        <5>3. CASE Down(i, e, m) # b
          <6>1. 2 * e < l
            BY <4>1, <4>2, <5>3
          <6>2. /\ data[p][Down(i, e, m)] =
                     BlockOf(X, c, g[Down(i, e, m) + 1], Down(i, e, m))
                /\ Began(g[Down(i, e, m) + 1], c)
            BY <1>0, <4>7, <6>1 DEF Gathered
          <6> HIDE DEF b
          <6> QED
            BY <1>9, <4>6, <5>1, <5>3, <6>2
        <5> QED
          BY <5>2, <5>3
      <4>9. Gathered(X, p)'
        BY <1>0, <3>1, <4>8 DEF Gathered, BlockOf
      <4> QED
        BY <2>2, <3>1, <3>3, <4>9 DEF Holds, Gathers
    <3>4. CASE x.what = "ALLTOALL"
      <4>1. l % 2 = 0 /\ b = Down(i, j + 1, m) /\ b = IndexIn(g, q)
        BY <1>10, <1>12, <3>4 DEF RecvShape
      <4>2. \A e \in 1 .. m - 1 : 2 * e < l + 1 => 2 * e < l \/ e = j + 1
        <5> HIDE DEF m
        <5> QED
          BY <1>11, <4>1
      <4>3. M = BlockOf(X, c, g[b + 1], i)
        <5>1. Load(X, h, c, k) = BlockOf(X, c, q, i)
          BY <1>0, <1>3, <1>12, <3>4 DEF Load
        <5>2. g[b + 1] = q
          <6>1. g[IndexIn(g, q) + 1] = q
            BY <1>1, <1>11, MemberIndex DEF IsExchange
          <6> QED
            BY <4>1, <6>1
        <5> QED
          BY <1>7, <1>8, <5>1, <5>2
      <4>4. recv_buf' = With(recv_buf, p, b, M) /\ data' = data
        BY <1>0, <1>1, <1>8, <3>4 DEF RecvBlock
      <4>5. DOMAIN recv_buf = Ranks /\ DOMAIN recv_buf[p] = Blocks
        BY DEF Delivering, Shapes
      <4>6. \A a : recv_buf'[p][a] = IF a = b THEN M ELSE recv_buf[p][a]
        <5>1. recv_buf' = [recv_buf EXCEPT ![p] = [recv_buf[p] EXCEPT ![b] = M]]
          BY <4>4 DEF With
        <5>2. recv_buf'[p] = [recv_buf[p] EXCEPT ![b] = M]
          BY <4>5, <5>1
        <5> HIDE DEF b
        <5> QED
          BY <1>11, <4>5, <5>2
      <4>7. Swapping(X, p)
        BY <1>1, <2>0, <2>2, <3>4 DEF Holds
      <4>8. \A e \in 1 .. m - 1 : 2 * e < l + 1 =>
              recv_buf'[p][Down(i, e, m)] = BlockOf(X, c, g[Down(i, e, m) + 1], i)
        <5> SUFFICES ASSUME NEW e \in 1 .. m - 1, 2 * e < l + 1
                     PROVE  recv_buf'[p][Down(i, e, m)] =
                                 BlockOf(X, c, g[Down(i, e, m) + 1], i)
          OBVIOUS
        <5>2. CASE Down(i, e, m) = b
          <6> HIDE DEF b
          <6> QED
            BY <4>3, <4>6, <5>2
        <5>3. CASE Down(i, e, m) # b
          <6>1. 2 * e < l
            BY <4>1, <4>2, <5>3
          <6>2. recv_buf[p][Down(i, e, m)] = BlockOf(X, c, g[Down(i, e, m) + 1], i)
            BY <1>0, <4>7, <6>1 DEF Swapping
          <6> HIDE DEF b
          <6> QED
            BY <4>6, <5>3, <6>2
        <5> QED
          BY <5>2, <5>3
      <4>9. \A a \in 0 .. m - 1 : data'[p][a] = BlockOf(X, c, p, a)
        BY <1>0, <4>4, <4>7 DEF Swapping
      <4>10. Swapping(X, p)'
        BY <1>0, <3>1, <4>8, <4>9 DEF Swapping, BlockOf
      <4> QED
        BY <2>2, <3>1, <3>4, <4>10 DEF Holds, Gathers
    <3> QED
      BY <1>1, <3>2, <3>3, <3>4 DEF IsExchange, Exchanges, Gathers
  <2> QED
    BY <2>1, <2>2
<1> QED
  BY <1>4, <1>5, <1>6, <1>13

NetKept ==
  \A d \in Chan :
    IF d \in DOMAIN wire THEN d \in DOMAIN wire' /\ wire'[d] = wire[d]
                         ELSE d \in DOMAIN wire' => wire'[d] = <<>>

(* A step that moves no block and no rank in an exchange keeps the         *)
(* delivery.                                                               *)
LEMMA QuietStep ==
  ASSUME NEW X, IsPlan(X), Delivering(X),
         op' = op, group' = group, at' = at, data' = data, recv_buf' = recv_buf,
         returned' = returned, DOMAIN pc' = Ranks,
         \A q \in Ranks : pc'[q] = pc[q] \/ pc'[q] \notin {"exchange", "over"},
         \A q \in Ranks : Active(q)' <=> Active(q), NetKept
  PROVE  Shapes' /\ InCall(X)' /\ Wires(X)' /\ Causal(X)' /\ Holding(X)'
<1>1. \A q \in Ranks : Call(q)' = Call(q)
  BY DEF Call
<1>2. /\ \A q \in Ranks : \A c, k : Passed(q, c, k)' <=> Passed(q, c, k)
      /\ \A q \in Ranks : \A c : Began(q, c)' <=> Began(q, c)
  BY <1>1 DEF Passed, Began
<1>3. Still(X)
  BY <1>2 DEF Still
<1>4. Wires(X)' /\ Causal(X)'
  BY <1>3, WiresStill, CausalStill DEF Delivering, NetKept
<1>5. InCall(X)'
  <2> SUFFICES ASSUME NEW q \in Ranks, Active(q)'
               PROVE  /\ Call(q)' \in DOMAIN X
                      /\ op'[q] = X[Call(q)'].what /\ group'[q] = X[Call(q)'].group
                      /\ q \in MembersOf(X[Call(q)'].group)
                      /\ at'[q] \in 1 .. StepsOf(X[Call(q)']) + 1
                      /\ pc'[q] = "over" => at'[q] = StepsOf(X[Call(q)']) + 1
    BY DEF InCall, StepsOf
  <2>1. Active(q) /\ Call(q)' = Call(q) /\ (pc'[q] = "over" => pc[q] = "over")
    BY <1>1
  <2> QED
    BY <2>1 DEF InCall, Delivering
<1>6. Holding(X)'
  <2> SUFFICES ASSUME NEW q \in Ranks PROVE Holds(X, q)'
    BY DEF Holding
  <2>1. CASE pc'[q] = pc[q]
    <3>1. Same(q) /\ Holds(X, q)
      BY <2>1 DEF Same, Delivering, Holding
    <3>2. \A a : a = Call(q) /\ pc[q] \in {"exchange", "over"} =>
           \A s \in Ranks : Began(s, a) => Began(s, a)'
      BY <1>2
    <3> QED
      BY <3>1, <3>2, HoldsKept DEF Delivering
  <2>2. CASE pc'[q] \notin {"exchange", "over"}
    BY <2>2 DEF Holds
  <2> QED
    BY <2>1, <2>2
<1>7. Shapes'
  BY DEF Shapes, Delivering
<1> QED
  BY <1>4, <1>5, <1>6, <1>7

(* The blocks of an all-to-all are copied back when all have come. *)
LEMMA EndStep ==
  ASSUME NEW X, IsPlan(X), Delivering(X), NEW p \in Ranks, EndExchange(p)
  PROVE  Shapes' /\ InCall(X)' /\ Wires(X)' /\ Causal(X)' /\ Holding(X)'
<1>0. PICK c, x : c = Call(p) /\ x = X[c]
  OBVIOUS
<1> DEFINE g == x.group
           m == Len(g)
           i == IndexIn(g, p)
<1>1. /\ pc[p] = "exchange" /\ pc' = [pc EXCEPT ![p] = "over"]
      /\ op' = op /\ group' = group /\ at' = at /\ recv_buf' = recv_buf
      /\ returned' = returned /\ wire' = wire
  BY DEF EndExchange, Goto, fixed, netVars
<1>2. /\ c \in DOMAIN X /\ IsExchange(x) /\ p \in MembersOf(g) /\ op[p] = x.what
      /\ group[p] = g /\ Active(p) /\ at[p] \in 1 .. StepsOf(x) + 1
  <2>1. Active(p)
    BY <1>1 DEF Active, Delivering, Stages
  <2> QED
    BY <1>0, <2>1 DEF Delivering, InCall, IsPlan, IsExchange
<1>3. m \in Nat \ {0} /\ i \in 0 .. m - 1 /\ g[i + 1] = p /\ m <= nRanks
  BY <1>2, MemberIndex, GroupSize DEF IsExchange
<1>4. at[p] = StepsOf(x) + 1 /\ StepsOf(x) = 2 * (m - 1) /\ Pos(p) = i
  <2>1. Steps(p) = StepsOf(x) /\ StepsOf(x) = 2 * (m - 1) /\ Pos(p) = i
    BY <1>2 DEF Steps, StepsOf, Size, Pos, IndexIn
  <2>2. at[p] > Steps(p)
    BY DEF EndExchange
  <2> HIDE DEF m, i
  <2> QED
    BY <1>2, <1>3, <2>1, <2>2
<1>5. \A q \in Ranks : (Active(q)' <=> Active(q)) /\ Call(q)' = Call(q)
  BY <1>1, <1>2 DEF Active, Call, Delivering, Shapes
<1>6. /\ \A q \in Ranks : \A a, k : Passed(q, a, k)' <=> Passed(q, a, k)
      /\ \A q \in Ranks : \A a : Began(q, a)' <=> Began(q, a)
  BY <1>1, <1>5 DEF Passed, Began
<1>7. Still(X)
  BY <1>6 DEF Still
<1>8. Wires(X)' /\ Causal(X)'
  BY <1>1, <1>7, WiresStill, CausalStill DEF Delivering
<1>9. InCall(X)'
  <2> SUFFICES ASSUME NEW q \in Ranks, Active(q)'
               PROVE  /\ Call(q)' \in DOMAIN X
                      /\ op'[q] = X[Call(q)'].what /\ group'[q] = X[Call(q)'].group
                      /\ q \in MembersOf(X[Call(q)'].group)
                      /\ at'[q] \in 1 .. StepsOf(X[Call(q)']) + 1
                      /\ pc'[q] = "over" => at'[q] = StepsOf(X[Call(q)']) + 1
    BY DEF InCall, StepsOf
  <2>1. Active(q) /\ Call(q)' = Call(q)
    BY <1>5
  <2>2. q # p => pc'[q] = pc[q]
    BY <1>1 DEF Delivering, Shapes
  <2> QED
    BY <1>0, <1>1, <1>4, <2>1, <2>2 DEF InCall, Delivering
<1>10. DOMAIN data = Ranks /\ \A q \in Ranks : DOMAIN data[q] = Blocks
  BY DEF Delivering, Shapes
<1>11. /\ DOMAIN data' = Ranks /\ \A q \in Ranks : DOMAIN data'[q] = Blocks
       /\ \A q \in Ranks : q # p => data'[q] = data[q]
       /\ op[p] # "ALLTOALL" => data' = data
       /\ op[p] = "ALLTOALL" => \A k \in Blocks :
            data'[p][k] = IF k = i THEN data[p][k] ELSE recv_buf[p][k]
  <2>1. CASE op[p] = "ALLTOALL"
    <3>1. data' = [data EXCEPT ![p] = [k \in Blocks |->
                     IF k = Pos(p) THEN data[p][k] ELSE recv_buf[p][k]]]
      BY <2>1 DEF EndExchange
    <3> HIDE DEF i
    <3> QED
      BY <1>4, <1>10, <2>1, <3>1
  <2>2. CASE op[p] # "ALLTOALL"
    BY <1>10, <2>2 DEF EndExchange
  <2> QED
    BY <2>1, <2>2
<1>12. Shapes'
  BY <1>1, <1>11 DEF Shapes, Delivering
<1>13. Holding(X)'
  <2> SUFFICES ASSUME NEW q \in Ranks PROVE Holds(X, q)'
    BY DEF Holding
  <2>0. Holds(X, q)
    BY DEF Delivering, Holding
  <2>1. CASE q # p
    <3>1. Same(q)
      BY <1>1, <1>11, <2>1 DEF Same, Delivering, Shapes
    <3>2. \A a : a = Call(q) /\ pc[q] \in {"exchange", "over"} =>
           \A s \in Ranks : Began(s, a) => Began(s, a)'
      BY <1>6
    <3> QED
      BY <2>0, <3>1, <3>2, HoldsKept DEF Delivering
  <2>2. CASE q = p
    <3>1. pc'[p] = "over" /\ op'[p] = x.what /\ Call(p)' = c /\ at'[p] = at[p]
      BY <1>0, <1>1, <1>2, <1>5 DEF Delivering, Shapes
    <3>2. CASE x.what = "BARRIER"
      BY <1>1, <1>2, <1>11, <2>0, <2>2, <3>1, <3>2 DEF Holds, Gathers, NoBlock
    <3>3. CASE x.what \in Gathers
      <4>1. Gathered(X, p) /\ data' = data
        BY <1>1, <1>2, <1>11, <2>0, <2>2, <3>3 DEF Holds, Gathers
      <4>2. \A e \in 0 .. m - 1 : g[Down(i, e, m) + 1] \in Ranks
        BY <1>2, Places
      <4>3. \A e \in 0 .. m - 1 : 2 * e < at[p] =>
              /\ data'[p][Down(i, e, m)] = BlockOf(X, c, g[Down(i, e, m) + 1], Down(i, e, m))
              /\ Began(g[Down(i, e, m) + 1], c)'
        BY <1>0, <1>6, <4>1, <4>2 DEF Gathered
      <4>4. Gathered(X, p)'
        BY <1>0, <3>1, <4>3 DEF Gathered, BlockOf
      <4> QED
        BY <2>2, <3>1, <3>3, <4>4 DEF Holds, Gathers
    <3>4. CASE x.what = "ALLTOALL"
      <4>1. Swapping(X, p)
        BY <1>1, <1>2, <2>0, <2>2, <3>4 DEF Holds
      <4>2. \A b \in 0 .. m - 1 : data'[p][b] = BlockOf(X, c, g[b + 1], i)
        <5> SUFFICES ASSUME NEW b \in 0 .. m - 1
                     PROVE  data'[p][b] = BlockOf(X, c, g[b + 1], i)
          OBVIOUS
        <5>1. b \in Blocks
          <6>1. nRanks \in Nat /\ b \in 0 .. m - 1 /\ m \in Nat /\ m <= nRanks
            BY <1>3, TeamsAssumption
          <6> HIDE DEF m
          <6> QED
            BY <6>1 DEF Blocks
        <5>2. data'[p][b] = IF b = i THEN data[p][b] ELSE recv_buf[p][b]
          BY <1>2, <1>11, <3>4, <5>1
        <5>3. CASE b = i
          <6>1. data[p][b] = BlockOf(X, c, p, b)
            BY <1>0, <4>1 DEF Swapping
          <6> HIDE DEF i
          <6> QED
            BY <1>3, <5>2, <5>3, <6>1
        <5>4. CASE b # i
          <6> DEFINE e == IF b < i THEN i - b ELSE i - b + m
          <6>1. e \in 1 .. m - 1 /\ 2 * e < at[p] /\ Down(i, e, m) = b
            <7>1. b \in 0 .. m - 1
              OBVIOUS
            <7> HIDE DEF m, i
            <7> QED
              BY <1>3, <1>4, <5>4, <7>1 DEF Down
          <6>2. recv_buf[p][Down(i, e, m)] = BlockOf(X, c, g[Down(i, e, m) + 1], i)
            <7> HIDE DEF e
            <7> QED
              BY <1>0, <4>1, <6>1 DEF Swapping
          <6> QED
            BY <5>2, <5>4, <6>1, <6>2
        <5> QED
          BY <5>3, <5>4
      <4>3. Swapped(X, p)'
        BY <1>0, <3>1, <4>2 DEF Swapped, BlockOf
      <4> QED
        BY <2>2, <3>1, <3>4, <4>3 DEF Holds, Gathers
    <3> QED
      BY <1>2, <3>2, <3>3, <3>4 DEF IsExchange, Exchanges, Gathers
  <2> QED
    BY <2>1, <2>2
<1> QED
  BY <1>8, <1>9, <1>12, <1>13

(* Rank p begins the exchange of its next call, or returns from the call.  *)
Beginning(X, p) ==
  LET c == Call(p)
      x == X[c]
  IN /\ c \in DOMAIN X /\ p \in MembersOf(x.group)
     /\ pc[p] = "ready" /\ pc' = [pc EXCEPT ![p] = "exchange"]
     /\ op' = [op EXCEPT ![p] = x.what]
     /\ group' = [group EXCEPT ![p] = x.group]
     /\ at' = [at EXCEPT ![p] = 1]
     /\ data' = [data EXCEPT ![p] = [k \in Blocks |->
           IF k < Len(x.group) /\ (x.what = "ALLTOALL" \/ x.group[k + 1] = p)
           THEN BlockOf(X, c, p, k) ELSE NoBlock]]
     /\ recv_buf' = [recv_buf EXCEPT ![p] = [k \in Blocks |-> NoBlock]]
     /\ returned' = returned /\ wire' = wire

Returning(X, p) ==
  /\ \/ pc[p] = "over"
     \/ /\ pc[p] = "ready"
        /\ ~(Call(p) \in DOMAIN X /\ p \in MembersOf(X[Call(p)].group))
  /\ pc' = [pc EXCEPT ![p] = "ready"]
  /\ returned' = [returned EXCEPT ![p] = Call(p)]
  /\ op' = op /\ group' = group /\ at' = at /\ data' = data /\ recv_buf' = recv_buf
  /\ wire' = wire

(* The beginning of an exchange keeps the delivery of blocks. *)
LEMMA BeginStep ==
  ASSUME NEW X, IsPlan(X), Delivering(X), NEW p \in Ranks, Beginning(X, p)
  PROVE  Shapes' /\ InCall(X)' /\ Wires(X)' /\ Causal(X)' /\ Holding(X)'
<1>0. PICK c, x : c = Call(p) /\ x = X[c]
  OBVIOUS
<1> DEFINE g == x.group
           m == Len(g)
           i == IndexIn(g, p)
           Fresh == [k \in Blocks |->
                       IF k < m /\ (x.what = "ALLTOALL" \/ g[k + 1] = p)
                       THEN BlockOf(X, c, p, k) ELSE NoBlock]
<1>1. /\ c \in DOMAIN X /\ p \in MembersOf(g) /\ IsExchange(x)
      /\ pc[p] = "ready" /\ pc' = [pc EXCEPT ![p] = "exchange"]
      /\ op' = [op EXCEPT ![p] = x.what]
      /\ group' = [group EXCEPT ![p] = g]
      /\ at' = [at EXCEPT ![p] = 1]
      /\ data' = [data EXCEPT ![p] = Fresh]
      /\ recv_buf' = [recv_buf EXCEPT ![p] = [k \in Blocks |-> NoBlock]]
      /\ returned' = returned /\ wire' = wire
  BY <1>0 DEF Beginning, IsPlan, IsExchange
<1>2. m \in Nat \ {0} /\ i \in 0 .. m - 1 /\ g[i + 1] = p /\ m <= nRanks
  BY <1>1, MemberIndex, GroupSize DEF IsExchange
<1>3. /\ ~Active(p) /\ Active(p)' /\ \A q \in Ranks : Call(q)' = Call(q)
      /\ \A q \in Ranks : q # p => Same(q)
  <2>1. x.what # "NONE"
    BY <1>1 DEF IsExchange, Exchanges
  <2> QED
    BY <1>1, <2>1 DEF Active, Call, Delivering, Shapes, Same
<1>4. \A q \in Ranks : q # p => (Active(q)' <=> Active(q)) /\ at'[q] = at[q]
                                 /\ returned'[q] = returned[q]
  BY <1>3 DEF Same, Active
<1>5. \A q \in Ranks : \A a : Began(q, a) => Began(q, a)'
  <2> SUFFICES ASSUME NEW q \in Ranks, NEW a, Began(q, a) PROVE Began(q, a)'
    OBVIOUS
  <2>1. CASE q = p
    BY <1>1, <1>3, <2>1 DEF Began
  <2>2. CASE q # p
    BY <1>3, <1>4, <2>2 DEF Began
  <2> QED
    BY <2>1, <2>2
<1>6. Still(X)
  <2> SUFFICES ASSUME NEW q \in Ranks, NEW a \in DOMAIN X, q \in MembersOf(X[a].group),
                      NEW k \in 1 .. StepsOf(X[a])
               PROVE  Passed(q, a, k)' <=> Passed(q, a, k)
    BY <1>5 DEF Still
  <2>1. CASE q = p
    <3>1. ~(k < 1) /\ at'[p] = 1
      <4>1. StepsOf(X[a]) \in Int
        <5>1. X[a].group \in Seq(Ranks)
          BY DEF IsPlan, Groups
        <5> QED
          BY <5>1 DEF StepsOf
      <4> QED
        BY <1>1, <4>1 DEF Delivering, Shapes
    <3> QED
      BY <1>1, <1>3, <2>1, <3>1 DEF Passed
  <2>2. CASE q # p
    BY <1>3, <1>4, <2>2 DEF Passed
  <2> QED
    BY <2>1, <2>2
<1>7. Wires(X)' /\ Causal(X)'
  BY <1>1, <1>6, WiresStill, CausalStill DEF Delivering
<1>8. /\ pc'[p] = "exchange" /\ op'[p] = x.what /\ group'[p] = g /\ at'[p] = 1
      /\ data'[p] = Fresh /\ Call(p)' = c
  BY <1>0, <1>1, <1>3 DEF Delivering, Shapes
<1>9. InCall(X)'
  <2> SUFFICES ASSUME NEW q \in Ranks, Active(q)'
               PROVE  /\ Call(q)' \in DOMAIN X
                      /\ op'[q] = X[Call(q)'].what /\ group'[q] = X[Call(q)'].group
                      /\ q \in MembersOf(X[Call(q)'].group)
                      /\ at'[q] \in 1 .. StepsOf(X[Call(q)']) + 1
                      /\ pc'[q] = "over" => at'[q] = StepsOf(X[Call(q)']) + 1
    BY DEF InCall, StepsOf
  <2>1. CASE q # p
    <3>1. Active(q) /\ Call(q)' = Call(q) /\ Same(q)
      BY <1>3, <1>4, <2>1
    <3> QED
      BY <3>1 DEF Same, InCall, Delivering
  <2>2. CASE q = p
    <3>1. 1 \in 1 .. StepsOf(x) + 1
      BY <1>2 DEF StepsOf
    <3> QED
      BY <1>0, <1>1, <1>8, <2>2, <3>1
  <2> QED
    BY <2>1, <2>2
<1>10. Shapes'
  BY <1>1, <1>8 DEF Shapes, Delivering
<1>11. Holding(X)'
  <2> SUFFICES ASSUME NEW q \in Ranks PROVE Holds(X, q)'
    BY DEF Holding
  <2>1. CASE q # p
    <3>1. Same(q) /\ Holds(X, q)
      BY <1>3, <2>1 DEF Delivering, Holding
    <3>2. \A a : a = Call(q) /\ pc[q] \in {"exchange", "over"} =>
           \A s \in Ranks : Began(s, a) => Began(s, a)'
      BY <1>5
    <3> QED
      BY <3>1, <3>2, HoldsKept DEF Delivering
  <2>2. CASE q = p
    <3>1. \A b \in 0 .. m - 1 : b \in Blocks
      <4>1. nRanks \in Nat
        BY TeamsAssumption
      <4> HIDE DEF m
      <4> QED
        BY <1>2, <4>1 DEF Blocks
    <3>2. CASE x.what = "BARRIER"
      <4>1. nRanks \in Blocks /\ ~(nRanks < m)
        <5>1. nRanks \in Nat
          BY TeamsAssumption
        <5> HIDE DEF m
        <5> QED
          BY <1>2, <5>1 DEF Blocks
      <4>2. data'[p][nRanks] = NoBlock
        BY <1>8, <4>1
      <4> QED
        BY <1>8, <2>2, <3>2, <4>2 DEF Holds, Gathers, NoBlock
    <3>3. CASE x.what \in Gathers
      <4>1. Began(p, c)'
        BY <1>0, <1>3 DEF Began
      <4>2. Fresh[i] = BlockOf(X, c, g[i + 1], i)
        <5>1. i \in Blocks /\ i < m
          BY <1>2, <3>1
        <5> HIDE DEF g, m, i
        <5> QED
          BY <1>2, <5>1
      <4>3. \A e \in 0 .. m - 1 : 2 * e < 1 =>
              /\ Fresh[Down(i, e, m)] = BlockOf(X, c, g[Down(i, e, m) + 1], Down(i, e, m))
              /\ Began(g[Down(i, e, m) + 1], c)'
        <5> SUFFICES ASSUME NEW e \in 0 .. m - 1, 2 * e < 1
                     PROVE  /\ Fresh[Down(i, e, m)] =
                                 BlockOf(X, c, g[Down(i, e, m) + 1], Down(i, e, m))
                            /\ Began(g[Down(i, e, m) + 1], c)'
          OBVIOUS
        <5>1. Down(i, e, m) = i
          <6>1. e \in 0 .. m - 1
            OBVIOUS
          <6> HIDE DEF m, i
          <6> QED
            BY <1>2, <6>1 DEF Down
        <5> HIDE DEF Fresh, i, m, g
        <5> QED
          BY <1>2, <4>1, <4>2, <5>1
      <4>4. Gathered(X, p)'
        <5> HIDE DEF Fresh
        <5> QED
          BY <1>0, <1>8, <4>3 DEF Gathered, BlockOf
      <4> QED
        BY <1>8, <2>2, <3>3, <4>4 DEF Holds, Gathers
    <3>4. CASE x.what = "ALLTOALL"
      <4>1. \A b \in 0 .. m - 1 : Fresh[b] = BlockOf(X, c, p, b)
        <5> SUFFICES ASSUME NEW b \in 0 .. m - 1 PROVE Fresh[b] = BlockOf(X, c, p, b)
          OBVIOUS
        <5>1. b \in Blocks /\ b < m
          BY <1>2, <3>1
        <5> QED
          BY <3>4, <5>1
      <4>2. \A e \in 1 .. m - 1 : ~(2 * e < 1)
        <5> HIDE DEF m
        <5> QED
          BY <1>2
      <4>3. Swapping(X, p)'
        <5> HIDE DEF Fresh
        <5> QED
          BY <1>0, <1>8, <4>1, <4>2 DEF Swapping, BlockOf
      <4> QED
        BY <1>8, <2>2, <3>4, <4>3 DEF Holds, Gathers
    <3> QED
      BY <1>1, <3>2, <3>3, <3>4 DEF IsExchange, Exchanges, Gathers
  <2> QED
    BY <2>1, <2>2
<1> QED
  BY <1>7, <1>9, <1>10, <1>11

(* The return from a call keeps the delivery of blocks. *)
LEMMA ReturnStep ==
  ASSUME NEW X, IsPlan(X), Delivering(X), NEW p \in Ranks, Returning(X, p)
  PROVE  Shapes' /\ InCall(X)' /\ Wires(X)' /\ Causal(X)' /\ Holding(X)'
<1>1. /\ pc' = [pc EXCEPT ![p] = "ready"] /\ returned' = [returned EXCEPT ![p] = Call(p)]
      /\ op' = op /\ group' = group /\ at' = at /\ data' = data /\ recv_buf' = recv_buf
      /\ wire' = wire
  BY DEF Returning
<1>2. /\ ~Active(p)' /\ returned[p] \in Nat /\ returned'[p] = returned[p] + 1
      /\ Call(p) = returned[p] + 1 /\ pc'[p] = "ready" /\ returned'[p] \in Nat
      /\ \A q \in Ranks : q # p => Same(q)
  BY <1>1 DEF Active, Call, Delivering, Shapes, Same
<1>3. \A q \in Ranks : q # p => (Active(q)' <=> Active(q)) /\ at'[q] = at[q]
                                 /\ returned'[q] = returned[q] /\ Call(q)' = Call(q)
  BY <1>2 DEF Same, Active, Call
<1>4. Still(X)
  <2> SUFFICES ASSUME NEW q \in Ranks, NEW a \in DOMAIN X, q \in MembersOf(X[a].group)
               PROVE  /\ \A k \in 1 .. StepsOf(X[a]) : Passed(q, a, k)' <=> Passed(q, a, k)
                      /\ Began(q, a) => Began(q, a)'
    BY DEF Still
  <2>0. a \in Nat
    BY DEF IsPlan
  <2>1. CASE q # p
    BY <1>3, <2>1 DEF Passed, Began
  <2>2. CASE q = p
    <3>1. /\ \A k : Passed(p, a, k)' <=> a <= returned[p] + 1
          /\ Began(p, a)' <=> a <= returned[p] + 1
      BY <1>2 DEF Passed, Began
    <3>2. Began(p, a) => a <= returned[p] + 1
      BY <1>2, <2>0 DEF Began
    <3>3. \A k \in 1 .. StepsOf(X[a]) : Passed(p, a, k) <=> a <= returned[p] + 1
      <4> SUFFICES ASSUME NEW k \in 1 .. StepsOf(X[a])
                   PROVE  Passed(p, a, k) <=> a <= returned[p] + 1
        OBVIOUS
      <4>1. CASE a # Call(p)
        BY <1>2, <2>0, <4>1 DEF Passed
      <4>2. CASE a = Call(p)
        <5>1. pc[p] = "over"
          BY <2>2, <4>2 DEF Returning
        <5>2. Active(p)
          BY <5>1 DEF Active, Delivering, Stages
        <5>3. at[p] = StepsOf(X[a]) + 1
          BY <4>2, <5>1, <5>2 DEF Delivering, InCall
        <5>4. StepsOf(X[a]) \in Int
          <6>1. X[a].group \in Seq(Ranks)
            BY DEF IsPlan, Groups
          <6> QED
            BY <6>1 DEF StepsOf
        <5>5. k < at[p]
          BY <5>3, <5>4
        <5> QED
          BY <1>2, <4>2, <5>2, <5>5 DEF Passed
      <4> QED
        BY <4>1, <4>2
    <3> QED
      BY <2>2, <3>1, <3>2, <3>3
  <2> QED
    BY <2>1, <2>2
<1>5. Wires(X)' /\ Causal(X)'
  BY <1>1, <1>4, WiresStill, CausalStill DEF Delivering
<1>6. InCall(X)'
  <2> SUFFICES ASSUME NEW q \in Ranks, Active(q)'
               PROVE  /\ Call(q)' \in DOMAIN X
                      /\ op'[q] = X[Call(q)'].what /\ group'[q] = X[Call(q)'].group
                      /\ q \in MembersOf(X[Call(q)'].group)
                      /\ at'[q] \in 1 .. StepsOf(X[Call(q)']) + 1
                      /\ pc'[q] = "over" => at'[q] = StepsOf(X[Call(q)']) + 1
    BY DEF InCall, StepsOf
  <2>1. q # p /\ Active(q) /\ Call(q)' = Call(q) /\ Same(q)
    BY <1>2, <1>3
  <2> QED
    BY <2>1 DEF Same, InCall, Delivering
<1>7. Shapes'
  BY <1>1, <1>2, <1>3 DEF Shapes, Delivering
<1>8. \A q \in Ranks, a \in DOMAIN X : q \in MembersOf(X[a].group) /\ Began(q, a) => Began(q, a)'
  BY <1>4 DEF Still
<1>9. \A q \in Ranks, a \in Nat : Began(q, a) => Began(q, a)'
  <2> SUFFICES ASSUME NEW q \in Ranks, NEW a \in Nat, Began(q, a) PROVE Began(q, a)'
    OBVIOUS
  <2>1. CASE q # p
    BY <1>3, <2>1 DEF Began
  <2>2. CASE q = p
    BY <1>2, <2>2 DEF Began
  <2> QED
    BY <2>1, <2>2
<1>10. Holding(X)'
  <2> SUFFICES ASSUME NEW q \in Ranks PROVE Holds(X, q)'
    BY DEF Holding
  <2>1. CASE q # p
    <3>1. Same(q) /\ Holds(X, q)
      BY <1>2, <2>1 DEF Delivering, Holding
    <3>2. \A a : a = Call(q) /\ pc[q] \in {"exchange", "over"} =>
           \A s \in Ranks : Began(s, a) => Began(s, a)'
      BY <1>9 DEF Call, Delivering, Shapes
    <3> QED
      BY <3>1, <3>2, HoldsKept DEF Delivering
  <2>2. CASE q = p
    BY <1>2, <2>2 DEF Holds
  <2> QED
    BY <2>1, <2>2
<1> QED
  BY <1>5, <1>6, <1>7, <1>10

(* Who returns from the first call has a block of every rank. *)
LEMMA ReturnAllIn ==
  ASSUME NEW X, IsPlan(X), Delivering(X), AllIn, NEW p \in Ranks, Returning(X, p)
  PROVE  AllIn'
<1>1. op' = op
  BY DEF Returning
<1> SUFFICES ASSUME NEW r \in Ranks PROVE op[r] # "NONE"
  BY <1>1 DEF AllIn
<1>2. CASE returned[p] > 0
  BY <1>2 DEF AllIn
<1>3. CASE ~(returned[p] > 0)
  <2>1. Call(p) = 1 /\ 1 \in DOMAIN X /\ X[1].what = "ALLGATHER" /\ X[1].group = World
    BY <1>3 DEF Call, Delivering, Shapes, IsPlan
  <2>2. pc[p] = "over"
    BY <2>1, WorldGroup DEF Returning
  <2>3. Active(p)
    BY <2>2 DEF Active, Delivering, Stages
  <2>4. at[p] = StepsOf(X[1]) + 1 /\ op[p] = "ALLGATHER"
    BY <2>1, <2>2, <2>3 DEF Delivering, InCall
  <2>5. Gathered(X, p)
    BY <2>2, <2>4 DEF Delivering, Holding, Holds, Gathers
  <2> DEFINE n == nRanks
             e == IF r <= p THEN p - r ELSE p - r + n
  <2>6. e \in 0 .. n - 1 /\ 2 * e < at[p] /\ Down(p, e, n) = r
    <3>1. at[p] = 2 * (n - 1) + 1 /\ n \in Nat \ {0} /\ p \in 0 .. n - 1 /\ r \in 0 .. n - 1
      BY <2>1, <2>4, WorldGroup, TeamsAssumption DEF StepsOf, Ranks
    <3> HIDE DEF n
    <3> QED
      BY <3>1 DEF Down
  <2>7. IndexIn(World, p) = p /\ Len(World) = n /\ World[r + 1] = r
    BY WorldGroup
  <2>8. Began(World[Down(p, e, n) + 1], 1)
    <3> HIDE DEF e, n
    <3> QED
      BY <2>1, <2>5, <2>6, <2>7 DEF Gathered
  <2>9. Began(r, 1)
    BY <2>6, <2>7, <2>8
  <2> QED
    BY <2>9 DEF Began, Active, Delivering, Stages
<1> QED
  BY <1>2, <1>3

----------------------------------------------------------------------------
(* How the ranks get to know each other *)

Info(r) == <<r, Root, InfoTag>>
Addr(r) == <<Root, r, NextTag>>

Link(q) ==
  /\ Knows(q) => next[q] = Nx(q) /\ q < peer
  /\ Connected(q) => RingTo(q) \in DOMAIN wire
  /\ InRing(q) => prev[q] = RingFrom(q) /\ RingFrom(q) \in DOMAIN wire
  /\ pc[q] = "nextAddr" \/ backlog[<<"lsock", q>>] # <<>> => Addr(q) \in DOMAIN wire
  /\ Addr(q) \in DOMAIN wire =>
       wire[Addr(q)] \in Seq({Nx(q)}) /\ (wire[Addr(q)] # <<>> => q < peer)
  /\ backlog[<<"lsock", q>>] \in Seq({Addr(q)})
  /\ backlog[<<"main", q>>] \in Seq(Chan \cap DOMAIN wire)
  /\ pc[q] \in Early => backlog[<<"main", q>>] \in Seq({RingFrom(q)})
  /\ peerRecvSockets_[q] \subseteq DOMAIN wire

RootThread ==
  /\ rootPc \in {"none", "collect", "info", "serve", "send", "done"}
  /\ peer \in 0 .. nRanks /\ (rootPc # "done" => peer < nRanks)
  /\ rootPc = "info" => \E r \in Ranks : rootSock = Info(r)
  /\ rootPc = "send" => Addr(peer) \in DOMAIN wire
  /\ backlog[<<"root", 0>>] \in Seq({Info(r) : r \in Ranks})
  /\ \A q \in Ranks : pc[q] = "create" => q = 0 /\ rootPc = "none"

SetupShapes ==
  /\ DOMAIN next = Ranks /\ DOMAIN prev = Ranks /\ DOMAIN peerRecvSockets_ = Ranks
  /\ DOMAIN backlog = Listeners

Setup == SetupShapes /\ RootThread /\ \A q \in Ranks : Link(q)

(* Ranks that know each other make the ring. *)
LEMMA LinksRing == Setup => Ring
BY DEF Setup, Link, Ring

(* The listeners and the connections of establishConnections are distinct. *)
LEMMA Names ==
  ASSUME NEW q \in Ranks
  PROVE  /\ <<"lsock", q>> \in Listeners /\ <<"main", q>> \in Listeners
         /\ <<"root", 0>> \in Listeners
         /\ \A r : <<"lsock", r>> # <<"main", q>> /\ <<"lsock", r>> # <<"root", 0>>
                   /\ <<"main", r>> # <<"root", 0>>
                   /\ (<<"main", r>> = <<"main", q>> => r = q)
                   /\ (<<"lsock", r>> = <<"lsock", q>> => r = q)
         /\ Addr(q) \notin Chan /\ Info(q) \notin Chan
         /\ \A r : Info(r) # Addr(q) /\ (Addr(r) = Addr(q) => r = q) /\ RingTo(r) # Addr(q)
<1>1. nRanks \in Nat /\ Root \notin Ranks
  BY TeamsAssumption DEF Root, Ranks
<1> QED
  BY <1>1 DEF Listeners, Addr, Info, Chan, InfoTag, NextTag, RingTag, RingTo

(* A sequence over a set is one over a larger set. *)
LEMMA SeqMore ==
  ASSUME NEW S, NEW T, S \subseteq T, NEW s \in Seq(S)
  PROVE  s \in Seq(T)
OBVIOUS

(* A step after which rank q has no more of its connections than before. *)
LEMMA LinkMoved ==
  ASSUME NEW q \in Ranks, Link(q), peer \in Int, peer' \in Int, peer <= peer',
         Knows(q)' => Knows(q), Connected(q)' => Connected(q), InRing(q)' => InRing(q),
         pc'[q] = "nextAddr" => pc[q] = "nextAddr", pc'[q] \in Early => pc[q] \in Early,
         next'[q] = next[q], prev'[q] = prev[q],
         peerRecvSockets_'[q] = peerRecvSockets_[q],
         backlog'[<<"lsock", q>>] = backlog[<<"lsock", q>>],
         backlog'[<<"main", q>>] = backlog[<<"main", q>>],
         DOMAIN wire \subseteq DOMAIN wire',
         Addr(q) \in DOMAIN wire' =>
           wire'[Addr(q)] = <<>> \/ (Addr(q) \in DOMAIN wire /\ wire'[Addr(q)] = wire[Addr(q)])
  PROVE  Link(q)'
<1>2. Knows(q)' => next'[q] = Nx(q) /\ q < peer'
  BY DEF Link, Ranks
<1>3. Connected(q)' => RingTo(q) \in DOMAIN wire'
  BY DEF Link
<1>4. InRing(q)' => prev'[q] = RingFrom(q) /\ RingFrom(q) \in DOMAIN wire'
  BY DEF Link
<1>5. pc'[q] = "nextAddr" \/ backlog'[<<"lsock", q>>] # <<>> => Addr(q) \in DOMAIN wire'
  BY DEF Link
<1>6. Addr(q) \in DOMAIN wire' =>
       wire'[Addr(q)] \in Seq({Nx(q)}) /\ (wire'[Addr(q)] # <<>> => q < peer')
  <2>1. <<>> \in Seq({Nx(q)})
    OBVIOUS
  <2>2. q \in Int /\ (q < peer => q < peer')
    BY DEF Ranks
  <2>3. CASE wire'[Addr(q)] = <<>>
    BY <2>1, <2>3
  <2>4. CASE Addr(q) \in DOMAIN wire /\ wire'[Addr(q)] = wire[Addr(q)]
    <3>1. wire[Addr(q)] \in Seq({Nx(q)}) /\ (wire[Addr(q)] # <<>> => q < peer)
      BY <2>4 DEF Link
    <3> QED
      BY <2>2, <2>4, <3>1
  <2> QED
    BY <2>3, <2>4
<1>7. backlog'[<<"lsock", q>>] \in Seq({Addr(q)})
  BY DEF Link
<1>8. backlog'[<<"main", q>>] \in Seq(Chan \cap DOMAIN wire')
  <2>1. backlog[<<"main", q>>] \in Seq(Chan \cap DOMAIN wire)
    BY DEF Link
  <2>2. Chan \cap DOMAIN wire \subseteq Chan \cap DOMAIN wire'
    OBVIOUS
  <2>3. backlog[<<"main", q>>] \in Seq(Chan \cap DOMAIN wire')
    BY <2>1, <2>2, SeqMore
  <2> QED
    BY <2>3
<1>9. pc'[q] \in Early => backlog'[<<"main", q>>] \in Seq({RingFrom(q)})
  BY DEF Link
<1>10. peerRecvSockets_'[q] \subseteq DOMAIN wire'
  BY DEF Link
<1>11. /\ Nx(q)' = Nx(q) /\ RingTo(q)' = RingTo(q) /\ RingFrom(q)' = RingFrom(q)
       /\ Addr(q)' = Addr(q) /\ Chan' = Chan
  BY DEF Nx, RingTo, RingFrom, Addr, Chan
<1> QED
  BY <1>2, <1>3, <1>4, <1>5, <1>6, <1>7, <1>8, <1>9, <1>10, <1>11 DEF Link

(* A step that does not concern rank q. *)
LEMMA LinkKept ==
  ASSUME NEW q \in Ranks, Link(q), peer \in Int, peer' \in Int, peer <= peer',
         pc'[q] = pc[q], op'[q] = op[q], next'[q] = next[q], prev'[q] = prev[q],
         peerRecvSockets_'[q] = peerRecvSockets_[q],
         backlog'[<<"lsock", q>>] = backlog[<<"lsock", q>>],
         backlog'[<<"main", q>>] = backlog[<<"main", q>>],
         DOMAIN wire \subseteq DOMAIN wire',
         Addr(q) \in DOMAIN wire' =>
           wire'[Addr(q)] = <<>> \/ (Addr(q) \in DOMAIN wire /\ wire'[Addr(q)] = wire[Addr(q)])
  PROVE  Link(q)'
<1>1. /\ Knows(q)' => Knows(q)
      /\ Connected(q)' => Connected(q)
      /\ InRing(q)' => InRing(q)
  BY DEF Knows, Connected, InRing
<1> QED
  BY <1>1, LinkMoved

(* A sequence with nothing to draw from is empty. *)
LEMMA EmptySeq ==
  ASSUME NEW S, NEW s \in Seq(S), Len(s) = 0
  PROVE  s = <<>>
OBVIOUS

(* Nothing is under way from who has not begun. *)
LEMMA NothingSent ==
  ASSUME NEW X, IsPlan(X), Shapes, Stages, Wires(X), NEW d \in Chan, d \in DOMAIN wire,
         op[d[1]] = "NONE"
  PROVE  wire[d] = <<>>
<1>1. PICK s : Carries(X, d, wire[d], s)
  BY DEF Wires
<1>2. wire[d] \in Seq(Messages) /\ Len(s) = Len(wire[d]) /\ Lists(s, Pending(X, d))
  BY <1>1 DEF Carries
<1>3. \A e : e \notin Pending(X, d)
  <2> SUFFICES ASSUME NEW e \in Pending(X, d) PROVE FALSE
    OBVIOUS
  <2>1. PICK c, k : c = e[1] /\ k = e[2]
    OBVIOUS
  <2>2. SendsOn(X, d, c, k) /\ Passed(d[1], c, k)
    BY <2>1 DEF Pending
  <2>3. c \in Nat \ {0} /\ d[1] \in Ranks
    BY <2>2 DEF SendsOn, IsPlan, Chan
  <2>4. returned[d[1]] = 0 /\ ~Active(d[1])
    BY <2>3 DEF Stages, Active
  <2> QED
    BY <2>2, <2>3, <2>4 DEF Passed
<1>4. Len(s) = 0
  <2>1. s \in Seq(Pairs) /\ \A i \in 1 .. Len(s) : s[i] \in Pending(X, d)
    BY <1>2 DEF Lists
  <2>2. 1 \notin 1 .. Len(s)
    BY <1>3, <2>1
  <2> QED
    BY <2>1, <2>2
<1> QED
  BY <1>2, <1>4, EmptySeq

Invariant(X) == Delivering(X) /\ AllIn /\ Setup

(* A step that sets up connections. *)
ExchangesKept == UNCHANGED <<op, group, at, data, recv_buf, returned>>

(* A step that sets up connections keeps the invariant, if it keeps the    *)
(* links.                                                                  *)
LEMMA QuietInv ==
  ASSUME NEW X, IsPlan(X), Invariant(X), ExchangesKept, DOMAIN pc' = Ranks,
         \A q \in Ranks : pc'[q] = pc[q] \/ pc'[q] \notin {"exchange", "over"},
         \A q \in Ranks : Active(q)' <=> Active(q), NetKept, Setup', Stages'
  PROVE  Invariant(X)'
<1>1. Ring'
  BY LinksRing, PTL
<1>2. Shapes' /\ InCall(X)' /\ Wires(X)' /\ Causal(X)' /\ Holding(X)'
  BY QuietStep DEF Invariant, ExchangesKept
<1>3. AllIn'
  BY DEF AllIn, Invariant, ExchangesKept
<1> QED
  BY <1>1, <1>2, <1>3 DEF Invariant, Delivering

(* A rank that moves on, before its first exchange, keeps the delivery. *)
LEMMA MovesOn ==
  ASSUME NEW X, IsPlan(X), Invariant(X), ExchangesKept, NEW p \in Ranks, NEW to,
         pc[p] \in Early, to \in Early \cup {"ready", "aborted"},
         pc' = [pc EXCEPT ![p] = to]
  PROVE  /\ DOMAIN pc' = Ranks /\ pc'[p] = to
         /\ \A q \in Ranks : q # p => pc'[q] = pc[q]
         /\ \A q \in Ranks : pc'[q] = pc[q] \/ pc'[q] \notin {"exchange", "over"}
         /\ \A q \in Ranks : Active(q)' <=> Active(q)
         /\ Stages' /\ op[p] = "NONE"
<1>1. DOMAIN pc = Ranks /\ op[p] = "NONE" /\ returned[p] = 0
  BY DEF Invariant, Delivering, Shapes, Stages
<1>2. DOMAIN pc' = Ranks /\ pc'[p] = to /\ \A q \in Ranks : q # p => pc'[q] = pc[q]
  BY <1>1
<1>3. \A q \in Ranks : pc'[q] = pc[q] \/ pc'[q] \notin {"exchange", "over"}
  BY <1>2 DEF Early
<1>4. \A q \in Ranks : Active(q)' <=> Active(q)
  BY <1>1, <1>2 DEF Active, ExchangesKept
<1>5. Stages'
  <2> SUFFICES ASSUME NEW q \in Ranks
               PROVE  /\ pc'[q] \in Early \cup {"ready", "exchange", "over", "aborted"}
                      /\ pc'[q] \in Early => op'[q] = "NONE"
                      /\ op'[q] = "NONE" => returned'[q] = 0 /\ pc'[q] \notin {"exchange", "over"}
                      /\ op'[q] # "NONE" /\ returned'[q] = 0 =>
                           pc'[q] \in {"exchange", "over", "aborted"}
    BY DEF Stages, Early
  <2>1. CASE q = p
    BY <1>1, <1>2, <2>1 DEF ExchangesKept, Early
  <2>2. CASE q # p
    BY <1>2, <2>2 DEF ExchangesKept, Invariant, Delivering, Stages
  <2> QED
    BY <2>1, <2>2
<1> QED
  BY <1>1, <1>2, <1>3, <1>4, <1>5

(* The parts of the invariant on the links. *)
LEMMA PeerInt ==
  ASSUME NEW X, Invariant(X)
  PROVE  peer \in Int /\ SetupShapes /\ RootThread /\ nRanks \in Nat
         /\ \A q \in Ranks : Link(q) /\ q \in Nat
BY TeamsAssumption DEF Invariant, Setup, RootThread, Ranks

----------------------------------------------------------------------------
(* CreateRoot keeps the invariant. *)
LEMMA CreateRootStep ==
  ASSUME NEW X, IsPlan(X), Invariant(X), NEW p \in Ranks, CreateRoot(p)
  PROVE  Invariant(X)'
<1>1. /\ pc[p] = "create" /\ pc' = [pc EXCEPT ![p] = "listen"] /\ ExchangesKept
      /\ rootPc' = "collect" /\ rootSock' = rootSock /\ peer' = peer
      /\ backlog' = backlog /\ wire' = wire /\ next' = next /\ prev' = prev
      /\ peerRecvSockets_' = peerRecvSockets_
  BY DEF CreateRoot, Goto, ExchangesKept, netVars, sockets, exchange
<1>2. /\ DOMAIN pc' = Ranks /\ pc'[p] = "listen" /\ Stages' /\ op[p] = "NONE"
      /\ \A q \in Ranks : q # p => pc'[q] = pc[q]
      /\ \A q \in Ranks : pc'[q] = pc[q] \/ pc'[q] \notin {"exchange", "over"}
      /\ \A q \in Ranks : Active(q)' <=> Active(q)
  BY <1>1, MovesOn DEF Early
<1>3. peer \in Int /\ SetupShapes /\ RootThread /\ \A q \in Ranks : Link(q)
  BY PeerInt
<1>4. RootThread'
  BY <1>1, <1>2, <1>3 DEF RootThread, Info, Addr
<1>5. SetupShapes'
  BY <1>1, <1>3 DEF SetupShapes
<1>6. \A q \in Ranks : Link(q)'
  <2> SUFFICES ASSUME NEW q \in Ranks PROVE Link(q)'
    OBVIOUS
  <2>1. CASE q # p
    BY <1>1, <1>2, <1>3, <2>1, LinkKept DEF ExchangesKept
  <2>2. CASE q = p
    BY <1>1, <1>2, <1>3, <2>2
      DEF Link, Knows, Connected, InRing, ExchangesKept, Early, RingTo, RingFrom, Addr, Nx, Pv
  <2> QED
    BY <2>1, <2>2
<1>7. NetKept
  BY <1>1 DEF NetKept
<1>8. Setup'
  BY <1>4, <1>5, <1>6 DEF Setup
<1> QED
  BY <1>1, <1>2, <1>7, <1>8, QuietInv

(* Listen keeps the invariant. *)
LEMMA ListenStep ==
  ASSUME NEW X, IsPlan(X), Invariant(X), NEW p \in Ranks, Listen(p)
  PROVE  Invariant(X)'
<1>1. /\ pc[p] = "listen" /\ pc' = [pc EXCEPT ![p] = "toRoot"] /\ ExchangesKept
      /\ rootPc' = rootPc /\ rootSock' = rootSock /\ peer' = peer
      /\ backlog' = backlog /\ wire' = wire /\ next' = next /\ prev' = prev
      /\ peerRecvSockets_' = peerRecvSockets_
  BY DEF Listen, Goto, ExchangesKept, netVars, sockets, exchange, rootVars
<1>2. /\ DOMAIN pc' = Ranks /\ pc'[p] = "toRoot" /\ Stages' /\ op[p] = "NONE"
      /\ \A q \in Ranks : q # p => pc'[q] = pc[q]
      /\ \A q \in Ranks : pc'[q] = pc[q] \/ pc'[q] \notin {"exchange", "over"}
      /\ \A q \in Ranks : Active(q)' <=> Active(q)
  BY <1>1, MovesOn DEF Early
<1>3. peer \in Int /\ SetupShapes /\ RootThread /\ \A q \in Ranks : Link(q)
  BY PeerInt
<1>4. RootThread'
  BY <1>1, <1>2, <1>3 DEF RootThread, Info, Addr
<1>5. SetupShapes'
  BY <1>1, <1>3 DEF SetupShapes
<1>6. \A q \in Ranks : Link(q)'
  <2> SUFFICES ASSUME NEW q \in Ranks PROVE Link(q)'
    OBVIOUS
  <2>1. CASE q # p
    BY <1>1, <1>2, <1>3, <2>1, LinkKept DEF ExchangesKept
  <2>2. CASE q = p
    BY <1>1, <1>2, <1>3, <2>2
      DEF Link, Knows, Connected, InRing, ExchangesKept, Early, RingTo, RingFrom, Addr, Nx, Pv
  <2> QED
    BY <2>1, <2>2
<1>7. NetKept
  BY <1>1 DEF NetKept
<1>8. Setup'
  BY <1>4, <1>5, <1>6 DEF Setup
<1> QED
  BY <1>1, <1>2, <1>7, <1>8, QuietInv

(* ConnectRoot keeps the invariant. *)
LEMMA ConnectRootStep ==
  ASSUME NEW X, IsPlan(X), Invariant(X), NEW p \in Ranks, ConnectRoot(p)
  PROVE  Invariant(X)'
<1> DEFINE d == Info(p)
           l == <<"root", 0>>
<1>1. /\ pc[p] = "toRoot" /\ pc' = [pc EXCEPT ![p] = "info"] /\ ExchangesKept
      /\ rootPc' = rootPc /\ rootSock' = rootSock /\ peer' = peer
      /\ next' = next /\ prev' = prev /\ peerRecvSockets_' = peerRecvSockets_
      /\ backlog' = [backlog EXCEPT ![l] = Append(backlog[l], d)]
      /\ wire' = [e \in DOMAIN wire \cup {d} |-> IF e = d THEN <<>> ELSE wire[e]]
  BY DEF ConnectRoot, Goto, ExchangesKept, sockets, exchange, rootVars, Connect, Info
<1>2. /\ DOMAIN pc' = Ranks /\ pc'[p] = "info" /\ Stages' /\ op[p] = "NONE"
      /\ \A q \in Ranks : q # p => pc'[q] = pc[q]
      /\ \A q \in Ranks : pc'[q] = pc[q] \/ pc'[q] \notin {"exchange", "over"}
      /\ \A q \in Ranks : Active(q)' <=> Active(q)
  BY <1>1, MovesOn DEF Early
<1>3. peer \in Int /\ SetupShapes /\ RootThread /\ \A q \in Ranks : Link(q)
  BY PeerInt
<1>4. /\ DOMAIN wire' = DOMAIN wire \cup {d}
      /\ \A e \in DOMAIN wire : e # d => wire'[e] = wire[e]
  BY <1>1
<1>5. /\ DOMAIN backlog' = Listeners /\ backlog'[l] = Append(backlog[l], d)
      /\ \A k \in Listeners : k # l => backlog'[k] = backlog[k]
  BY <1>1, <1>3, Names DEF SetupShapes
<1>6. d \notin Chan /\ \A q \in Ranks : Addr(q) # d
  BY Names
<1>7. RootThread'
  <2>1. backlog'[l] \in Seq({Info(r) : r \in Ranks})
    <3>1. d \in {Info(r) : r \in Ranks} /\ backlog[l] \in Seq({Info(r) : r \in Ranks})
      BY <1>3 DEF RootThread
    <3> HIDE DEF d, l
    <3> QED
      BY <1>5, <3>1
  <2>2. rootPc' = "send" => Addr(peer) \in DOMAIN wire'
    BY <1>1, <1>3, <1>4 DEF RootThread
  <2> QED
    BY <1>1, <1>2, <1>3, <2>1, <2>2 DEF RootThread, Info, Addr
<1>8. SetupShapes'
  BY <1>1, <1>3, <1>5 DEF SetupShapes
<1> HIDE DEF d, l
<1>9. \A q \in Ranks : /\ backlog'[<<"lsock", q>>] = backlog[<<"lsock", q>>]
                       /\ backlog'[<<"main", q>>] = backlog[<<"main", q>>]
  BY <1>5, Names DEF l
<1>10. \A q \in Ranks : Link(q)'
  <2> SUFFICES ASSUME NEW q \in Ranks PROVE Link(q)'
    OBVIOUS
  <2>0. Addr(q) \in DOMAIN wire' => Addr(q) \in DOMAIN wire /\ wire'[Addr(q)] = wire[Addr(q)]
    BY <1>4, <1>6
  <2>1. CASE q # p
    <3>1. /\ pc'[q] = pc[q] /\ op'[q] = op[q] /\ next'[q] = next[q] /\ prev'[q] = prev[q]
          /\ peerRecvSockets_'[q] = peerRecvSockets_[q]
          /\ peer' \in Int /\ peer <= peer' /\ DOMAIN wire \subseteq DOMAIN wire'
      BY <1>1, <1>2, <1>3, <1>4, <2>1 DEF ExchangesKept
    <3>2. /\ backlog'[<<"lsock", q>>] = backlog[<<"lsock", q>>]
          /\ backlog'[<<"main", q>>] = backlog[<<"main", q>>]
      BY <1>9
    <3> QED
      BY <1>3, <2>0, <3>1, <3>2, LinkKept
  <2>2. CASE q = p
    <3>1. /\ Knows(q)' => Knows(q)
          /\ Connected(q)' => Connected(q)
          /\ InRing(q)' => InRing(q)
      BY <1>1, <1>2, <2>2 DEF Knows, Connected, InRing, ExchangesKept
    <3>2. /\ pc'[q] = "nextAddr" => pc[q] = "nextAddr"
          /\ pc'[q] \in Early => pc[q] \in Early
      BY <1>1, <1>2, <2>2 DEF Early
    <3>3. /\ next'[q] = next[q] /\ prev'[q] = prev[q]
          /\ peerRecvSockets_'[q] = peerRecvSockets_[q]
          /\ peer' \in Int /\ peer <= peer' /\ DOMAIN wire \subseteq DOMAIN wire'
      BY <1>1, <1>3, <1>4
    <3>4. /\ backlog'[<<"lsock", q>>] = backlog[<<"lsock", q>>]
          /\ backlog'[<<"main", q>>] = backlog[<<"main", q>>]
      BY <1>9
    <3> QED
      BY <1>3, <2>0, <3>1, <3>2, <3>3, <3>4, LinkMoved
  <2> QED
    BY <2>1, <2>2
<1>11. NetKept
  BY <1>4, <1>6 DEF NetKept
<1>12. Setup'
  BY <1>7, <1>8, <1>10 DEF Setup
<1> QED
  BY <1>1, <1>2, <1>11, <1>12, QuietInv

(* The tail of a sequence over a set is one, and its head is in the set. *)
LEMMA TailSeq ==
  ASSUME NEW S, NEW s \in Seq(S), s # <<>>
  PROVE  Tail(s) \in Seq(S) /\ Head(s) \in S /\ s \in Seq(S)
OBVIOUS

(* SendInfo keeps the invariant. *)
LEMMA SendInfoStep ==
  ASSUME NEW X, IsPlan(X), Invariant(X), NEW p \in Ranks, SendInfo(p)
  PROVE  Invariant(X)'
<1> DEFINE d == Info(p)
<1>1. /\ pc[p] = "info" /\ pc' = [pc EXCEPT ![p] = "fromRoot"] /\ ExchangesKept
      /\ rootPc' = rootPc /\ rootSock' = rootSock /\ peer' = peer
      /\ next' = next /\ prev' = prev /\ peerRecvSockets_' = peerRecvSockets_
      /\ backlog' = backlog
      /\ wire' = [wire EXCEPT ![d] = Append(wire[d], p)]
  BY DEF SendInfo, Goto, ExchangesKept, sockets, exchange, rootVars, Send, Info
<1>2. /\ DOMAIN pc' = Ranks /\ pc'[p] = "fromRoot" /\ Stages' /\ op[p] = "NONE"
      /\ \A q \in Ranks : q # p => pc'[q] = pc[q]
      /\ \A q \in Ranks : pc'[q] = pc[q] \/ pc'[q] \notin {"exchange", "over"}
      /\ \A q \in Ranks : Active(q)' <=> Active(q)
  BY <1>1, MovesOn DEF Early
<1>3. peer \in Int /\ SetupShapes /\ RootThread /\ \A q \in Ranks : Link(q)
  BY PeerInt
<1>4. DOMAIN wire' = DOMAIN wire /\ \A e \in DOMAIN wire : e # d => wire'[e] = wire[e]
  BY <1>1
<1>5. d \notin Chan /\ \A q \in Ranks : Addr(q) # d
  BY Names
<1>6. RootThread'
  BY <1>1, <1>2, <1>3, <1>4 DEF RootThread, Info, Addr
<1>7. SetupShapes'
  BY <1>1, <1>3 DEF SetupShapes
<1> HIDE DEF d
<1>8. \A q \in Ranks : Link(q)'
  <2> SUFFICES ASSUME NEW q \in Ranks PROVE Link(q)'
    OBVIOUS
  <2>1. /\ Knows(q)' => Knows(q)
        /\ Connected(q)' => Connected(q)
        /\ InRing(q)' => InRing(q)
    BY <1>1, <1>2 DEF Knows, Connected, InRing, ExchangesKept
  <2>2. /\ pc'[q] = "nextAddr" => pc[q] = "nextAddr"
        /\ pc'[q] \in Early => pc[q] \in Early
    BY <1>1, <1>2 DEF Early
  <2>3. /\ next'[q] = next[q] /\ prev'[q] = prev[q]
        /\ peerRecvSockets_'[q] = peerRecvSockets_[q]
        /\ peer' \in Int /\ peer <= peer' /\ DOMAIN wire \subseteq DOMAIN wire'
    BY <1>1, <1>3, <1>4
  <2>4. /\ backlog'[<<"lsock", q>>] = backlog[<<"lsock", q>>]
        /\ backlog'[<<"main", q>>] = backlog[<<"main", q>>]
    BY <1>1
  <2>5. Addr(q) \in DOMAIN wire' => Addr(q) \in DOMAIN wire /\ wire'[Addr(q)] = wire[Addr(q)]
    BY <1>4, <1>5
  <2> QED
    BY <1>3, <2>1, <2>2, <2>3, <2>4, <2>5, LinkMoved
<1>9. NetKept
  BY <1>4, <1>5 DEF NetKept
<1>10. Setup'
  BY <1>6, <1>7, <1>8 DEF Setup
<1> QED
  BY <1>1, <1>2, <1>9, <1>10, QuietInv

(* AcceptRoot keeps the invariant. *)
LEMMA AcceptRootStep ==
  ASSUME NEW X, IsPlan(X), Invariant(X), NEW p \in Ranks, AcceptRoot(p)
  PROVE  Invariant(X)'
<1> DEFINE l == <<"lsock", p>>
<1>1. /\ pc[p] = "fromRoot" /\ pc' = [pc EXCEPT ![p] = "nextAddr"] /\ ExchangesKept
      /\ rootPc' = rootPc /\ rootSock' = rootSock /\ peer' = peer
      /\ next' = next /\ prev' = prev /\ peerRecvSockets_' = peerRecvSockets_
      /\ backlog[l] # <<>> /\ backlog' = [backlog EXCEPT ![l] = Tail(backlog[l])]
      /\ wire' = wire
  BY DEF AcceptRoot, Goto, ExchangesKept, sockets, exchange, rootVars, Accept
<1>2. /\ DOMAIN pc' = Ranks /\ pc'[p] = "nextAddr" /\ Stages' /\ op[p] = "NONE"
      /\ \A q \in Ranks : q # p => pc'[q] = pc[q]
      /\ \A q \in Ranks : pc'[q] = pc[q] \/ pc'[q] \notin {"exchange", "over"}
      /\ \A q \in Ranks : Active(q)' <=> Active(q)
  BY <1>1, MovesOn DEF Early
<1>3. peer \in Int /\ SetupShapes /\ RootThread /\ \A q \in Ranks : Link(q)
  BY PeerInt
<1>4. /\ DOMAIN backlog' = Listeners /\ backlog'[l] = Tail(backlog[l])
      /\ \A k \in Listeners : k # l => backlog'[k] = backlog[k]
  BY <1>1, <1>3, Names DEF SetupShapes
<1>5. /\ backlog'[<<"root", 0>>] = backlog[<<"root", 0>>]
      /\ \A q \in Ranks : q # p => backlog'[<<"lsock", q>>] = backlog[<<"lsock", q>>]
      /\ \A q \in Ranks : backlog'[<<"main", q>>] = backlog[<<"main", q>>]
  BY <1>4, Names
<1>6. RootThread'
  BY <1>1, <1>2, <1>3, <1>5 DEF RootThread, Info, Addr
<1>7. SetupShapes'
  BY <1>1, <1>3, <1>4 DEF SetupShapes
<1>8. \A q \in Ranks : Link(q)'
  <2> SUFFICES ASSUME NEW q \in Ranks PROVE Link(q)'
    OBVIOUS
  <2>1. CASE q # p
    <3>1. /\ pc'[q] = pc[q] /\ op'[q] = op[q] /\ next'[q] = next[q] /\ prev'[q] = prev[q]
          /\ peerRecvSockets_'[q] = peerRecvSockets_[q] /\ DOMAIN wire' = DOMAIN wire
          /\ peer' \in Int /\ peer <= peer' /\ wire'[Addr(q)] = wire[Addr(q)]
      BY <1>1, <1>2, <1>3, <2>1 DEF ExchangesKept
    <3>2. /\ backlog'[<<"lsock", q>>] = backlog[<<"lsock", q>>]
          /\ backlog'[<<"main", q>>] = backlog[<<"main", q>>]
      BY <1>5, <2>1
    <3> QED
      BY <1>3, <3>1, <3>2, LinkKept
  <2>2. CASE q = p
    <3>1. ~Knows(p)' /\ ~Connected(p)' /\ ~InRing(p)'
      BY <1>1, <1>2 DEF Knows, Connected, InRing, ExchangesKept
    <3>2. Link(p) /\ backlog'[<<"main", p>>] = backlog[<<"main", p>>]
      BY <1>3, <1>5
    <3>3. Addr(p) \in DOMAIN wire /\ backlog'[l] \in Seq({Addr(p)})
      <4>1. backlog[l] \in Seq({Addr(p)}) /\ Addr(p) \in DOMAIN wire
        BY <1>1, <3>2 DEF Link
      <4> QED
        BY <1>1, <1>4, <4>1, TailSeq
    <3>4. /\ wire[Addr(p)] \in Seq({Nx(p)}) /\ (wire[Addr(p)] # <<>> => p < peer)
          /\ backlog[<<"main", p>>] \in Seq(Chan \cap DOMAIN wire)
          /\ backlog[<<"main", p>>] \in Seq({RingFrom(p)})
          /\ peerRecvSockets_[p] \subseteq DOMAIN wire
      BY <1>1, <3>2, <3>3 DEF Link, Early
    <3> QED
      BY <1>1, <2>2, <3>1, <3>2, <3>3, <3>4 DEF Link, Addr, Nx, RingFrom, RingTo, Pv, Chan
  <2> QED
    BY <2>1, <2>2
<1>9. NetKept
  BY <1>1 DEF NetKept
<1>10. Setup'
  BY <1>6, <1>7, <1>8 DEF Setup
<1> QED
  BY <1>1, <1>2, <1>9, <1>10, QuietInv

(* GetNext keeps the invariant: what the root sends is the next rank. *)
LEMMA GetNextStep ==
  ASSUME NEW X, IsPlan(X), Invariant(X), NEW p \in Ranks, GetNext(p)
  PROVE  Invariant(X)'
<1> DEFINE d == Addr(p)
<1>1. /\ pc[p] = "nextAddr" /\ pc' = [pc EXCEPT ![p] = "toNext"] /\ ExchangesKept
      /\ rootPc' = rootPc /\ rootSock' = rootSock /\ peer' = peer
      /\ next' = [next EXCEPT ![p] = Head(wire[d])]
      /\ prev' = prev /\ peerRecvSockets_' = peerRecvSockets_
      /\ backlog' = backlog
      /\ wire[d] # <<>> /\ wire' = [wire EXCEPT ![d] = Tail(wire[d])]
  BY DEF GetNext, Goto, ExchangesKept, exchange, rootVars, Recv, Addr
<1>2. /\ DOMAIN pc' = Ranks /\ pc'[p] = "toNext" /\ Stages' /\ op[p] = "NONE"
      /\ \A q \in Ranks : q # p => pc'[q] = pc[q]
      /\ \A q \in Ranks : pc'[q] = pc[q] \/ pc'[q] \notin {"exchange", "over"}
      /\ \A q \in Ranks : Active(q)' <=> Active(q)
  BY <1>1, MovesOn DEF Early
<1>3. peer \in Int /\ SetupShapes /\ RootThread /\ \A q \in Ranks : Link(q)
  BY PeerInt
<1>4. Link(p) /\ d \in DOMAIN wire /\ wire[d] \in Seq({Nx(p)}) /\ p < peer
  BY <1>1, <1>3 DEF Link
<1>5. /\ DOMAIN wire' = DOMAIN wire /\ wire'[d] = Tail(wire[d])
      /\ \A e \in DOMAIN wire : e # d => wire'[e] = wire[e]
  BY <1>1, <1>4
<1>6. d \notin Chan /\ \A q \in Ranks : q # p => Addr(q) # d
  BY Names
<1>7. /\ next'[p] = Nx(p) /\ wire'[d] \in Seq({Nx(p)})
      /\ \A q \in Ranks : q # p => next'[q] = next[q]
      /\ DOMAIN next' = Ranks
  <2> HIDE DEF d
  <2>1. Head(wire[d]) = Nx(p) /\ Tail(wire[d]) \in Seq({Nx(p)})
    BY <1>1, <1>4, TailSeq
  <2> QED
    BY <1>1, <1>3, <1>5, <2>1 DEF SetupShapes
<1>8. RootThread'
  BY <1>1, <1>2, <1>3, <1>5 DEF RootThread, Info, Addr
<1>9. SetupShapes'
  BY <1>1, <1>3, <1>7 DEF SetupShapes
<1>10. \A q \in Ranks : Link(q)'
  <2> SUFFICES ASSUME NEW q \in Ranks PROVE Link(q)'
    OBVIOUS
  <2>1. CASE q # p
    <3>1. /\ pc'[q] = pc[q] /\ op'[q] = op[q] /\ next'[q] = next[q] /\ prev'[q] = prev[q]
          /\ peerRecvSockets_'[q] = peerRecvSockets_[q] /\ DOMAIN wire' = DOMAIN wire
          /\ peer' \in Int /\ peer <= peer'
          /\ backlog'[<<"lsock", q>>] = backlog[<<"lsock", q>>]
          /\ backlog'[<<"main", q>>] = backlog[<<"main", q>>]
      BY <1>1, <1>2, <1>3, <1>5, <1>7, <2>1 DEF ExchangesKept
    <3>2. Addr(q) \in DOMAIN wire => wire'[Addr(q)] = wire[Addr(q)]
      BY <1>5, <1>6, <2>1
    <3> QED
      BY <1>3, <3>1, <3>2, LinkKept
  <2>2. CASE q = p
    <3>1. ~Connected(p)' /\ ~InRing(p)' /\ pc'[p] # "nextAddr"
      BY <1>1, <1>2 DEF Connected, InRing, ExchangesKept
    <3>2. /\ backlog[<<"lsock", p>>] \in Seq({Addr(p)})
          /\ backlog[<<"main", p>>] \in Seq(Chan \cap DOMAIN wire)
          /\ backlog[<<"main", p>>] \in Seq({RingFrom(p)})
          /\ peerRecvSockets_[p] \subseteq DOMAIN wire
      BY <1>1, <1>4 DEF Link, Early
    <3> QED
      BY <1>1, <1>4, <1>5, <1>7, <2>2, <3>1, <3>2
        DEF Link, Addr, Nx, RingFrom, RingTo, Pv, Chan
  <2> QED
    BY <2>1, <2>2
<1>11. NetKept
  BY <1>5, <1>6 DEF NetKept
<1>12. Setup'
  BY <1>8, <1>9, <1>10 DEF Setup
<1> QED
  BY <1>1, <1>2, <1>11, <1>12, QuietInv

(* ConnectNext keeps the invariant. *)
LEMMA ConnectNextStep ==
  ASSUME NEW X, IsPlan(X), Invariant(X), NEW p \in Ranks, ConnectNext(p)
  PROVE  Invariant(X)'
<1> DEFINE d == RingTo(p)
           n == Nx(p)
           l == <<"main", n>>
<1>0. /\ pc[p] = "toNext" /\ pc' = [pc EXCEPT ![p] = "fromPrev"] /\ ExchangesKept
      /\ rootPc' = rootPc /\ rootSock' = rootSock /\ peer' = peer
      /\ next' = next /\ prev' = prev /\ peerRecvSockets_' = peerRecvSockets_
      /\ Connect(<<p, next[p], RingTag>>, <<"main", next[p]>>)
  BY DEF ConnectNext, Goto, ExchangesKept, sockets, exchange, rootVars
<1>2. /\ DOMAIN pc' = Ranks /\ pc'[p] = "fromPrev" /\ Stages' /\ op[p] = "NONE"
      /\ \A q \in Ranks : q # p => pc'[q] = pc[q]
      /\ \A q \in Ranks : pc'[q] = pc[q] \/ pc'[q] \notin {"exchange", "over"}
      /\ \A q \in Ranks : Active(q)' <=> Active(q)
  BY <1>0, MovesOn DEF Early
<1>3. peer \in Int /\ SetupShapes /\ RootThread /\ \A q \in Ranks : Link(q)
  BY PeerInt
<1>31. Link(p) /\ next[p] = Nx(p) /\ p < peer
  BY <1>0, <1>3 DEF Link, Knows
<1>1. /\ pc[p] = "toNext" /\ pc' = [pc EXCEPT ![p] = "fromPrev"] /\ ExchangesKept
      /\ rootPc' = rootPc /\ rootSock' = rootSock /\ peer' = peer
      /\ next' = next /\ prev' = prev /\ peerRecvSockets_' = peerRecvSockets_
      /\ backlog' = [backlog EXCEPT ![l] = Append(backlog[l], d)]
      /\ wire' = [e \in DOMAIN wire \cup {d} |-> IF e = d THEN <<>> ELSE wire[e]]
  BY <1>0, <1>31 DEF Connect, RingTo
<1>4. /\ DOMAIN wire' = DOMAIN wire \cup {d} /\ wire'[d] = <<>>
      /\ \A e \in DOMAIN wire : e # d => wire'[e] = wire[e]
  BY <1>1
<1>5. /\ n \in Ranks /\ d \in Chan /\ RingFrom(n) = d /\ d[1] = p
      /\ \A q \in Ranks : Addr(q) # d
  BY RingPlaces, Names DEF RingTo
<1>6. /\ DOMAIN backlog' = Listeners /\ backlog'[l] = Append(backlog[l], d)
      /\ \A k \in Listeners : k # l => backlog'[k] = backlog[k]
  BY <1>1, <1>3, <1>5, Names DEF SetupShapes
<1>7. d \in DOMAIN wire => wire[d] = <<>>
  BY <1>2, <1>5, NothingSent DEF Invariant, Delivering
<1> HIDE DEF d, n
<1>8. /\ backlog'[<<"root", 0>>] = backlog[<<"root", 0>>]
      /\ \A q \in Ranks : backlog'[<<"lsock", q>>] = backlog[<<"lsock", q>>]
      /\ \A q \in Ranks : q # n => backlog'[<<"main", q>>] = backlog[<<"main", q>>]
  BY <1>5, <1>6, Names
<1>9. RootThread'
  BY <1>1, <1>2, <1>3, <1>4, <1>8 DEF RootThread, Info, Addr
<1>10. SetupShapes'
  BY <1>1, <1>3, <1>6 DEF SetupShapes
<1>11. \A q \in Ranks : /\ backlog'[<<"main", q>>] \in Seq(Chan \cap DOMAIN wire')
                        /\ pc'[q] \in Early => backlog'[<<"main", q>>] \in Seq({RingFrom(q)})
  <2> SUFFICES ASSUME NEW q \in Ranks
               PROVE  /\ backlog'[<<"main", q>>] \in Seq(Chan \cap DOMAIN wire')
                      /\ pc'[q] \in Early => backlog'[<<"main", q>>] \in Seq({RingFrom(q)})
    OBVIOUS
  <2>1. /\ backlog[<<"main", q>>] \in Seq(Chan \cap DOMAIN wire)
        /\ pc'[q] \in Early => backlog[<<"main", q>>] \in Seq({RingFrom(q)})
    <3>1. pc'[q] \in Early => pc[q] \in Early
      BY <1>1, <1>2 DEF Early
    <3> QED
      BY <1>3, <3>1 DEF Link
  <2>2. backlog[<<"main", q>>] \in Seq(Chan \cap DOMAIN wire')
    <3>1. Chan \cap DOMAIN wire \subseteq Chan \cap DOMAIN wire'
      BY <1>4
    <3> QED
      BY <2>1, <3>1, SeqMore
  <2>3. CASE q # n
    BY <1>8, <2>1, <2>2, <2>3
  <2>4. CASE q = n
    <3>1. d \in Chan \cap DOMAIN wire' /\ d = RingFrom(q)
      BY <1>4, <1>5, <2>4
    <3>2. \A S : d \in S /\ backlog[<<"main", q>>] \in Seq(S)
                   => Append(backlog[<<"main", q>>], d) \in Seq(S)
      OBVIOUS
    <3>3. backlog'[<<"main", q>>] = Append(backlog[<<"main", q>>], d)
      BY <1>6, <2>4
    <3> QED
      BY <2>1, <2>2, <3>1, <3>2, <3>3
  <2> QED
    BY <2>3, <2>4
<1>12. \A q \in Ranks : Link(q)'
  <2> SUFFICES ASSUME NEW q \in Ranks PROVE Link(q)'
    OBVIOUS
  <2>1. /\ Knows(q)' => next'[q] = Nx(q) /\ q < peer'
        /\ InRing(q)' => prev'[q] = RingFrom(q) /\ RingFrom(q) \in DOMAIN wire'
        /\ peerRecvSockets_'[q] \subseteq DOMAIN wire'
    <3>1. /\ Knows(q)' => Knows(q)
          /\ InRing(q)' => InRing(q)
      BY <1>1, <1>2 DEF Knows, InRing, ExchangesKept
    <3>2. Link(q)
      BY <1>3
    <3> QED
      BY <1>1, <1>4, <3>1, <3>2 DEF Link
  <2>2. Connected(q)' => RingTo(q) \in DOMAIN wire'
    <3>1. CASE q = p
      BY <1>4, <3>1 DEF d
    <3>2. CASE q # p
      <4>1. Connected(q)' => Connected(q)
        BY <1>1, <1>2, <3>2 DEF Connected, ExchangesKept
      <4> QED
        BY <1>3, <1>4, <4>1 DEF Link
    <3> QED
      BY <3>1, <3>2
  <2>3. Addr(q) \in DOMAIN wire' => Addr(q) \in DOMAIN wire /\ wire'[Addr(q)] = wire[Addr(q)]
    BY <1>4, <1>5
  <2>4. /\ pc'[q] = "nextAddr" \/ backlog'[<<"lsock", q>>] # <<>> => Addr(q) \in DOMAIN wire'
        /\ Addr(q) \in DOMAIN wire' =>
             wire'[Addr(q)] \in Seq({Nx(q)}) /\ (wire'[Addr(q)] # <<>> => q < peer')
        /\ backlog'[<<"lsock", q>>] \in Seq({Addr(q)})
    <3>1. pc'[q] = "nextAddr" => pc[q] = "nextAddr"
      BY <1>2
    <3>2. Link(q)
      BY <1>3
    <3> QED
      BY <1>1, <1>4, <1>8, <2>3, <3>1, <3>2 DEF Link
  <2>5. /\ backlog'[<<"main", q>>] \in Seq(Chan \cap DOMAIN wire')
        /\ pc'[q] \in Early => backlog'[<<"main", q>>] \in Seq({RingFrom(q)})
    BY <1>11
  <2> QED
    BY <2>1, <2>2, <2>4, <2>5 DEF Link, Addr, Nx, RingFrom, RingTo, Pv, Chan
<1>13. NetKept
  BY <1>4, <1>7 DEF NetKept
<1>14. Setup'
  BY <1>9, <1>10, <1>12 DEF Setup
<1> QED
  BY <1>1, <1>2, <1>13, <1>14, QuietInv

(* AcceptPrev keeps the invariant: the first to connect is the previous    *)
(* rank.                                                                   *)
LEMMA AcceptPrevStep ==
  ASSUME NEW X, IsPlan(X), Invariant(X), NEW p \in Ranks, AcceptPrev(p)
  PROVE  Invariant(X)'
<1> DEFINE l == <<"main", p>>
<1>1. /\ pc[p] = "fromPrev" /\ pc' = [pc EXCEPT ![p] = "ready"] /\ ExchangesKept
      /\ rootPc' = rootPc /\ rootSock' = rootSock /\ peer' = peer
      /\ next' = next /\ peerRecvSockets_' = peerRecvSockets_
      /\ prev' = [prev EXCEPT ![p] = Head(backlog[l])]
      /\ backlog[l] # <<>> /\ backlog' = [backlog EXCEPT ![l] = Tail(backlog[l])]
      /\ wire' = wire
  BY DEF AcceptPrev, Goto, ExchangesKept, exchange, rootVars, Accept, First
<1>11. pc[p] \in Early
  BY <1>1 DEF Early
<1>2. /\ DOMAIN pc' = Ranks /\ pc'[p] = "ready" /\ Stages' /\ op[p] = "NONE"
      /\ \A q \in Ranks : q # p => pc'[q] = pc[q]
      /\ \A q \in Ranks : pc'[q] = pc[q] \/ pc'[q] \notin {"exchange", "over"}
      /\ \A q \in Ranks : Active(q)' <=> Active(q)
  BY <1>1, <1>11, MovesOn
<1>3. peer \in Int /\ SetupShapes /\ RootThread /\ \A q \in Ranks : Link(q)
  BY PeerInt
<1>4. /\ DOMAIN backlog' = Listeners /\ backlog'[l] = Tail(backlog[l])
      /\ \A k \in Listeners : k # l => backlog'[k] = backlog[k]
      /\ DOMAIN prev' = Ranks /\ prev'[p] = Head(backlog[l])
      /\ \A q \in Ranks : q # p => prev'[q] = prev[q]
  BY <1>1, <1>3, Names DEF SetupShapes
<1>5. /\ backlog'[<<"root", 0>>] = backlog[<<"root", 0>>]
      /\ \A q \in Ranks : backlog'[<<"lsock", q>>] = backlog[<<"lsock", q>>]
      /\ \A q \in Ranks : q # p => backlog'[<<"main", q>>] = backlog[<<"main", q>>]
  BY <1>4, Names
<1>6. RootThread'
  BY <1>1, <1>2, <1>3, <1>5 DEF RootThread, Info, Addr
<1>7. SetupShapes'
  BY <1>1, <1>3, <1>4 DEF SetupShapes
<1>8. \A q \in Ranks : Link(q)'
  <2> SUFFICES ASSUME NEW q \in Ranks PROVE Link(q)'
    OBVIOUS
  <2>1. CASE q # p
    <3>1. /\ pc'[q] = pc[q] /\ op'[q] = op[q] /\ next'[q] = next[q] /\ prev'[q] = prev[q]
          /\ peerRecvSockets_'[q] = peerRecvSockets_[q] /\ DOMAIN wire' = DOMAIN wire
          /\ peer' \in Int /\ peer <= peer' /\ wire'[Addr(q)] = wire[Addr(q)]
      BY <1>1, <1>2, <1>3, <1>4, <2>1 DEF ExchangesKept
    <3>2. /\ backlog'[<<"lsock", q>>] = backlog[<<"lsock", q>>]
          /\ backlog'[<<"main", q>>] = backlog[<<"main", q>>]
      BY <1>5, <2>1
    <3> QED
      BY <1>3, <3>1, <3>2, LinkKept
  <2>2. CASE q = p
    <3>1. Link(p) /\ Knows(p) /\ Connected(p) /\ pc[p] \in Early
      BY <1>1, <1>3 DEF Knows, Connected, Early
    <3>2. /\ next[p] = Nx(p) /\ p < peer /\ RingTo(p) \in DOMAIN wire
          /\ backlog[<<"lsock", p>>] # <<>> => Addr(p) \in DOMAIN wire
          /\ Addr(p) \in DOMAIN wire =>
               wire[Addr(p)] \in Seq({Nx(p)}) /\ (wire[Addr(p)] # <<>> => p < peer)
          /\ backlog[<<"lsock", p>>] \in Seq({Addr(p)})
          /\ backlog[l] \in Seq(Chan \cap DOMAIN wire) /\ backlog[l] \in Seq({RingFrom(p)})
          /\ peerRecvSockets_[p] \subseteq DOMAIN wire
      BY <3>1 DEF Link
    <3>3. /\ Head(backlog[l]) \in Chan \cap DOMAIN wire /\ Head(backlog[l]) = RingFrom(p)
          /\ Tail(backlog[l]) \in Seq(Chan \cap DOMAIN wire)
      <4> HIDE DEF l
      <4>1. /\ Head(backlog[l]) \in Chan \cap DOMAIN wire
            /\ Tail(backlog[l]) \in Seq(Chan \cap DOMAIN wire)
        BY <1>1, <3>2, TailSeq
      <4>2. Head(backlog[l]) \in {RingFrom(p)}
        BY <1>1, <3>2, TailSeq
      <4> QED
        BY <4>1, <4>2
    <3>4. pc'[p] \notin Early /\ pc'[p] # "nextAddr"
      BY <1>2 DEF Early
    <3>5. prev'[p] = RingFrom(p) /\ RingFrom(p) \in DOMAIN wire'
      BY <1>1, <1>4, <3>3
    <3>6. /\ next'[p] = Nx(p) /\ p < peer' /\ RingTo(p) \in DOMAIN wire'
          /\ backlog'[<<"lsock", p>>] # <<>> => Addr(p) \in DOMAIN wire'
          /\ Addr(p) \in DOMAIN wire' =>
               wire'[Addr(p)] \in Seq({Nx(p)}) /\ (wire'[Addr(p)] # <<>> => p < peer')
          /\ backlog'[<<"lsock", p>>] \in Seq({Addr(p)})
          /\ peerRecvSockets_'[p] \subseteq DOMAIN wire'
      BY <1>1, <1>5, <3>2
    <3>7. backlog'[l] \in Seq(Chan \cap DOMAIN wire')
      BY <1>1, <1>4, <3>3
    <3> QED
      BY <2>2, <3>4, <3>5, <3>6, <3>7 DEF Link, Addr, Nx, RingFrom, RingTo, Pv, Chan
  <2> QED
    BY <2>1, <2>2
<1>9. NetKept
  BY <1>1 DEF NetKept
<1>10. Setup'
  BY <1>6, <1>7, <1>8 DEF Setup
<1> QED
  BY <1>1, <1>2, <1>9, <1>10, QuietInv

(* A rank that ends, before its first exchange or in one. *)
LEMMA AbortStep ==
  ASSUME NEW X, IsPlan(X), Invariant(X), NEW p \in Ranks, Aborts(p),
         op[p] = "NONE" \/ pc[p] \in {"exchange", "over"}
  PROVE  Invariant(X)'
<1>1. /\ pc[p] # "aborted" /\ pc' = [pc EXCEPT ![p] = "aborted"] /\ ExchangesKept
      /\ rootPc' = rootPc /\ rootSock' = rootSock /\ peer' = peer
      /\ next' = next /\ prev' = prev /\ peerRecvSockets_' = peerRecvSockets_
      /\ backlog' = backlog /\ wire' = wire
  BY DEF Aborts, ExchangesKept, exchange, rootVars, sockets, netVars
<1>2. DOMAIN pc = Ranks /\ Stages
  BY DEF Invariant, Delivering, Shapes
<1>3. DOMAIN pc' = Ranks /\ pc'[p] = "aborted" /\ \A q \in Ranks : q # p => pc'[q] = pc[q]
  BY <1>1, <1>2
<1>4. \A q \in Ranks : Active(q)' <=> Active(q)
  BY <1>1, <1>3 DEF Active, ExchangesKept
<1>5. \A q \in Ranks : pc'[q] = pc[q] \/ pc'[q] \notin {"exchange", "over"}
  BY <1>3
<1>6. Stages'
  <2> SUFFICES ASSUME NEW q \in Ranks
               PROVE  /\ pc'[q] \in Early \cup {"ready", "exchange", "over", "aborted"}
                      /\ pc'[q] \in Early => op'[q] = "NONE"
                      /\ op'[q] = "NONE" => returned'[q] = 0 /\ pc'[q] \notin {"exchange", "over"}
                      /\ op'[q] # "NONE" /\ returned'[q] = 0 =>
                           pc'[q] \in {"exchange", "over", "aborted"}
    BY DEF Stages, Early
  <2>1. CASE q = p
    BY <1>1, <1>2, <1>3, <2>1 DEF ExchangesKept, Early, Stages
  <2>2. CASE q # p
    BY <1>1, <1>2, <1>3, <2>2 DEF ExchangesKept, Stages
  <2> QED
    BY <2>1, <2>2
<1>7. peer \in Int /\ SetupShapes /\ RootThread /\ \A q \in Ranks : Link(q)
  BY PeerInt
<1>8. RootThread'
  BY <1>1, <1>3, <1>7 DEF RootThread, Info, Addr
<1>9. SetupShapes'
  BY <1>1, <1>7 DEF SetupShapes
<1>10. \A q \in Ranks : Link(q)'
  <2> SUFFICES ASSUME NEW q \in Ranks PROVE Link(q)'
    OBVIOUS
  <2>1. /\ Knows(q)' => Knows(q)
        /\ Connected(q)' => Connected(q)
        /\ InRing(q)' => InRing(q)
    BY <1>1, <1>3 DEF Knows, Connected, InRing, ExchangesKept
  <2>2. /\ pc'[q] = "nextAddr" => pc[q] = "nextAddr"
        /\ pc'[q] \in Early => pc[q] \in Early
    BY <1>3 DEF Early
  <2>3. /\ next'[q] = next[q] /\ prev'[q] = prev[q]
        /\ peerRecvSockets_'[q] = peerRecvSockets_[q]
        /\ peer' \in Int /\ peer <= peer' /\ DOMAIN wire \subseteq DOMAIN wire'
        /\ backlog'[<<"lsock", q>>] = backlog[<<"lsock", q>>]
        /\ backlog'[<<"main", q>>] = backlog[<<"main", q>>]
        /\ wire'[Addr(q)] = wire[Addr(q)] /\ DOMAIN wire = DOMAIN wire'
    BY <1>1, <1>7
  <2> QED
    BY <1>7, <2>1, <2>2, <2>3, LinkMoved
<1>11. NetKept
  BY <1>1 DEF NetKept
<1>12. Setup'
  BY <1>8, <1>9, <1>10 DEF Setup
<1> QED
  BY <1>1, <1>3, <1>4, <1>5, <1>6, <1>11, <1>12, QuietInv

(* Every step of establishConnections keeps the invariant. *)
LEMMA EstablishInv ==
  ASSUME NEW X, IsPlan(X), Invariant(X), NEW p \in Ranks, EstablishStep(p)
  PROVE  Invariant(X)'
<1>1. pc[p] \in Early => op[p] = "NONE"
  BY DEF Invariant, Delivering, Stages
<1>2. CASE TimeOut(p)
  BY <1>1, <1>2, AbortStep DEF TimeOut, Waits, Early
<1>3. CASE FindsRootGone(p)
  BY <1>1, <1>3, AbortStep DEF FindsRootGone, Early
<1> QED
  BY <1>2, <1>3, CreateRootStep, ListenStep, ConnectRootStep, SendInfoStep, AcceptRootStep,
     GetNextStep, ConnectNextStep, AcceptPrevStep DEF EstablishStep

(* A step of the root thread. *)
RootMoves ==
  /\ ExchangesKept /\ pc' = pc
  /\ next' = next /\ prev' = prev /\ peerRecvSockets_' = peerRecvSockets_

(* A step of the root thread keeps the invariant, if it keeps the links. *)
LEMMA RootInv ==
  ASSUME NEW X, IsPlan(X), Invariant(X), RootMoves, NetKept, RootThread',
         DOMAIN backlog' = Listeners, \A q \in Ranks : Link(q)'
  PROVE  Invariant(X)'
<1>1. pc' = pc /\ ExchangesKept /\ DOMAIN pc = Ranks /\ Stages
  BY DEF Invariant, Delivering, Shapes, RootMoves
<1>2. \A q \in Ranks : Active(q)' <=> Active(q)
  BY <1>1 DEF Active, ExchangesKept
<1>3. Stages'
  BY <1>1 DEF Stages, ExchangesKept
<1>4. SetupShapes'
  <2>1. SetupShapes
    BY DEF Invariant, Setup
  <2> QED
    BY <2>1 DEF SetupShapes, RootMoves
<1>5. Setup'
  BY <1>4 DEF Setup
<1> QED
  BY <1>1, <1>2, <1>3, <1>5, QuietInv

(* A link that the root thread adds at most an empty connection to. *)
LEMMA LinkRoot ==
  ASSUME RootMoves, NEW q \in Ranks, Link(q), peer \in Int, peer' \in Int, peer <= peer',
         backlog'[<<"lsock", q>>] = backlog[<<"lsock", q>>],
         backlog'[<<"main", q>>] = backlog[<<"main", q>>],
         DOMAIN wire \subseteq DOMAIN wire',
         Addr(q) \in DOMAIN wire' =>
           wire'[Addr(q)] = <<>> \/ (Addr(q) \in DOMAIN wire /\ wire'[Addr(q)] = wire[Addr(q)])
  PROVE  Link(q)'
BY LinkKept DEF RootMoves, ExchangesKept

(* RootAccept keeps the invariant. *)
LEMMA RootAcceptStep ==
  ASSUME NEW X, IsPlan(X), Invariant(X), RootAccept
  PROVE  Invariant(X)'
<1> DEFINE l == <<"root", 0>>
           I == {Info(r) : r \in Ranks}
<1>1. /\ RootMoves /\ rootPc = "collect" /\ rootPc' = "info" /\ rootSock' = Head(backlog[l])
      /\ peer' = peer /\ wire' = wire
      /\ backlog[l] # <<>> /\ backlog' = [backlog EXCEPT ![l] = Tail(backlog[l])]
  BY DEF RootAccept, RootMoves, ExchangesKept, sockets, exchange, thread, Accept, First
<1>2. /\ peer \in Int /\ SetupShapes /\ RootThread /\ \A q \in Ranks : Link(q)
      /\ pc' = pc
  BY <1>1, PeerInt DEF RootMoves
<1>3. /\ DOMAIN backlog' = Listeners /\ backlog'[l] = Tail(backlog[l])
      /\ \A k \in Listeners : k # l => backlog'[k] = backlog[k]
  <2>1. l \in Listeners
    BY DEF Listeners
  <2> QED
    BY <1>1, <1>2, <2>1 DEF SetupShapes
<1>4. \A q \in Ranks : /\ backlog'[<<"lsock", q>>] = backlog[<<"lsock", q>>]
                       /\ backlog'[<<"main", q>>] = backlog[<<"main", q>>]
  BY <1>3, Names
<1>5. backlog'[l] \in Seq(I) /\ rootSock' \in I
  <2>1. backlog[l] \in Seq(I)
    BY <1>2 DEF RootThread
  <2> HIDE DEF I, l
  <2> QED
    BY <1>1, <1>3, <2>1, TailSeq
<1>6. RootThread'
  BY <1>1, <1>2, <1>5 DEF RootThread, Info, Addr
<1>7. \A q \in Ranks : Link(q)'
  BY <1>1, <1>2, <1>4, LinkRoot
<1>8. NetKept
  BY <1>1 DEF NetKept
<1> QED
  BY <1>1, <1>3, <1>6, <1>7, <1>8, RootInv

(* RootCheckIn keeps the invariant. *)
LEMMA RootCheckInStep ==
  ASSUME NEW X, IsPlan(X), Invariant(X), RootCheckIn
  PROVE  Invariant(X)'
<1>1. /\ RootMoves /\ rootPc = "info" /\ rootPc' \in {"serve", "collect"}
      /\ peer' = peer /\ backlog' = backlog
      /\ wire' = [wire EXCEPT ![rootSock] = Tail(wire[rootSock])]
  BY DEF RootCheckIn, RootMoves, ExchangesKept, sockets, exchange, thread, Recv
<1>2. /\ peer \in Int /\ SetupShapes /\ RootThread /\ \A q \in Ranks : Link(q)
      /\ pc' = pc
  BY <1>1, PeerInt DEF RootMoves
<1>3. PICK r \in Ranks : rootSock = Info(r)
  BY <1>1, <1>2 DEF RootThread
<1>4. /\ DOMAIN wire' = DOMAIN wire
      /\ \A e \in DOMAIN wire : e # Info(r) => wire'[e] = wire[e]
  BY <1>1, <1>3
<1>5. Info(r) \notin Chan /\ \A q \in Ranks : Addr(q) # Info(r)
  BY Names
<1>6. RootThread'
  BY <1>1, <1>2, <1>4 DEF RootThread, Info, Addr
<1>7. \A q \in Ranks : Link(q)'
  BY <1>1, <1>2, <1>4, <1>5, LinkRoot
<1>8. NetKept
  BY <1>4, <1>5 DEF NetKept
<1>9. DOMAIN backlog' = Listeners
  BY <1>1, <1>2 DEF SetupShapes
<1> QED
  BY <1>1, <1>6, <1>7, <1>8, <1>9, RootInv

(* RootConnect keeps the invariant. *)
LEMMA RootConnectStep ==
  ASSUME NEW X, IsPlan(X), Invariant(X), RootConnect
  PROVE  Invariant(X)'
<1>0. PICK r : r = peer
  OBVIOUS
<1> DEFINE d == Addr(r)
           l == <<"lsock", r>>
<1>1. /\ RootMoves /\ rootPc = "serve" /\ rootPc' = "send" /\ peer' = peer
      /\ backlog' = [backlog EXCEPT ![l] = Append(backlog[l], d)]
      /\ wire' = [e \in DOMAIN wire \cup {d} |-> IF e = d THEN <<>> ELSE wire[e]]
  BY <1>0 DEF RootConnect, RootMoves, ExchangesKept, sockets, exchange, thread, Connect, Addr
<1>2. /\ peer \in Int /\ SetupShapes /\ RootThread /\ \A q \in Ranks : Link(q)
      /\ pc' = pc
  BY <1>1, PeerInt DEF RootMoves
<1>3. r \in Ranks
  BY <1>0, <1>1, <1>2, TeamsAssumption DEF RootThread, Ranks
<1>4. /\ DOMAIN wire' = DOMAIN wire \cup {d} /\ wire'[d] = <<>>
      /\ \A e \in DOMAIN wire : e # d => wire'[e] = wire[e]
  BY <1>1
<1>5. d \notin Chan /\ \A q \in Ranks : q # r => Addr(q) # d
  BY <1>3, Names
<1>6. /\ DOMAIN backlog' = Listeners /\ backlog'[l] = Append(backlog[l], d)
      /\ \A k \in Listeners : k # l => backlog'[k] = backlog[k]
  BY <1>1, <1>2, <1>3, Names DEF SetupShapes
<1>7. /\ backlog'[<<"root", 0>>] = backlog[<<"root", 0>>]
      /\ \A q \in Ranks : q # r => backlog'[<<"lsock", q>>] = backlog[<<"lsock", q>>]
      /\ \A q \in Ranks : backlog'[<<"main", q>>] = backlog[<<"main", q>>]
  BY <1>3, <1>6, Names
<1>8. RootThread'
  <2>1. Addr(peer)' = d
    BY <1>0, <1>1 DEF Addr
  <2> HIDE DEF d, l
  <2> QED
    BY <1>1, <1>2, <1>4, <1>7, <2>1 DEF RootThread, Info, Addr
<1>9. \A q \in Ranks : Link(q)'
  <2> SUFFICES ASSUME NEW q \in Ranks PROVE Link(q)'
    OBVIOUS
  <2>1. CASE q # r
    <3>1. /\ Link(q) /\ peer' \in Int /\ peer <= peer' /\ DOMAIN wire \subseteq DOMAIN wire'
          /\ backlog'[<<"lsock", q>>] = backlog[<<"lsock", q>>]
          /\ backlog'[<<"main", q>>] = backlog[<<"main", q>>]
      BY <1>1, <1>2, <1>4, <1>7, <2>1
    <3>2. Addr(q) \in DOMAIN wire' => Addr(q) \in DOMAIN wire /\ wire'[Addr(q)] = wire[Addr(q)]
      BY <1>4, <1>5, <2>1
    <3> QED
      BY <1>1, <1>2, <3>1, <3>2, LinkRoot
  <2>2. CASE q = r
    <3>1. /\ next' = next /\ prev' = prev /\ peerRecvSockets_' = peerRecvSockets_
          /\ pc' = pc /\ op' = op /\ peer' = peer
          /\ (Knows(q)' <=> Knows(q)) /\ (Connected(q)' <=> Connected(q))
          /\ (InRing(q)' <=> InRing(q))
      BY <1>1 DEF RootMoves, ExchangesKept, Knows, Connected, InRing
    <3>2. backlog'[<<"lsock", q>>] \in Seq({Addr(q)})
      <4>1. backlog[<<"lsock", q>>] \in Seq({Addr(q)})
        BY <1>2 DEF Link
      <4>2. \A S : d \in S /\ backlog[l] \in Seq(S) => Append(backlog[l], d) \in Seq(S)
        OBVIOUS
      <4> QED
        BY <1>6, <2>2, <4>1, <4>2
    <3>3. Addr(q) \in DOMAIN wire' /\ wire'[Addr(q)] = <<>> /\ <<>> \in Seq({Nx(q)})
      BY <1>4, <2>2
    <3>4. backlog'[<<"main", q>>] \in Seq(Chan \cap DOMAIN wire')
      <4>1. Chan \cap DOMAIN wire \subseteq Chan \cap DOMAIN wire'
        BY <1>4
      <4>2. backlog[<<"main", q>>] \in Seq(Chan \cap DOMAIN wire)
        BY <1>2 DEF Link
      <4> QED
        BY <1>7, <4>1, <4>2, SeqMore
    <3>5. /\ Knows(q) => next[q] = Nx(q) /\ q < peer
          /\ Connected(q) => RingTo(q) \in DOMAIN wire
          /\ InRing(q) => prev[q] = RingFrom(q) /\ RingFrom(q) \in DOMAIN wire
          /\ pc[q] \in Early => backlog[<<"main", q>>] \in Seq({RingFrom(q)})
          /\ peerRecvSockets_[q] \subseteq DOMAIN wire
      BY <1>2 DEF Link
    <3>6. /\ Knows(q)' => next'[q] = Nx(q) /\ q < peer'
          /\ Connected(q)' => RingTo(q) \in DOMAIN wire'
          /\ InRing(q)' => prev'[q] = RingFrom(q) /\ RingFrom(q) \in DOMAIN wire'
          /\ pc'[q] \in Early => backlog'[<<"main", q>>] \in Seq({RingFrom(q)})
          /\ peerRecvSockets_'[q] \subseteq DOMAIN wire'
      BY <1>4, <1>7, <3>1, <3>5
    <3> QED
      BY <3>2, <3>3, <3>4, <3>6 DEF Link, Addr, Nx, RingFrom, RingTo, Pv, Chan
  <2> QED
    BY <2>1, <2>2
<1>10. NetKept
  BY <1>4, <1>5 DEF NetKept
<1> QED
  BY <1>1, <1>6, <1>8, <1>9, <1>10, RootInv

(* RootSend keeps the invariant. *)
LEMMA RootSendStep ==
  ASSUME NEW X, IsPlan(X), Invariant(X), RootSend
  PROVE  Invariant(X)'
<1>0. PICK r : r = peer
  OBVIOUS
<1> DEFINE d == Addr(r)
<1>1. /\ RootMoves /\ rootPc = "send" /\ peer' = r + 1
      /\ rootPc' = (IF r + 1 = nRanks THEN "done" ELSE "serve")
      /\ backlog' = backlog
      /\ wire' = [wire EXCEPT ![d] = Append(wire[d], (r + 1) % nRanks)]
  BY <1>0 DEF RootSend, RootMoves, ExchangesKept, sockets, exchange, thread, Send, Addr
<1>2. /\ peer \in Int /\ SetupShapes /\ RootThread /\ \A q \in Ranks : Link(q)
      /\ pc' = pc
  BY <1>1, PeerInt DEF RootMoves
<1>3. r \in Ranks /\ d \in DOMAIN wire /\ (r + 1) % nRanks = Nx(r)
  <2>1. r \in Ranks
    BY <1>0, <1>1, <1>2, TeamsAssumption DEF RootThread, Ranks
  <2> QED
    BY <1>0, <1>1, <1>2, <2>1, RingPlaces DEF RootThread
<1>4. /\ DOMAIN wire' = DOMAIN wire /\ wire'[d] = Append(wire[d], Nx(r))
      /\ \A e \in DOMAIN wire : e # d => wire'[e] = wire[e]
  BY <1>1, <1>3
<1>5. d \notin Chan /\ \A q \in Ranks : q # r => Addr(q) # d
  BY <1>3, Names
<1>6. RootThread'
  <2>1. /\ peer' \in 0 .. nRanks /\ (rootPc' # "done" => peer' < nRanks)
        /\ rootPc' \in {"serve", "done"}
    BY <1>1, <1>3, TeamsAssumption DEF Ranks
  <2> QED
    BY <1>1, <1>2, <2>1 DEF RootThread, Info, Addr
<1>7. \A q \in Ranks : Link(q)'
  <2> SUFFICES ASSUME NEW q \in Ranks PROVE Link(q)'
    OBVIOUS
  <2>0. peer' \in Int /\ peer <= peer' /\ q < peer' => q \in Int
    BY <1>0, <1>1, <1>2 DEF Ranks
  <2>00. peer' \in Int /\ peer <= peer'
    BY <1>0, <1>1, <1>2
  <2>1. CASE q # r
    <3>1. /\ Link(q) /\ DOMAIN wire \subseteq DOMAIN wire'
          /\ backlog'[<<"lsock", q>>] = backlog[<<"lsock", q>>]
          /\ backlog'[<<"main", q>>] = backlog[<<"main", q>>]
      BY <1>1, <1>2, <1>4, <2>1
    <3>2. Addr(q) \in DOMAIN wire' => Addr(q) \in DOMAIN wire /\ wire'[Addr(q)] = wire[Addr(q)]
      BY <1>4, <1>5, <2>1
    <3> QED
      BY <1>1, <1>2, <2>00, <3>1, <3>2, LinkRoot
  <2>2. CASE q = r
    <3>1. /\ next' = next /\ prev' = prev /\ peerRecvSockets_' = peerRecvSockets_
          /\ pc' = pc /\ op' = op
          /\ (Knows(q)' <=> Knows(q)) /\ (Connected(q)' <=> Connected(q))
          /\ (InRing(q)' <=> InRing(q))
      BY <1>1 DEF RootMoves, ExchangesKept, Knows, Connected, InRing
    <3>2. wire'[Addr(q)] \in Seq({Nx(q)})
      <4>1. wire[d] \in Seq({Nx(q)}) /\ Nx(q) = Nx(r)
        BY <1>2, <1>3, <2>2 DEF Link
      <4>2. \A S : Nx(q) \in S /\ wire[d] \in Seq(S) => Append(wire[d], Nx(q)) \in Seq(S)
        OBVIOUS
      <4> QED
        BY <1>4, <2>2, <4>1, <4>2
    <3>3. Addr(q) \in DOMAIN wire' /\ q < peer'
      BY <1>0, <1>1, <1>2, <1>3, <1>4, <2>2
    <3>4. Link(q)
      BY <1>2
    <3>5. /\ backlog[<<"lsock", q>>] \in Seq({Addr(q)})
          /\ backlog[<<"main", q>>] \in Seq(Chan \cap DOMAIN wire)
          /\ Knows(q) => next[q] = Nx(q) /\ q < peer
          /\ Connected(q) => RingTo(q) \in DOMAIN wire
          /\ InRing(q) => prev[q] = RingFrom(q) /\ RingFrom(q) \in DOMAIN wire
          /\ pc[q] \in Early => backlog[<<"main", q>>] \in Seq({RingFrom(q)})
          /\ peerRecvSockets_[q] \subseteq DOMAIN wire
      BY <3>4 DEF Link
    <3>6. /\ Knows(q)' => next'[q] = Nx(q) /\ q < peer'
          /\ Connected(q)' => RingTo(q) \in DOMAIN wire'
          /\ InRing(q)' => prev'[q] = RingFrom(q) /\ RingFrom(q) \in DOMAIN wire'
          /\ pc'[q] \in Early => backlog'[<<"main", q>>] \in Seq({RingFrom(q)})
          /\ peerRecvSockets_'[q] \subseteq DOMAIN wire'
          /\ backlog'[<<"lsock", q>>] \in Seq({Addr(q)})
          /\ backlog'[<<"main", q>>] \in Seq(Chan \cap DOMAIN wire')
      BY <1>1, <1>4, <3>1, <3>3, <3>5
    <3> QED
      BY <3>2, <3>3, <3>6 DEF Link, Addr, Nx, RingFrom, RingTo, Pv, Chan
  <2> QED
    BY <2>1, <2>2
<1>8. NetKept
  BY <1>4, <1>5 DEF NetKept
<1>9. DOMAIN backlog' = Listeners
  BY <1>1, <1>2 DEF SetupShapes
<1> QED
  BY <1>1, <1>6, <1>7, <1>8, <1>9, RootInv

(* The root thread does not end once a rank has returned from a call. *)
LEMMA RootAbortsStep ==
  ASSUME NEW X, IsPlan(X), Invariant(X), RootAborts
  PROVE  Invariant(X)' /\ (op[0] = "NONE" \/ pc[0] \in {"exchange", "over"})
<1>1. Aborts(0) /\ rootPc \in {"info", "send"} /\ pc[0] # "aborted"
  BY DEF RootAborts, Aborts
<1>2. 0 \in Ranks /\ nRanks - 1 \in Ranks
  BY TeamsAssumption DEF Ranks
<1>3. peer < nRanks /\ peer \in Int /\ \A q \in Ranks : Link(q)
  BY <1>1, PeerInt DEF RootThread
<1>4. op[0] = "NONE" \/ pc[0] \in {"exchange", "over"}
  <2> SUFFICES ASSUME op[0] # "NONE", pc[0] \notin {"exchange", "over"} PROVE FALSE
    OBVIOUS
  <2>1. returned[0] # 0 /\ returned[0] \in Nat
    BY <1>1, <1>2 DEF Invariant, Delivering, Stages, Shapes
  <2>2. op[nRanks - 1] # "NONE"
    BY <1>2, <2>1 DEF Invariant, AllIn
  <2>3. Knows(nRanks - 1)
    BY <2>2 DEF Knows
  <2>4. nRanks - 1 < peer
    BY <1>2, <1>3, <2>3 DEF Link
  <2> QED
    BY <1>3, <2>4, TeamsAssumption
<1> QED
  BY <1>1, <1>2, <1>4, AbortStep

(* Every step of the root thread keeps the invariant. *)
LEMMA RootStepInv ==
  ASSUME NEW X, IsPlan(X), Invariant(X), RootStep
  PROVE  Invariant(X)'
BY RootAcceptStep, RootCheckInStep, RootConnectStep, RootSendStep, RootAbortsStep DEF RootStep

Late == {"ready", "exchange", "over"}

(* A step of ranks that are in the ring keeps the links. *)
LEMMA LateSetup ==
  ASSUME NEW X, Invariant(X), rootPc' = rootPc, rootSock' = rootSock, peer' = peer,
         backlog' = backlog, next' = next, prev' = prev, peerRecvSockets_' = peerRecvSockets_,
         DOMAIN wire' = DOMAIN wire, \A e \in DOMAIN wire : e \notin Chan => wire'[e] = wire[e],
         \A q \in Ranks : \/ pc'[q] = pc[q] /\ op'[q] = op[q]
                          \/ pc[q] \in Late /\ pc'[q] \in Late
  PROVE  Setup' /\ Ring'
<1>1. peer \in Int /\ SetupShapes /\ RootThread /\ \A q \in Ranks : Link(q)
  BY PeerInt
<1>2. \A q \in Ranks : pc'[q] = pc[q] \/ pc'[q] \in Late
  OBVIOUS
<1>3. RootThread'
  <2>1. \A q \in Ranks : pc'[q] = "create" => pc[q] = "create"
    BY <1>2 DEF Late
  <2> QED
    BY <1>1, <2>1 DEF RootThread, Info, Addr
<1>4. \A q \in Ranks : Link(q)'
  <2> SUFFICES ASSUME NEW q \in Ranks PROVE Link(q)'
    OBVIOUS
  <2>1. /\ Knows(q)' => Knows(q)
        /\ Connected(q)' => Connected(q)
        /\ InRing(q)' => InRing(q)
    BY DEF Knows, Connected, InRing, Late
  <2>2. /\ pc'[q] = "nextAddr" => pc[q] = "nextAddr"
        /\ pc'[q] \in Early => pc[q] \in Early
    BY <1>2 DEF Early, Late
  <2>3. /\ next'[q] = next[q] /\ prev'[q] = prev[q]
        /\ peerRecvSockets_'[q] = peerRecvSockets_[q]
        /\ peer' \in Int /\ peer <= peer' /\ DOMAIN wire \subseteq DOMAIN wire'
        /\ backlog'[<<"lsock", q>>] = backlog[<<"lsock", q>>]
        /\ backlog'[<<"main", q>>] = backlog[<<"main", q>>]
    BY <1>1
  <2>4. Addr(q) \in DOMAIN wire' => Addr(q) \in DOMAIN wire /\ wire'[Addr(q)] = wire[Addr(q)]
    BY Names
  <2> QED
    BY <1>1, <2>1, <2>2, <2>3, <2>4, LinkMoved
<1>5. Setup'
  BY <1>1, <1>3, <1>4 DEF Setup, SetupShapes
<1>6. Setup' => Ring'
  BY LinksRing, PTL
<1> QED
  BY <1>5, <1>6

(* SendBlock keeps the invariant. *)
LEMMA SendBlockInv ==
  ASSUME NEW X, IsPlan(X), Invariant(X), NEW p \in Ranks, SendBlock(p)
  PROVE  Invariant(X)'
<1>1. /\ pc' = pc /\ op' = op /\ returned' = returned
      /\ rootPc' = rootPc /\ rootSock' = rootSock /\ peer' = peer /\ backlog' = backlog
      /\ next' = next /\ prev' = prev /\ peerRecvSockets_' = peerRecvSockets_
      /\ wire' = [wire EXCEPT ![Socket(p)] = Append(wire[Socket(p)], data[p][Now(p).block])]
      /\ Sending(p)
  BY DEF SendBlock, Send, fixed, rootVars
<1>2. Delivering(X) /\ IsPlan(X) /\ AllIn /\ Stages
  BY DEF Invariant, Delivering
<1>3. Socket(p) \in Chan
  BY <1>1, <1>2, SendSocket DEF Delivering
<1>4. DOMAIN wire' = DOMAIN wire /\ \A e \in DOMAIN wire : e \notin Chan => wire'[e] = wire[e]
  BY <1>1, <1>3
<1>5. Setup' /\ Ring'
  BY <1>1, <1>4, LateSetup
<1>6. Shapes' /\ InCall(X)' /\ Wires(X)' /\ Causal(X)' /\ Holding(X)'
  BY <1>2, SendStep
<1>7. Stages' /\ AllIn'
  BY <1>1, <1>2 DEF Stages, AllIn
<1> QED
  BY <1>5, <1>6, <1>7 DEF Invariant, Delivering

(* RecvBlock keeps the invariant. *)
LEMMA RecvBlockInv ==
  ASSUME NEW X, IsPlan(X), Invariant(X), NEW p \in Ranks, RecvBlock(p)
  PROVE  Invariant(X)'
<1>1. /\ pc' = pc /\ op' = op /\ returned' = returned
      /\ rootPc' = rootPc /\ rootSock' = rootSock /\ peer' = peer /\ backlog' = backlog
      /\ next' = next /\ prev' = prev /\ peerRecvSockets_' = peerRecvSockets_
      /\ wire' = [wire EXCEPT ![Socket(p)] = Tail(wire[Socket(p)])]
      /\ Receiving(p)
  BY DEF RecvBlock, Recv, fixed, rootVars
<1>2. Delivering(X) /\ IsPlan(X) /\ AllIn /\ Stages
  BY DEF Invariant, Delivering
<1>3. Socket(p) \in Chan
  BY <1>1, <1>2, RecvSocket DEF Delivering
<1>4. DOMAIN wire' = DOMAIN wire /\ \A e \in DOMAIN wire : e \notin Chan => wire'[e] = wire[e]
  BY <1>1, <1>3
<1>5. Setup' /\ Ring'
  BY <1>1, <1>4, LateSetup
<1>6. Shapes' /\ InCall(X)' /\ Wires(X)' /\ Causal(X)' /\ Holding(X)'
  <2>1. Link(p)
    BY PeerInt
  <2>2. peerRecvSockets_[p] \subseteq DOMAIN wire
    BY <2>1 DEF Link
  <2> QED
    BY <1>2, <2>2, RecvStep
<1>7. Stages' /\ AllIn'
  BY <1>1, <1>2 DEF Stages, AllIn
<1> QED
  BY <1>5, <1>6, <1>7 DEF Invariant, Delivering

(* EndExchange keeps the invariant. *)
LEMMA EndExchangeInv ==
  ASSUME NEW X, IsPlan(X), Invariant(X), NEW p \in Ranks, EndExchange(p)
  PROVE  Invariant(X)'
<1>1. /\ pc[p] = "exchange" /\ pc' = [pc EXCEPT ![p] = "over"]
      /\ op' = op /\ returned' = returned
      /\ rootPc' = rootPc /\ rootSock' = rootSock /\ peer' = peer /\ backlog' = backlog
      /\ next' = next /\ prev' = prev /\ peerRecvSockets_' = peerRecvSockets_
      /\ wire' = wire
  BY DEF EndExchange, Goto, fixed, rootVars, netVars
<1>2. Delivering(X) /\ IsPlan(X) /\ AllIn /\ Stages /\ DOMAIN pc = Ranks
  BY DEF Invariant, Delivering, Shapes
<1>3. pc'[p] = "over" /\ \A q \in Ranks : q # p => pc'[q] = pc[q]
  BY <1>1, <1>2
<1>4. Setup' /\ Ring'
  BY <1>1, <1>3, LateSetup DEF Late
<1>5. Shapes' /\ InCall(X)' /\ Wires(X)' /\ Causal(X)' /\ Holding(X)'
  BY <1>2, EndStep
<1>6. AllIn'
  BY <1>1, <1>2 DEF AllIn
<1>7. Stages'
  <2> SUFFICES ASSUME NEW q \in Ranks
               PROVE  /\ pc'[q] \in Early \cup {"ready", "exchange", "over", "aborted"}
                      /\ pc'[q] \in Early => op'[q] = "NONE"
                      /\ op'[q] = "NONE" => returned'[q] = 0 /\ pc'[q] \notin {"exchange", "over"}
                      /\ op'[q] # "NONE" /\ returned'[q] = 0 =>
                           pc'[q] \in {"exchange", "over", "aborted"}
    BY DEF Stages, Early
  <2>1. CASE q = p
    BY <1>1, <1>2, <1>3, <2>1 DEF Early, Stages
  <2>2. CASE q # p
    BY <1>1, <1>2, <1>3, <2>2 DEF Stages
  <2> QED
    BY <2>1, <2>2
<1> QED
  BY <1>4, <1>5, <1>6, <1>7 DEF Invariant, Delivering

(* AcceptPeer keeps the invariant. *)
LEMMA AcceptPeerInv ==
  ASSUME NEW X, IsPlan(X), Invariant(X), NEW p \in Ranks, AcceptPeer(p)
  PROVE  Invariant(X)'
<1> DEFINE l == <<"main", p>>
<1>1. /\ pc' = pc /\ ExchangesKept
      /\ rootPc' = rootPc /\ rootSock' = rootSock /\ peer' = peer
      /\ next' = next /\ prev' = prev /\ wire' = wire
      /\ backlog[l] # <<>> /\ backlog' = [backlog EXCEPT ![l] = Tail(backlog[l])]
      /\ peerRecvSockets_' = [peerRecvSockets_ EXCEPT ![p] =
                                peerRecvSockets_[p] \cup {Head(backlog[l])}]
      /\ pc[p] = "exchange"
  BY DEF AcceptPeer, ExchangesKept, fixed, rootVars, Accept, First, Receiving, Exchanging
<1>2. peer \in Int /\ SetupShapes /\ RootThread /\ \A q \in Ranks : Link(q)
  BY PeerInt
<1>3. DOMAIN pc = Ranks /\ Stages
  BY DEF Invariant, Delivering, Shapes
<1>4. /\ DOMAIN backlog' = Listeners /\ backlog'[l] = Tail(backlog[l])
      /\ \A k \in Listeners : k # l => backlog'[k] = backlog[k]
      /\ DOMAIN peerRecvSockets_' = Ranks
      /\ peerRecvSockets_'[p] = peerRecvSockets_[p] \cup {Head(backlog[l])}
      /\ \A q \in Ranks : q # p => peerRecvSockets_'[q] = peerRecvSockets_[q]
  BY <1>1, <1>2, Names DEF SetupShapes
<1>5. /\ backlog'[<<"root", 0>>] = backlog[<<"root", 0>>]
      /\ \A q \in Ranks : backlog'[<<"lsock", q>>] = backlog[<<"lsock", q>>]
      /\ \A q \in Ranks : q # p => backlog'[<<"main", q>>] = backlog[<<"main", q>>]
  BY <1>4, Names
<1>6. RootThread'
  BY <1>1, <1>2, <1>5 DEF RootThread, Info, Addr
<1>7. SetupShapes'
  BY <1>1, <1>2, <1>4 DEF SetupShapes
<1>8. \A q \in Ranks : Link(q)'
  <2> SUFFICES ASSUME NEW q \in Ranks PROVE Link(q)'
    OBVIOUS
  <2>1. CASE q # p
    <3>1. /\ pc'[q] = pc[q] /\ op'[q] = op[q] /\ next'[q] = next[q] /\ prev'[q] = prev[q]
          /\ peerRecvSockets_'[q] = peerRecvSockets_[q] /\ DOMAIN wire' = DOMAIN wire
          /\ peer' \in Int /\ peer <= peer' /\ wire'[Addr(q)] = wire[Addr(q)]
      BY <1>1, <1>2, <1>4, <2>1 DEF ExchangesKept
    <3>2. /\ backlog'[<<"lsock", q>>] = backlog[<<"lsock", q>>]
          /\ backlog'[<<"main", q>>] = backlog[<<"main", q>>]
      BY <1>5, <2>1
    <3> QED
      BY <1>2, <3>1, <3>2, LinkKept
  <2>2. CASE q = p
    <3>1. /\ pc'[p] \notin Early /\ pc'[p] # "nextAddr"
          /\ (Knows(p)' <=> Knows(p)) /\ (Connected(p)' <=> Connected(p))
          /\ (InRing(p)' <=> InRing(p))
      BY <1>1 DEF Early, ExchangesKept, Knows, Connected, InRing
    <3>2. Link(p)
      BY <1>2
    <3>3. /\ Knows(p) => next[p] = Nx(p) /\ p < peer
          /\ Connected(p) => RingTo(p) \in DOMAIN wire
          /\ InRing(p) => prev[p] = RingFrom(p) /\ RingFrom(p) \in DOMAIN wire
          /\ backlog[<<"lsock", p>>] # <<>> => Addr(p) \in DOMAIN wire
          /\ Addr(p) \in DOMAIN wire =>
               wire[Addr(p)] \in Seq({Nx(p)}) /\ (wire[Addr(p)] # <<>> => p < peer)
          /\ backlog[<<"lsock", p>>] \in Seq({Addr(p)})
          /\ backlog[l] \in Seq(Chan \cap DOMAIN wire)
          /\ peerRecvSockets_[p] \subseteq DOMAIN wire
      BY <3>2 DEF Link
    <3>4. /\ Head(backlog[l]) \in Chan \cap DOMAIN wire
          /\ Tail(backlog[l]) \in Seq(Chan \cap DOMAIN wire)
      <4> HIDE DEF l
      <4> QED
        BY <1>1, <3>3, TailSeq
    <3>5. peerRecvSockets_'[p] \subseteq DOMAIN wire'
      BY <1>1, <1>4, <3>3, <3>4
    <3>6. /\ Knows(p)' => next'[p] = Nx(p) /\ p < peer'
          /\ Connected(p)' => RingTo(p) \in DOMAIN wire'
          /\ InRing(p)' => prev'[p] = RingFrom(p) /\ RingFrom(p) \in DOMAIN wire'
          /\ backlog'[<<"lsock", p>>] # <<>> => Addr(p) \in DOMAIN wire'
          /\ Addr(p) \in DOMAIN wire' =>
               wire'[Addr(p)] \in Seq({Nx(p)}) /\ (wire'[Addr(p)] # <<>> => p < peer')
          /\ backlog'[<<"lsock", p>>] \in Seq({Addr(p)})
          /\ backlog'[l] \in Seq(Chan \cap DOMAIN wire')
      BY <1>1, <1>4, <1>5, <3>1, <3>3, <3>4
    <3> QED
      BY <2>2, <3>1, <3>5, <3>6 DEF Link, Addr, Nx, RingFrom, RingTo, Pv, Chan
  <2> QED
    BY <2>1, <2>2
<1>9. NetKept
  BY <1>1 DEF NetKept
<1>10. Setup'
  BY <1>6, <1>7, <1>8 DEF Setup
<1>11. Stages' /\ \A q \in Ranks : Active(q)' <=> Active(q)
  BY <1>1, <1>3 DEF Stages, ExchangesKept, Active
<1> QED
  BY <1>1, <1>3, <1>9, <1>10, <1>11, QuietInv

(* A socket for a peer is made once everyone has begun the first call. *)
LEMMA OpenPeerInv ==
  ASSUME NEW X, IsPlan(X), Invariant(X), NEW p \in Ranks, OpenPeer(p)
  PROVE  Invariant(X)'
<1>0. PICK d, n : d = Socket(p) /\ n = Now(p).peer
  OBVIOUS
<1> DEFINE l == <<"main", n>>
<1>1. /\ RootMoves /\ rootPc' = rootPc /\ rootSock' = rootSock /\ peer' = peer
      /\ d \notin DOMAIN wire /\ Sending(p)
      /\ backlog' = [backlog EXCEPT ![l] = Append(backlog[l], d)]
      /\ wire' = [e \in DOMAIN wire \cup {d} |-> IF e = d THEN <<>> ELSE wire[e]]
  BY <1>0 DEF OpenPeer, RootMoves, ExchangesKept, fixed, rootVars, Connect
<1>2. /\ peer \in Int /\ SetupShapes /\ RootThread /\ \A q \in Ranks : Link(q)
      /\ pc' = pc /\ op' = op
  BY <1>1, PeerInt DEF RootMoves, ExchangesKept
<1>3. Delivering(X) /\ InCall(X) /\ Stages /\ Ring /\ AllIn /\ Shapes
  BY DEF Invariant, Delivering
<1>4. d \in Chan /\ d[2] = n /\ n \in Ranks /\ Call(p) # 1
  <2>1. Socket(p) \in Chan /\ Socket(p)[2] = Now(p).peer
        /\ (Call(p) = 1 => Socket(p) \in DOMAIN wire)
    BY <1>1, <1>3, SendSocket
  <2> QED
    BY <1>0, <1>1, <2>1 DEF Chan
<1>5. op[n] # "NONE" /\ pc[n] \notin Early
  <2>1. returned[p] > 0
    BY <1>3, <1>4 DEF Shapes, Call
  <2> QED
    BY <1>3, <1>4, <2>1 DEF AllIn, Stages
<1>6. /\ DOMAIN wire' = DOMAIN wire \cup {d} /\ wire'[d] = <<>>
      /\ \A e \in DOMAIN wire : e # d => wire'[e] = wire[e]
  BY <1>1
<1>7. \A q \in Ranks : Addr(q) # d
  BY <1>4, Names
<1>8. /\ DOMAIN backlog' = Listeners /\ backlog'[l] = Append(backlog[l], d)
      /\ \A k \in Listeners : k # l => backlog'[k] = backlog[k]
  BY <1>1, <1>2, <1>4, Names DEF SetupShapes
<1>9. /\ backlog'[<<"root", 0>>] = backlog[<<"root", 0>>]
      /\ \A q \in Ranks : backlog'[<<"lsock", q>>] = backlog[<<"lsock", q>>]
      /\ \A q \in Ranks : q # n => backlog'[<<"main", q>>] = backlog[<<"main", q>>]
  BY <1>4, <1>8, Names
<1>10. RootThread'
  BY <1>1, <1>2, <1>6, <1>9 DEF RootThread, Info, Addr
<1>11. \A q \in Ranks : Link(q)'
  <2> SUFFICES ASSUME NEW q \in Ranks PROVE Link(q)'
    OBVIOUS
  <2>0. Addr(q) \in DOMAIN wire' => Addr(q) \in DOMAIN wire /\ wire'[Addr(q)] = wire[Addr(q)]
    BY <1>6, <1>7
  <2>1. CASE q # n
    <3>1. /\ Link(q) /\ peer' \in Int /\ peer <= peer' /\ DOMAIN wire \subseteq DOMAIN wire'
          /\ backlog'[<<"lsock", q>>] = backlog[<<"lsock", q>>]
          /\ backlog'[<<"main", q>>] = backlog[<<"main", q>>]
      BY <1>1, <1>2, <1>6, <1>9, <2>1
    <3> QED
      BY <1>1, <1>2, <2>0, <3>1, LinkRoot
  <2>2. CASE q = n
    <3>1. /\ next' = next /\ prev' = prev /\ peerRecvSockets_' = peerRecvSockets_
          /\ (Knows(q)' <=> Knows(q)) /\ (Connected(q)' <=> Connected(q))
          /\ (InRing(q)' <=> InRing(q))
      BY <1>1 DEF RootMoves, ExchangesKept, Knows, Connected, InRing
    <3>2. pc'[q] \notin Early /\ pc'[q] # "nextAddr"
      BY <1>2, <1>5, <2>2 DEF Early
    <3>3. Link(q)
      BY <1>2
    <3>4. /\ Knows(q) => next[q] = Nx(q) /\ q < peer
          /\ Connected(q) => RingTo(q) \in DOMAIN wire
          /\ InRing(q) => prev[q] = RingFrom(q) /\ RingFrom(q) \in DOMAIN wire
          /\ backlog[<<"lsock", q>>] # <<>> => Addr(q) \in DOMAIN wire
          /\ Addr(q) \in DOMAIN wire =>
               wire[Addr(q)] \in Seq({Nx(q)}) /\ (wire[Addr(q)] # <<>> => q < peer)
          /\ backlog[<<"lsock", q>>] \in Seq({Addr(q)})
          /\ backlog[<<"main", q>>] \in Seq(Chan \cap DOMAIN wire)
          /\ peerRecvSockets_[q] \subseteq DOMAIN wire
      BY <3>3 DEF Link
    <3>5. backlog'[<<"main", q>>] \in Seq(Chan \cap DOMAIN wire')
      <4>1. Chan \cap DOMAIN wire \subseteq Chan \cap DOMAIN wire' /\ d \in Chan \cap DOMAIN wire'
        BY <1>4, <1>6
      <4>2. backlog[<<"main", q>>] \in Seq(Chan \cap DOMAIN wire')
        BY <3>4, <4>1, SeqMore
      <4>3. \A S : d \in S /\ backlog[<<"main", q>>] \in Seq(S)
                     => Append(backlog[<<"main", q>>], d) \in Seq(S)
        OBVIOUS
      <4>4. backlog'[<<"main", q>>] = Append(backlog[<<"main", q>>], d)
        BY <1>8, <2>2
      <4> QED
        BY <4>1, <4>2, <4>3, <4>4
    <3>6. /\ Knows(q)' => next'[q] = Nx(q) /\ q < peer'
          /\ Connected(q)' => RingTo(q) \in DOMAIN wire'
          /\ InRing(q)' => prev'[q] = RingFrom(q) /\ RingFrom(q) \in DOMAIN wire'
          /\ backlog'[<<"lsock", q>>] # <<>> => Addr(q) \in DOMAIN wire'
          /\ Addr(q) \in DOMAIN wire' =>
               wire'[Addr(q)] \in Seq({Nx(q)}) /\ (wire'[Addr(q)] # <<>> => q < peer')
          /\ backlog'[<<"lsock", q>>] \in Seq({Addr(q)})
          /\ peerRecvSockets_'[q] \subseteq DOMAIN wire'
      BY <1>1, <1>6, <1>9, <2>0, <3>1, <3>4
    <3> QED
      BY <3>2, <3>5, <3>6 DEF Link, Addr, Nx, RingFrom, RingTo, Pv, Chan
  <2> QED
    BY <2>1, <2>2
<1>12. NetKept
  BY <1>1, <1>6 DEF NetKept
<1> QED
  BY <1>1, <1>8, <1>10, <1>11, <1>12, RootInv

(* Every step of an exchange keeps the invariant. *)
LEMMA ExchangeInv ==
  ASSUME NEW X, IsPlan(X), Invariant(X), NEW p \in Ranks, ExchangeStep(p)
  PROVE  Invariant(X)'
<1>1. CASE FindsPeerGone(p)
  BY <1>1, AbortStep DEF FindsPeerGone, Exchanging
<1> QED
  BY <1>1, OpenPeerInv, SendBlockInv, AcceptPeerInv, RecvBlockInv, EndExchangeInv
    DEF ExchangeStep

netState == <<rootPc, rootSock, peer, backlog, wire, next, prev, peerRecvSockets_>>

(* The beginning of an exchange keeps the invariant. *)
LEMMA BeginInv ==
  ASSUME NEW X, IsPlan(X), Invariant(X), NEW p \in Ranks, Beginning(X, p), UNCHANGED netState
  PROVE  Invariant(X)'
<1>0. PICK x : x = X[Call(p)]
  OBVIOUS
<1>1. /\ pc[p] = "ready" /\ pc' = [pc EXCEPT ![p] = "exchange"]
      /\ op' = [op EXCEPT ![p] = x.what] /\ returned' = returned
      /\ Call(p) \in DOMAIN X
  BY <1>0 DEF Beginning
<1>2. Delivering(X) /\ AllIn /\ Stages /\ DOMAIN pc = Ranks /\ DOMAIN op = Ranks
  BY DEF Invariant, Delivering, Shapes
<1>3. x.what # "NONE"
  BY <1>0, <1>1 DEF IsPlan, Exchanges
<1>4. /\ pc'[p] = "exchange" /\ op'[p] # "NONE"
      /\ \A q \in Ranks : q # p => pc'[q] = pc[q] /\ op'[q] = op[q]
  BY <1>1, <1>2, <1>3
<1>5. Setup' /\ Ring'
  BY <1>1, <1>4, LateSetup DEF Late, netState
<1>6. Shapes' /\ InCall(X)' /\ Wires(X)' /\ Causal(X)' /\ Holding(X)'
  BY <1>2, BeginStep
<1>7. AllIn'
  BY <1>1, <1>2, <1>4 DEF AllIn
<1>8. Stages'
  <2> SUFFICES ASSUME NEW q \in Ranks
               PROVE  /\ pc'[q] \in Early \cup {"ready", "exchange", "over", "aborted"}
                      /\ pc'[q] \in Early => op'[q] = "NONE"
                      /\ op'[q] = "NONE" => returned'[q] = 0 /\ pc'[q] \notin {"exchange", "over"}
                      /\ op'[q] # "NONE" /\ returned'[q] = 0 =>
                           pc'[q] \in {"exchange", "over", "aborted"}
    BY DEF Stages, Early
  <2>1. CASE q = p
    BY <1>1, <1>2, <1>4, <2>1 DEF Early, Stages
  <2>2. CASE q # p
    BY <1>1, <1>2, <1>4, <2>2 DEF Stages
  <2> QED
    BY <2>1, <2>2
<1> QED
  BY <1>5, <1>6, <1>7, <1>8 DEF Invariant, Delivering

(* The return from a call keeps the invariant. *)
LEMMA ReturnInv ==
  ASSUME NEW X, IsPlan(X), Invariant(X), NEW p \in Ranks, Returning(X, p), UNCHANGED netState
  PROVE  Invariant(X)'
<1>1. /\ \/ pc[p] = "over"
         \/ pc[p] = "ready" /\ ~(Call(p) \in DOMAIN X /\ p \in MembersOf(X[Call(p)].group))
      /\ pc' = [pc EXCEPT ![p] = "ready"] /\ op' = op
      /\ returned' = [returned EXCEPT ![p] = Call(p)]
  BY DEF Returning
<1>2. /\ Delivering(X) /\ AllIn /\ Stages /\ DOMAIN pc = Ranks /\ DOMAIN returned = Ranks
      /\ returned[p] \in Nat
  BY DEF Invariant, Delivering, Shapes
<1>3. op[p] # "NONE"
  <2> SUFFICES ASSUME op[p] = "NONE" PROVE FALSE
    OBVIOUS
  <2>1. Call(p) = 1 /\ pc[p] = "ready"
    BY <1>1, <1>2 DEF Stages, Call
  <2>2. 1 \in DOMAIN X /\ X[1].group = World
    BY DEF IsPlan
  <2> QED
    BY <1>1, <2>1, <2>2, WorldGroup
<1>4. /\ pc'[p] = "ready" /\ returned'[p] = Call(p) /\ Call(p) # 0
      /\ \A q \in Ranks : q # p => pc'[q] = pc[q] /\ returned'[q] = returned[q]
  BY <1>1, <1>2 DEF Call
<1>5. Setup' /\ Ring'
  BY <1>1, <1>4, LateSetup DEF Late, netState
<1>6. Shapes' /\ InCall(X)' /\ Wires(X)' /\ Causal(X)' /\ Holding(X)'
  BY <1>2, ReturnStep
<1>7. AllIn'
  BY <1>2, ReturnAllIn
<1>8. Stages'
  <2> SUFFICES ASSUME NEW q \in Ranks
               PROVE  /\ pc'[q] \in Early \cup {"ready", "exchange", "over", "aborted"}
                      /\ pc'[q] \in Early => op'[q] = "NONE"
                      /\ op'[q] = "NONE" => returned'[q] = 0 /\ pc'[q] \notin {"exchange", "over"}
                      /\ op'[q] # "NONE" /\ returned'[q] = 0 =>
                           pc'[q] \in {"exchange", "over", "aborted"}
    BY DEF Stages, Early
  <2>1. CASE q = p
    BY <1>1, <1>3, <1>4, <2>1 DEF Early
  <2>2. CASE q # p
    BY <1>1, <1>2, <1>4, <2>2 DEF Stages
  <2> QED
    BY <2>1, <2>2
<1> QED
  BY <1>5, <1>6, <1>7, <1>8 DEF Invariant, Delivering

(* Before the ranks have begun to make connections. *)
LEMMA InitInv ==
  ASSUME NEW X, IsPlan(X), BootstrapInit
  PROVE  Invariant(X)
<1>1. /\ pc = [p \in Ranks |-> IF p = 0 THEN "create" ELSE "listen"]
      /\ rootPc = "none" /\ rootSock = <<>> /\ peer = 0
      /\ backlog = [l \in Listeners |-> <<>>] /\ wire = <<>>
      /\ next = [p \in Ranks |-> p] /\ prev = [p \in Ranks |-> <<>>]
      /\ peerRecvSockets_ = [p \in Ranks |-> {}]
      /\ op = [p \in Ranks |-> "NONE"] /\ group = [p \in Ranks |-> World]
      /\ at = [p \in Ranks |-> 1]
      /\ data = [p \in Ranks |-> [k \in Blocks |-> NoBlock]]
      /\ recv_buf = [p \in Ranks |-> [k \in Blocks |-> NoBlock]]
      /\ returned = [p \in Ranks |-> 0]
  BY DEF BootstrapInit
<1>2. nRanks \in Nat \ {0} /\ 0 \in Nat
  BY TeamsAssumption
<1>3. Shapes
  BY <1>1 DEF Shapes
<1>4. \A q \in Ranks : pc[q] \in {"create", "listen"} /\ op[q] = "NONE" /\ returned[q] = 0
  BY <1>1
<1>5. Stages
  BY <1>4 DEF Stages, Early
<1>6. \A q \in Ranks : ~Active(q) /\ ~Knows(q) /\ ~Connected(q) /\ ~InRing(q)
  BY <1>4 DEF Active, Knows, Connected, InRing
<1>7. InCall(X)
  BY <1>6 DEF InCall
<1>8. Ring
  BY <1>6 DEF Ring
<1>9. \A q \in Ranks : \A c \in Nat \ {0} : \A k : ~Passed(q, c, k)
  BY <1>4, <1>6 DEF Passed
<1>10. Causal(X)
  <2> SUFFICES ASSUME NEW d \in Chan, NEW c, NEW k, NEW l, Paired(X, d, c, k, l), Passed(d[2], c, l)
               PROVE  FALSE
    BY DEF Causal
  <2>1. d[2] \in Ranks /\ c \in Nat \ {0}
    BY DEF Paired, SendsOn, IsPlan, Chan
  <2> QED
    BY <1>9, <2>1
<1>11. Wires(X)
  <2> SUFFICES ASSUME NEW d \in Chan PROVE /\ d \notin DOMAIN wire
                                           /\ \A e \in Pending(X, d) : FALSE
    BY DEF Wires
  <2>1. d \notin DOMAIN wire
    BY <1>1
  <2>2. \A e \in Pending(X, d) : FALSE
    <3> SUFFICES ASSUME NEW e \in Pending(X, d) PROVE FALSE
      OBVIOUS
    <3>1. PICK c, k : c = e[1] /\ k = e[2]
      OBVIOUS
    <3>2. SendsOn(X, d, c, k) /\ Passed(d[1], c, k)
      BY <3>1 DEF Pending
    <3>3. d[1] \in Ranks /\ c \in Nat \ {0}
      BY <3>2 DEF SendsOn, IsPlan, Chan
    <3> QED
      BY <1>9, <3>2, <3>3
  <2> QED
    BY <2>1, <2>2
<1>12. Holding(X)
  <2> SUFFICES ASSUME NEW q \in Ranks PROVE Holds(X, q)
    BY DEF Holding
  <2>1. pc[q] \notin {"exchange", "over"}
    BY <1>4
  <2> QED
    BY <2>1 DEF Holds
<1>13. AllIn
  BY <1>4 DEF AllIn
<1>14. SetupShapes
  BY <1>1 DEF SetupShapes
<1>15. RootThread
  <2>1. \A q \in Ranks : pc[q] = "create" => q = 0
    BY <1>1
  <2>2. backlog[<<"root", 0>>] = <<>>
    BY <1>1 DEF Listeners
  <2>3. <<>> \in Seq({Info(r) : r \in Ranks})
    OBVIOUS
  <2>4. peer \in 0 .. nRanks /\ peer < nRanks
    BY <1>1, <1>2
  <2> QED
    BY <1>1, <2>1, <2>2, <2>3, <2>4 DEF RootThread
<1>16. \A q \in Ranks : Link(q)
  <2> SUFFICES ASSUME NEW q \in Ranks PROVE Link(q)
    OBVIOUS
  <2>1. /\ backlog[<<"lsock", q>>] = <<>> /\ backlog[<<"main", q>>] = <<>>
        /\ peerRecvSockets_[q] = {} /\ pc[q] # "nextAddr" /\ Addr(q) \notin DOMAIN wire
    BY <1>1, <1>4, Names
  <2>2. \A S : <<>> \in Seq(S)
    OBVIOUS
  <2> QED
    BY <1>6, <2>1, <2>2 DEF Link
<1> QED
  BY <1>3, <1>5, <1>7, <1>8, <1>10, <1>11, <1>12, <1>13, <1>14, <1>15, <1>16
    DEF Invariant, Delivering, Setup

----------------------------------------------------------------------------
(* Teams in the world *)

(* The multiples of a positive number are in order and distinct. *)
LEMMA Multiples ==
  ASSUME NEW a \in Nat \ {0}, NEW i \in Nat, NEW j \in Nat
  PROVE  /\ i <= j => a * i <= a * j
         /\ a * i = a * j => i = j
         /\ i <= a * i /\ a * i \in Nat
<1>1. i <= j => a * i <= a * j
  OBVIOUS
<1>2. a * i = a * j => i = j
  OBVIOUS
<1>3. a * i \in Nat
  OBVIOUS
<1>4. i <= a * i
  <2>1. (a - 1) * i \in Nat /\ a * i = (a - 1) * i + i
    OBVIOUS
  <2> QED
    BY <2>1
<1> QED
  BY <1>1, <1>2, <1>3, <1>4

(* The PEs of a team, in their order, are a group. *)
LEMMA LineGroup ==
  ASSUME NEW t \in TeamRecords, PEs(t) \subseteq Ranks
  PROVE  /\ Line(t) \in Groups /\ MembersOf(Line(t)) = PEs(t) /\ Len(Line(t)) = t.size
         /\ t.size \in Nat \ {0}
<1>1. /\ t.size \in Nat \ {0} /\ t.stride \in Nat \ {0} /\ t.pe_start \in Nat
  BY DEF TeamRecords
<1>2. PICK m, a, s : m = t.size /\ a = t.stride /\ s = t.pe_start
  OBVIOUS
<1>3. /\ Line(t) = [i \in 1 .. m |-> s + a * (i - 1)]
      /\ PEs(t) = {s + a * i : i \in 0 .. m - 1}
  BY <1>2 DEF Line, PEs, get_pe_in_world
<1>4. \A i \in 1 .. m : i - 1 \in 0 .. m - 1
  BY <1>1, <1>2
<1>5. \A i \in 1 .. m : s + a * (i - 1) \in Ranks
  BY <1>3, <1>4
<1>6. Line(t) \in [1 .. m -> Ranks] /\ m \in Nat
  BY <1>1, <1>2, <1>3, <1>5
<1>7. Line(t) \in Seq(Ranks) /\ Len(Line(t)) = m
  BY <1>6
<1>8. \A i, j \in 1 .. m : Line(t)[i] = Line(t)[j] => i = j
  <2> SUFFICES ASSUME NEW i \in 1 .. m, NEW j \in 1 .. m, Line(t)[i] = Line(t)[j] PROVE i = j
    OBVIOUS
  <2>1. s + a * (i - 1) = s + a * (j - 1)
    BY <1>3
  <2>2. i - 1 \in Nat /\ j - 1 \in Nat /\ i \in Int /\ j \in Int
    BY <1>4
  <2>3. a * (i - 1) \in Nat /\ a * (j - 1) \in Nat /\ s \in Nat
    BY <1>1, <1>2, <2>2, Multiples
  <2>4. a * (i - 1) = a * (j - 1)
    BY <2>1, <2>3
  <2>5. i - 1 = j - 1
    BY <1>1, <1>2, <2>2, <2>4, Multiples
  <2> QED
    BY <2>2, <2>5
<1>9. MembersOf(Line(t)) = PEs(t)
  <2>1. MembersOf(Line(t)) = {Line(t)[i] : i \in 1 .. m}
    BY <1>7 DEF MembersOf
  <2>2. \A i \in 1 .. m : Line(t)[i] \in PEs(t)
    BY <1>3, <1>4
  <2>3. \A i \in 0 .. m - 1 : i + 1 \in 1 .. m /\ Line(t)[i + 1] = s + a * i
    <3> SUFFICES ASSUME NEW i \in 0 .. m - 1 PROVE i + 1 \in 1 .. m /\ Line(t)[i + 1] = s + a * i
      OBVIOUS
    <3>1. i + 1 \in 1 .. m /\ (i + 1) - 1 = i
      BY <1>1, <1>2
    <3> QED
      BY <1>3, <3>1
  <2>4. \A q \in PEs(t) : \E i \in 1 .. m : Line(t)[i] = q
    BY <1>3, <2>3
  <2> QED
    BY <2>1, <2>2, <2>4
<1> QED
  BY <1>1, <1>2, <1>7, <1>8, <1>9 DEF Groups

(* pe_in_active_set finds who is in a team. *)
LEMMA ActiveSet ==
  ASSUME NEW t \in TeamRecords, NEW p \in Nat
  PROVE  pe_in_active_set(t, p) <=> p \in PEs(t)
<1>1. PICK m, a, s : m = t.size /\ a = t.stride /\ s = t.pe_start
  OBVIOUS
<1>2. m \in Nat \ {0} /\ a \in Nat \ {0} /\ s \in Nat
  BY <1>1 DEF TeamRecords
<1>3. pe_in_active_set(t, p) <=> p >= s /\ (p - s) % a = 0 /\ (p - s) \div a < m
  BY <1>1 DEF pe_in_active_set
<1>4. p \in PEs(t) <=> \E i \in 0 .. m - 1 : p = s + a * i
  BY <1>1 DEF PEs
<1>5. ASSUME p >= s, (p - s) % a = 0, (p - s) \div a < m
      PROVE  \E i \in 0 .. m - 1 : p = s + a * i
  <2>1. PICK i, d : i = (p - s) \div a /\ d = p - s
    OBVIOUS
  <2>2. d = a * i + (d % a) /\ i \in Int /\ d % a = 0 /\ d >= 0 /\ d \in Int
    BY <1>2, <1>5, <2>1, DivMod
  <2>3. i >= 0
    <3> SUFFICES ASSUME i <= -1 PROVE FALSE
      BY <2>2
    <3>1. a * i <= a * (-1)
      BY <1>2, <2>2, Monotone
    <3> QED
      BY <1>2, <2>2, <3>1
  <2>4. i \in 0 .. m - 1 /\ a * i \in Int
    BY <1>2, <1>5, <2>1, <2>2, <2>3
  <2>5. p = s + a * i
    BY <1>2, <2>1, <2>2, <2>4
  <2> QED
    BY <2>4, <2>5
<1>6. ASSUME NEW i \in 0 .. m - 1, p = s + a * i
      PROVE  p >= s /\ (p - s) % a = 0 /\ (p - s) \div a < m
  <2>1. a * i \in Nat /\ i \in Int /\ p - s = a * i
    BY <1>2, <1>6, Multiples
  <2>2. (0 + a * i) % a = 0 /\ (0 + a * i) \div a = i
    BY <1>2, <2>1, ModShift
  <2> QED
    BY <1>2, <1>6, <2>1, <2>2
<1> QED
  BY <1>3, <1>4, <1>5, <1>6

(* A strided range of a team lies in that team. *)
LEMMA SplitInside ==
  ASSUME NEW t \in TeamRecords, NEW u \in TeamRecords, NEW start \in Nat, NEW stride \in Nat \ {0},
         start + stride * (u.size - 1) < t.size,
         u.pe_start = get_pe_in_world(t, start), u.stride = stride * t.stride
  PROVE  /\ PEs(u) \subseteq PEs(t)
         /\ start < t.size /\ u.size <= t.size
         /\ get_pe_in_world(u, u.size - 1) \in PEs(u)
<1>1. PICK m, n, a, s : m = t.size /\ n = u.size /\ a = t.stride /\ s = t.pe_start
  OBVIOUS
<1>2. m \in Nat \ {0} /\ n \in Nat \ {0} /\ a \in Nat \ {0} /\ s \in Nat
  BY <1>1 DEF TeamRecords
<1>3. /\ PEs(t) = {s + a * i : i \in 0 .. m - 1}
      /\ PEs(u) = {u.pe_start + u.stride * i : i \in 0 .. n - 1}
      /\ u.pe_start = s + a * start /\ u.stride = stride * a
  BY <1>1 DEF PEs, get_pe_in_world
<1>4. \A i \in 0 .. n - 1 : start + stride * i \in 0 .. m - 1
  <2> SUFFICES ASSUME NEW i \in 0 .. n - 1 PROVE start + stride * i \in 0 .. m - 1
    OBVIOUS
  <2>1. i \in Nat /\ n - 1 \in Nat /\ i <= n - 1
    BY <1>2
  <2>2. stride * i <= stride * (n - 1) /\ stride * i \in Nat /\ stride * (n - 1) \in Nat
    BY <2>1, Multiples
  <2> QED
    BY <1>1, <1>2, <2>2
<1>5. \A i \in 0 .. n - 1 : u.pe_start + u.stride * i = s + a * (start + stride * i)
  <2> SUFFICES ASSUME NEW i \in 0 .. n - 1
               PROVE  (s + a * start) + (stride * a) * i = s + a * (start + stride * i)
    BY <1>3
  <2>1. i \in Nat
    OBVIOUS
  <2> QED
    BY <1>2, <2>1
<1>6. PEs(u) \subseteq PEs(t)
  BY <1>3, <1>4, <1>5
<1>7. start < m /\ n <= m
  <2>1. n - 1 \in Nat
    BY <1>2
  <2>2. n - 1 <= stride * (n - 1) /\ stride * (n - 1) \in Nat
    BY <2>1, Multiples
  <2> QED
    BY <1>1, <1>2, <2>2
<1>8. get_pe_in_world(u, u.size - 1) \in PEs(u)
  <2>1. n - 1 \in 0 .. n - 1
    BY <1>2
  <2> QED
    BY <1>1, <1>3, <2>1 DEF get_pe_in_world
<1> QED
  BY <1>1, <1>6, <1>7, <1>8

(* The world is a team of all ranks. *)
LEMMA WorldTeam == world \in TeamRecords /\ PEs(world) = Ranks
<1>1. nRanks \in Nat \ {0} /\ 0 \in Nat /\ 1 \in Nat \ {0}
  BY TeamsAssumption
<1>2. world \in TeamRecords
  BY <1>1 DEF world, TeamRecords
<1>3. \A i \in 0 .. nRanks - 1 : 0 + 1 * i = i
  BY <1>1
<1>4. PEs(world) = {0 + 1 * i : i \in 0 .. nRanks - 1}
  BY DEF world, PEs
<1> QED
  BY <1>2, <1>3, <1>4 DEF Ranks

----------------------------------------------------------------------------
(* The exchanges of a program, and what its calls leave *)

Used(prg, S, p, n) == {S[c].slot : c \in Alive(prg, S, p, n)}

Plan(prg, S) ==
  [c \in {b \in 1 .. Len(prg) : prg[b].op # "DESTROY"} |->
     IF prg[c].op = "SPLIT"
     THEN [what |-> IF Line(S[c]) = World THEN "ALLGATHER" ELSE "GROUPGATHER",
           group |-> Line(S[c]),
           slots |-> [r \in Ranks |-> Slots \ Used(prg, S, r, c - 1)]]
     ELSE [what |-> prg[c].op, group |-> prg[c].group, slots |-> [r \in Ranks |-> {}]]]

(* What Legal says of each call. *)
LEMMA Legality ==
  ASSUME NEW prg, NEW S, Legal(prg, S)
  PROVE  /\ Len(prg) \in Nat \ {0} /\ prg[1].op = "ALLGATHER" /\ S[0] = world
         /\ \A c \in 0 .. Len(prg) : S[c] \in TeamRecords
         /\ \A c \in 1 .. Len(prg) :
              /\ prg[c].op \in Exchanges \cup {"SPLIT", "DESTROY"}
              /\ prg[c].op \in Exchanges => prg[c].group \in Groups
              /\ prg[c].op = "ALLGATHER" => prg[c].group = World
              /\ prg[c].op = "SPLIT" =>
                   LegalSplit(prg, S, c) /\ PEs(S[c]) \subseteq Ranks /\ S[c].call = c
BY DEF Legal, LegalSplit

(* Slots are numbers. *)
LEMMA SlotsAreInt == Slots \subseteq Int
BY TeamsAssumption DEF Slots

(* The exchange of a split is among the PEs of the new team. *)
LEMMA PlanOfSplit ==
  ASSUME NEW prg, NEW S, Legal(prg, S), NEW c \in 1 .. Len(prg), prg[c].op = "SPLIT"
  PROVE  /\ c \in DOMAIN Plan(prg, S)
         /\ Plan(prg, S)[c].group = Line(S[c])
         /\ Plan(prg, S)[c].what = IF Line(S[c]) = World THEN "ALLGATHER" ELSE "GROUPGATHER"
         /\ \A r \in Ranks : Plan(prg, S)[c].slots[r] = Slots \ Used(prg, S, r, c - 1)
         /\ Line(S[c]) \in Groups /\ MembersOf(Line(S[c])) = PEs(S[c])
         /\ Len(Line(S[c])) = S[c].size /\ S[c].size \in Nat \ {0}
<1>1. S[c] \in TeamRecords /\ PEs(S[c]) \subseteq Ranks
  BY Legality
<1> QED
  BY <1>1, LineGroup DEF Plan

(* The exchange of another call is among the group it names. *)
LEMMA PlanOfExchange ==
  ASSUME NEW prg, NEW S, Legal(prg, S), NEW c \in 1 .. Len(prg), prg[c].op \in Exchanges
  PROVE  /\ c \in DOMAIN Plan(prg, S)
         /\ Plan(prg, S)[c].group = prg[c].group /\ Plan(prg, S)[c].what = prg[c].op
         /\ \A r \in Ranks : Plan(prg, S)[c].slots[r] = {}
         /\ prg[c].group \in Groups
<1>1. prg[c].op # "DESTROY" /\ prg[c].op # "SPLIT" /\ prg[c].group \in Groups
  BY Legality DEF Exchanges
<1> QED
  BY <1>1 DEF Plan

(* The exchanges of a program are a plan. *)
LEMMA PlanIsPlan ==
  ASSUME NEW prg, NEW S, Legal(prg, S)
  PROVE  IsPlan(Plan(prg, S)) /\ DOMAIN Plan(prg, S) \subseteq 1 .. Len(prg)
<1> DEFINE X == Plan(prg, S)
<1>1. DOMAIN X = {b \in 1 .. Len(prg) : prg[b].op # "DESTROY"}
  BY DEF Plan
<1>2. 1 \in DOMAIN X /\ X[1].what = "ALLGATHER"
  <2>1. 1 \in 1 .. Len(prg) /\ prg[1].op = "ALLGATHER" /\ prg[1].op \in Exchanges
    BY Legality DEF Exchanges
  <2> QED
    BY <2>1, PlanOfExchange
<1>3. ASSUME NEW c \in DOMAIN X
      PROVE  /\ c \in Nat \ {0}
             /\ X[c].what \in Exchanges /\ X[c].group \in Groups
             /\ X[c].what = "ALLGATHER" => X[c].group = World
             /\ \A r \in Ranks : X[c].slots[r] \in SUBSET Int
  <2>1. c \in 1 .. Len(prg) /\ prg[c].op # "DESTROY"
    BY <1>1
  <2>2. prg[c].op \in Exchanges \cup {"SPLIT"} /\ Len(prg) \in Nat
    BY <2>1, Legality
  <2>3. CASE prg[c].op = "SPLIT"
    <3>1. X[c].what = IF Line(S[c]) = World THEN "ALLGATHER" ELSE "GROUPGATHER"
      BY <2>1, <2>3, PlanOfSplit
    <3>2. /\ X[c].group = Line(S[c]) /\ Line(S[c]) \in Groups
          /\ \A r \in Ranks : X[c].slots[r] = Slots \ Used(prg, S, r, c - 1)
      BY <2>1, <2>3, PlanOfSplit
    <3>3. /\ X[c].what = "ALLGATHER" \/ X[c].what = "GROUPGATHER"
          /\ X[c].what = "ALLGATHER" => Line(S[c]) = World
      BY <3>1
    <3>4. \A r \in Ranks : X[c].slots[r] \in SUBSET Int
      BY <3>2, SlotsAreInt
    <3> HIDE DEF X
    <3> QED
      BY <2>1, <2>2, <3>2, <3>3, <3>4 DEF Exchanges
  <2>4. CASE prg[c].op \in Exchanges
    <3>1. /\ X[c].group = prg[c].group /\ X[c].what = prg[c].op
          /\ \A r \in Ranks : X[c].slots[r] = {}
          /\ prg[c].group \in Groups /\ (prg[c].op = "ALLGATHER" => prg[c].group = World)
      BY <2>1, <2>4, PlanOfExchange, Legality
    <3> HIDE DEF X
    <3> QED
      BY <2>1, <2>2, <2>4, <3>1
  <2> QED
    BY <2>2, <2>3, <2>4
<1> QED
  BY <1>1, <1>2, <1>3 DEF IsPlan

(* What one more call changes. *)
LEMMA AliveNext ==
  ASSUME NEW prg, NEW S, NEW p, NEW n \in Nat
  PROVE  /\ \A c : c \in Alive(prg, S, p, n + 1) <=>
              \/ c \in Alive(prg, S, p, n) /\ ~Destroys(prg, n + 1, c)
              \/ c = n + 1 /\ prg[n + 1].op = "SPLIT" /\ p \in PEs(S[n + 1])
         /\ Alive(prg, S, p, n) \subseteq 1 .. n /\ (n + 1) - 1 = n
<1>1. 1 .. n + 1 = (1 .. n) \cup {n + 1} /\ n + 1 \notin 1 .. n /\ n + 1 + 1 .. n + 1 = {}
      /\ (n + 1) - 1 = n
  OBVIOUS
<1>2. \A c \in 1 .. n : c + 1 .. n + 1 = (c + 1 .. n) \cup {n + 1}
  OBVIOUS
<1>3. ASSUME NEW c \in 1 .. n
      PROVE  c \in Alive(prg, S, p, n + 1) <=>
               c \in Alive(prg, S, p, n) /\ ~Destroys(prg, n + 1, c)
  <2>1. c \in 1 .. n + 1
    BY <1>1
  <2>2. (\A b \in c + 1 .. n + 1 : ~Destroys(prg, b, c)) <=>
           (\A b \in c + 1 .. n : ~Destroys(prg, b, c)) /\ ~Destroys(prg, n + 1, c)
    BY <1>2
  <2> QED
    BY <2>1, <2>2 DEF Alive
<1>4. n + 1 \in Alive(prg, S, p, n + 1) <=> prg[n + 1].op = "SPLIT" /\ p \in PEs(S[n + 1])
  BY <1>1 DEF Alive
<1>5. Alive(prg, S, p, n) \subseteq 1 .. n /\ Alive(prg, S, p, n + 1) \subseteq 1 .. n + 1
  BY DEF Alive
<1> QED
  BY <1>1, <1>3, <1>4, <1>5

Books(prg, S, p) ==
  /\ returned[p] \in 0 .. Len(prg)
  /\ teams_[p] = {S[c] : c \in Alive(prg, S, p, returned[p])}
  /\ team_pool_bitmask_[p] = Slots \ Used(prg, S, p, returned[p])
  /\ \A c \in 1 .. returned[p] : prg[c].op = "SPLIT" /\ p \in PEs(S[c]) => Common(prg, S, c) # {}

System(prg, S, X) ==
  /\ Legal(prg, S) /\ prog = prg /\ X = Plan(prg, S) /\ Invariant(X)
  /\ DOMAIN teams_ = Ranks /\ DOMAIN team_pool_bitmask_ = Ranks
  /\ \A p \in Ranks : Books(prg, S, p)

(* A PE holds the parents it is in, and finds those it is not in invalid. *)
LEMMA ParentIs ==
  ASSUME NEW prg, NEW S, Legal(prg, S), NEW p \in Ranks, Books(prg, S, p), prog = prg,
         NEW c, c = Call(p), c \in 1 .. Len(prg), prg[c].op = "SPLIT",
         NEW t, t = prg[c].team
  PROVE  /\ t \in 0 .. Len(prg) /\ PEs(S[c]) \subseteq PEs(S[t])
         /\ p \in PEs(S[t]) => ~IsInvalid(p, t) /\ Parent(p) = S[t]
         /\ p \notin PEs(S[t]) => IsInvalid(p, t)
<1>0. LegalSplit(prg, S, c) /\ Len(prg) \in Nat /\ S[0] = world
  BY Legality
<1>1. /\ LegalSplit(prg, S, c) /\ c \in Nat \ {0} /\ Len(prg) \in Nat
      /\ S[0] = world /\ t \in 0 .. c - 1 /\ (t # 0 => prg[t].op = "SPLIT")
  <2>1. c \in Nat \ {0}
    BY <1>0
  <2>2. t \in 0 .. c - 1
    BY <1>0 DEF LegalSplit
  <2>3. t # 0 => prg[t].op = "SPLIT"
    BY <1>0 DEF LegalSplit
  <2> QED
    BY <1>0, <2>1, <2>2, <2>3
<1>2. t \in 0 .. Len(prg) /\ t \in Nat /\ S[t] \in TeamRecords /\ S[c] \in TeamRecords
  BY <1>1, Legality
<1>3. PEs(S[c]) \subseteq PEs(S[t])
  <2>1. /\ prg[c].start \in Nat /\ prg[c].stride \in Nat \ {0}
        /\ prg[c].start + prg[c].stride * (S[c].size - 1) < S[t].size
        /\ S[c].pe_start = get_pe_in_world(S[t], prg[c].start)
        /\ S[c].stride = prg[c].stride * S[t].stride
    BY <1>1 DEF LegalSplit
  <2> QED
    BY <1>2, <2>1, SplitInside
<1>4. returned[p] = c - 1 /\ Op(p).team = t
  BY <1>1 DEF Call, Books, Op
<1>5. \A b \in Alive(prg, S, p, c - 1) : S[b].call = b /\ b # 0 /\ b \in 1 .. c - 1
  <2>1. \A b \in Alive(prg, S, p, c - 1) : b \in 1 .. c - 1 /\ prg[b].op = "SPLIT"
    BY DEF Alive
  <2>2. 1 .. c - 1 \subseteq 1 .. Len(prg)
    BY <1>1
  <2> QED
    BY <2>1, <2>2, Legality
<1>6. Known(p, t) = {u \in {S[b] : b \in Alive(prg, S, p, c - 1)} \cup {world} : u.call = t}
  BY <1>4 DEF Known, Books
<1>7. world.call = 0
  BY DEF world
<1>8. CASE t = 0
  <2>1. Known(p, t) = {S[t]}
    BY <1>1, <1>5, <1>6, <1>7, <1>8
  <2>2. p \in PEs(S[t])
    BY <1>1, <1>8, WorldTeam
  <2> QED
    BY <1>2, <1>3, <1>4, <2>1, <2>2 DEF IsInvalid, Parent
<1>9. CASE t # 0
  <2>1. t \in 1 .. c - 1 /\ prg[t].op = "SPLIT"
        /\ \A b \in t + 1 .. c - 1 : ~Destroys(prg, b, t)
    BY <1>1, <1>2, <1>9 DEF LegalSplit
  <2>2. t \in Alive(prg, S, p, c - 1) <=> p \in PEs(S[t])
    BY <2>1 DEF Alive
  <2>3. CASE p \in PEs(S[t])
    <3>1. Known(p, t) = {S[t]}
      BY <1>5, <1>6, <1>7, <1>9, <2>2, <2>3
    <3> QED
      BY <1>2, <1>3, <1>4, <2>3, <3>1 DEF IsInvalid, Parent
  <2>4. CASE p \notin PEs(S[t])
    <3>1. Known(p, t) = {}
      BY <1>5, <1>6, <1>7, <1>9, <2>2, <2>4
    <3> QED
      BY <1>2, <1>3, <2>4, <3>1 DEF IsInvalid
  <2> QED
    BY <2>3, <2>4
<1> QED
  BY <1>8, <1>9

(* A split takes in the PEs of the team it makes, and refuses none of them. *)
LEMMA WhoJoins ==
  ASSUME NEW prg, NEW S, Legal(prg, S), NEW p \in Ranks, Books(prg, S, p), prog = prg,
         NEW c, c = Call(p), c \in 1 .. Len(prg), prg[c].op = "SPLIT"
  PROVE  /\ (~Refused(p) /\ pe_in_active_set(NewTeam(p), p)) <=> p \in PEs(S[c])
         /\ p \in PEs(S[c]) => NewTeam(p) = [S[c] EXCEPT !.slot = 0]
                               /\ Line(NewTeam(p)) = Line(S[c])
<1>0. PICK t : t = prg[c].team
  OBVIOUS
<1>1. /\ LegalSplit(prg, S, c) /\ c \in Nat \ {0} /\ Len(prg) \in Nat /\ PEs(S[c]) \subseteq Ranks
  BY Legality
<1>2. /\ t \in 0 .. Len(prg) /\ PEs(S[c]) \subseteq PEs(S[t])
      /\ p \in PEs(S[t]) => ~IsInvalid(p, t) /\ Parent(p) = S[t]
      /\ p \notin PEs(S[t]) => IsInvalid(p, t)
  BY <1>0, ParentIs
<1>3. S[t] \in TeamRecords /\ S[c] \in TeamRecords /\ Op(p) = prg[c] /\ returned[p] = c - 1
  BY <1>1, <1>2, Legality DEF Op, Call, Books
<1>4. CASE p \notin PEs(S[t])
  BY <1>0, <1>2, <1>3, <1>4 DEF Refused
<1>5. CASE p \in PEs(S[t])
  <2>1. NewTeam(p) = [call |-> c, slot |-> 0, pe_start |-> S[c].pe_start,
                      stride |-> S[c].stride, size |-> S[c].size]
    BY <1>0, <1>1, <1>2, <1>3, <1>5 DEF NewTeam, LegalSplit
  <2>2. NewTeam(p) = [S[c] EXCEPT !.slot = 0]
    <3>1. S[c].call = c
      BY <1>1 DEF LegalSplit
    <3> QED
      BY <1>3, <2>1, <3>1 DEF TeamRecords
  <2>3. /\ Line(NewTeam(p)) = Line(S[c])
        /\ pe_in_active_set(NewTeam(p), p) <=> pe_in_active_set(S[c], p)
        /\ get_pe_in_world(NewTeam(p), Op(p).size - 1) = get_pe_in_world(S[c], S[c].size - 1)
    BY <1>1, <1>3, <2>1 DEF Line, pe_in_active_set, get_pe_in_world, LegalSplit
  <2>4. pe_in_active_set(S[c], p) <=> p \in PEs(S[c])
    <3>1. p \in Nat
      BY DEF Ranks
    <3> QED
      BY <1>3, <3>1, ActiveSet
  <2>5. p \in PEs(S[c]) => ~Refused(p)
    <3> SUFFICES ASSUME p \in PEs(S[c]) PROVE ~Refused(p)
      OBVIOUS
    <3>1. Cardinality(teams_[p]) < max_num_teams - NUM_RESERVED_TEAMS
      BY <1>1, <1>3 DEF LegalSplit, Books
    <3>2. Cardinality(teams_[p]) \in Nat
      <4>1. IsFiniteSet(1 .. c - 1)
        <5>1. 1 \in Int /\ c - 1 \in Int
          BY <1>1
        <5> QED
          BY <5>1, FS_Interval
      <4>2. Alive(prg, S, p, c - 1) \subseteq 1 .. c - 1
        BY DEF Alive
      <4>3. IsFiniteSet(Alive(prg, S, p, c - 1))
        BY <4>1, <4>2, FS_Subset
      <4>4. IsFiniteSet({S[b] : b \in Alive(prg, S, p, c - 1)})
        <5> DEFINE A == Alive(prg, S, p, c - 1)
                   I == {S[b] : b \in A}
                   f == [b \in A |-> S[b]]
        <5>1. f \in Surjection(A, I)
          BY DEF Surjection
        <5> QED
          BY <4>3, <5>1, FS_Surjection
      <4> QED
        BY <1>3, <4>4, FS_CardinalityType DEF Books
    <3>3. /\ prg[c].start < S[t].size /\ S[c].size <= S[t].size
          /\ get_pe_in_world(S[c], S[c].size - 1) \in PEs(S[c])
      BY <1>0, <1>1, <1>3, SplitInside DEF LegalSplit
    <3>4. get_pe_in_world(NewTeam(p), Op(p).size - 1) \in Ranks
      BY <1>1, <2>3, <3>3
    <3>5. /\ prg[c].start \in Nat /\ prg[c].stride \in Nat \ {0} /\ prg[c].size \in Nat \ {0}
          /\ S[t].size \in Nat /\ S[c].size = prg[c].size
      BY <1>1, <1>3 DEF LegalSplit, TeamRecords
    <3>6. ~(get_pe_in_world(NewTeam(p), Op(p).size - 1) > nRanks)
      BY <3>4, TeamsAssumption DEF Ranks
    <3>7. ~(Cardinality(teams_[p]) >= max_num_teams - NUM_RESERVED_TEAMS)
      BY <3>1, <3>2, TeamsAssumption
    <3>8. ~IsInvalid(p, Op(p).team) /\ Parent(p) = S[t]
      BY <1>0, <1>2, <1>3, <1>5
    <3>9. /\ ~(Op(p).start < 0) /\ ~(Op(p).start >= Parent(p).size) /\ ~(Op(p).size < 1)
          /\ ~(Op(p).size > Parent(p).size) /\ ~(Op(p).stride < 1)
      BY <1>3, <3>3, <3>5, <3>8
    <3> QED
      BY <3>6, <3>7, <3>8, <3>9 DEF Refused
  <2> QED
    BY <2>2, <2>3, <2>4, <2>5
<1> QED
  BY <1>2, <1>4, <1>5

(* What each exchange leaves: the blocks of all members. *)
LEMMA OverBlocks ==
  ASSUME NEW X, IsPlan(X), Invariant(X), NEW p \in Ranks, pc[p] = "over", op[p] # "BARRIER",
         NEW c, c = Call(p), NEW k \in 0 .. Size(p) - 1
  PROVE  /\ c \in DOMAIN X /\ group[p] = X[c].group /\ op[p] = X[c].what
         /\ p \in MembersOf(X[c].group) /\ at[p] > Steps(p)
         /\ group[p][k + 1] \in Ranks
         /\ data[p][k] = BlockOf(X, c, group[p][k + 1], IF op[p] = "ALLTOALL" THEN Pos(p) ELSE k)
<1>1. Active(p) /\ InCall(X) /\ Holds(X, p)
  BY DEF Invariant, Delivering, Holding, Stages, Active
<1>2. PICK x, g, m, i : x = X[c] /\ g = x.group /\ m = Len(g) /\ i = IndexIn(g, p)
  OBVIOUS
<1>3. /\ c \in DOMAIN X /\ op[p] = x.what /\ group[p] = g /\ p \in MembersOf(g)
      /\ at[p] = StepsOf(x) + 1
  BY <1>1, <1>2 DEF InCall
<1>4. g \in Groups /\ x.what \in Exchanges
  BY <1>2, <1>3 DEF IsPlan
<1>5. m \in Nat \ {0} /\ i \in 0 .. m - 1
  BY <1>2, <1>3, <1>4, MemberIndex
<1>6. Size(p) = m /\ Pos(p) = i /\ k \in 0 .. m - 1 /\ Steps(p) = StepsOf(x)
      /\ StepsOf(x) = 2 * (m - 1)
  BY <1>2, <1>3 DEF Size, Pos, IndexIn, Steps, StepsOf
<1>7. g[k + 1] \in Ranks
  BY <1>2, <1>4, <1>6, Index
<1>8. CASE op[p] = "ALLTOALL"
  <2>1. Swapped(X, p)
    BY <1>1, <1>8 DEF Holds
  <2>2. data[p][k] = BlockOf(X, c, g[k + 1], i)
    BY <1>2, <1>6, <2>1 DEF Swapped
  <2> QED
    BY <1>2, <1>3, <1>5, <1>6, <1>7, <1>8, <2>2
<1>9. CASE op[p] # "ALLTOALL"
  <2>1. op[p] \in Gathers
    BY <1>3, <1>4, <1>9 DEF Exchanges, Gathers
  <2>2. Gathered(X, p)
    BY <1>1, <2>1 DEF Holds
  <2>3. PICK e \in 0 .. m - 1 : Down(i, e, m) = k
    <3>1. Down(i, k, m) \in 0 .. m - 1 /\ Down(i, Down(i, k, m), m) = k
      BY <1>5, <1>6 DEF Down
    <3> QED
      BY <3>1
  <2>4. 2 * e < at[p]
    BY <1>3, <1>5, <1>6
  <2>5. data[p][Down(i, e, m)] = BlockOf(X, c, g[Down(i, e, m) + 1], Down(i, e, m))
    BY <1>2, <2>2, <2>4 DEF Gathered
  <2> QED
    BY <1>2, <1>3, <1>5, <1>6, <1>7, <1>9, <2>3, <2>5
<1> QED
  BY <1>8, <1>9

(* What the invariant of the system says. *)
LEMMA InSystem ==
  ASSUME NEW prg, NEW S, NEW X, System(prg, S, X)
  PROVE  /\ IsPlan(X) /\ Invariant(X) /\ Legal(prg, S) /\ prog = prg /\ X = Plan(prg, S)
         /\ DOMAIN X \subseteq 1 .. Len(prg) /\ \A p \in Ranks : Books(prg, S, p)
BY PlanIsPlan DEF System

(* The members of a new team take up the slots that are free at all of them. *)
LEMMA CommonIs ==
  ASSUME NEW prg, NEW S, NEW X, System(prg, S, X), NEW p \in Ranks, pc[p] = "over",
         Calling(p), Op(p).op = "SPLIT", NEW c, c = Call(p)
  PROVE  /\ c \in 1 .. Len(prg) /\ prg[c].op = "SPLIT" /\ p \in PEs(S[c])
         /\ CommonFree(p) = Common(prg, S, c) /\ at[p] > Steps(p)
         /\ NewTeam(p) = [S[c] EXCEPT !.slot = 0]
<1>1. /\ IsPlan(X) /\ Invariant(X) /\ Legal(prg, S) /\ prog = prg /\ X = Plan(prg, S)
      /\ Books(prg, S, p)
  BY InSystem
<1>2. c \in 1 .. Len(prg) /\ prg[c].op = "SPLIT" /\ Len(prg) \in Nat
  <2>1. returned[p] \in 0 .. Len(prg) /\ Len(prg) \in Nat
    BY <1>1, Legality DEF Books
  <2> QED
    BY <1>1, <2>1 DEF Calling, Call, Op
<1>3. /\ X[c].group = Line(S[c]) /\ MembersOf(X[c].group) = PEs(S[c])
      /\ X[c].what \in Gathers /\ Line(S[c]) \in Groups /\ PEs(S[c]) \subseteq Ranks
      /\ \A r \in Ranks : X[c].slots[r] = Slots \ Used(prg, S, r, c - 1)
  BY <1>1, <1>2, PlanOfSplit, Legality DEF Gathers
<1>4. op[p] = X[c].what /\ group[p] = X[c].group /\ p \in PEs(S[c]) /\ at[p] = StepsOf(X[c]) + 1
  <2>1. Active(p) /\ InCall(X)
    BY <1>1 DEF Invariant, Delivering, Stages, Active
  <2> QED
    BY <1>3, <2>1 DEF InCall
<1>5. op[p] \in Gathers /\ op[p] # "BARRIER" /\ op[p] # "ALLTOALL"
  BY <1>3, <1>4 DEF Gathers
<1>6. Size(p) = Len(Line(S[c])) /\ Len(Line(S[c])) \in Nat
  BY <1>3, <1>4 DEF Size, Groups
<1>7. ASSUME NEW k \in 0 .. Size(p) - 1
      PROVE  group[p][k + 1] \in PEs(S[c]) /\ data[p][k][4] = Slots \ Used(prg, S, group[p][k + 1], c - 1)
  <2>1. group[p][k + 1] \in Ranks /\ data[p][k] = BlockOf(X, c, group[p][k + 1], k)
    BY <1>1, <1>5, OverBlocks
  <2>2. group[p][k + 1] \in MembersOf(X[c].group)
    BY <1>3, <1>4, <1>6 DEF MembersOf
  <2>3. data[p][k][4] = X[c].slots[group[p][k + 1]]
    BY <2>1 DEF BlockOf
  <2> QED
    BY <1>3, <2>1, <2>2, <2>3
<1>8. \A r \in PEs(S[c]) : \E k \in 0 .. Size(p) - 1 : group[p][k + 1] = r
  <2> SUFFICES ASSUME NEW r \in PEs(S[c]) PROVE \E k \in 0 .. Size(p) - 1 : group[p][k + 1] = r
    OBVIOUS
  <2>1. /\ IndexIn(Line(S[c]), r) \in 0 .. Len(Line(S[c])) - 1
        /\ Line(S[c])[IndexIn(Line(S[c]), r) + 1] = r
    BY <1>3, MemberIndex
  <2> QED
    BY <1>3, <1>4, <1>6, <2>1
<1>9. CommonFree(p) = Common(prg, S, c)
  <2>1. CommonFree(p) = {s \in Slots : \A k \in 0 .. Size(p) - 1 : s \in data[p][k][4]}
    BY DEF CommonFree, Slots
  <2>2. Common(prg, S, c) = {s \in Slots : \A r \in PEs(S[c]) : s \notin Used(prg, S, r, c - 1)}
    BY DEF Common, Used
  <2>3. ASSUME NEW s \in Slots
        PROVE  (\A k \in 0 .. Size(p) - 1 : s \in data[p][k][4])
                 <=> (\A r \in PEs(S[c]) : s \notin Used(prg, S, r, c - 1))
    <3>1. \A k \in 0 .. Size(p) - 1 : s \in data[p][k][4]
                                         <=> s \notin Used(prg, S, group[p][k + 1], c - 1)
      BY <1>7
    <3> QED
      BY <1>7, <1>8, <3>1
  <2> QED
    BY <2>1, <2>2, <2>3
<1>10. at[p] > Steps(p)
  <2>1. StepsOf(X[c]) = Steps(p) /\ Steps(p) \in Int
    BY <1>3, <1>4, <1>6 DEF Steps, StepsOf, Size
  <2> QED
    BY <1>4, <2>1
<1>11. NewTeam(p) = [S[c] EXCEPT !.slot = 0]
  BY <1>1, <1>2, <1>4, WhoJoins
<1> QED
  BY <1>2, <1>4, <1>9, <1>10, <1>11

(* The books of a PE that a step leaves alone stay as they are. *)
LEMMA BooksKept ==
  ASSUME NEW prg, NEW S, NEW p, Books(prg, S, p), returned'[p] = returned[p],
         teams_'[p] = teams_[p], team_pool_bitmask_'[p] = team_pool_bitmask_[p]
  PROVE  Books(prg, S, p)'
BY DEF Books

(* A step that leaves the teams as they are. *)
LEMMA TeamsKept ==
  ASSUME NEW prg, NEW S, NEW X, System(prg, S, X), Invariant(X)', UNCHANGED teamVars,
         returned' = returned
  PROVE  System(prg, S, X)'
<1>1. \A p \in Ranks : Books(prg, S, p)'
  BY BooksKept DEF System, teamVars
<1> QED
  BY <1>1 DEF System, teamVars

(* A step of the bootstrap or of an exchange keeps the system's invariant. *)
LEMMA NetworkStep ==
  ASSUME NEW prg, NEW S, NEW X, System(prg, S, X), UNCHANGED teamVars,
         RootStep \/ \E p \in Ranks : EstablishStep(p) \/ ExchangeStep(p)
  PROVE  System(prg, S, X)'
<1>1. IsPlan(X) /\ Invariant(X)
  BY InSystem
<1>2. CASE RootStep
  <2>1. returned' = returned
    BY <1>2 DEF RootStep, RootAccept, RootCheckIn, RootConnect, RootSend, RootAborts, Aborts, thread
  <2> QED
    BY <1>1, <1>2, <2>1, RootStepInv, TeamsKept
<1>3. ASSUME NEW p \in Ranks, EstablishStep(p) PROVE System(prg, S, X)'
  <2>1. returned' = returned
    BY <1>3 DEF EstablishStep, CreateRoot, Listen, ConnectRoot, SendInfo, AcceptRoot, GetNext,
                ConnectNext, AcceptPrev, TimeOut, FindsRootGone, Aborts
  <2> QED
    BY <1>1, <1>3, <2>1, EstablishInv, TeamsKept
<1>4. ASSUME NEW p \in Ranks, ExchangeStep(p) PROVE System(prg, S, X)'
  <2>1. returned' = returned
    BY <1>4 DEF ExchangeStep, OpenPeer, SendBlock, AcceptPeer, RecvBlock, EndExchange,
                FindsPeerGone, Aborts, fixed
  <2> QED
    BY <1>1, <1>4, <2>1, ExchangeInv, TeamsKept
<1> QED
  BY <1>2, <1>3, <1>4

(* The call a PE is to make is one of the program. *)
LEMMA CallIs ==
  ASSUME NEW prg, NEW S, NEW X, System(prg, S, X), NEW p \in Ranks, Calling(p),
         NEW c, c = Call(p)
  PROVE  /\ c \in 1 .. Len(prg) /\ returned[p] = c - 1 /\ Op(p) = prg[c] /\ c - 1 \in Nat
         /\ (c - 1) + 1 = c /\ Len(prg) \in Nat
<1>1. returned[p] \in 0 .. Len(prg) /\ Len(prg) \in Nat /\ prog = prg
  BY InSystem, Legality DEF Books
<1> QED
  BY <1>1 DEF Calling, Call, Op

(* A call that has returned to p, as the books have it. *)
LEMMA ReturnBooks ==
  ASSUME NEW prg, NEW S, NEW X, System(prg, S, X), NEW p \in Ranks, Calling(p),
         Returning(X, p), UNCHANGED netState, prog' = prog,
         DOMAIN teams_' = Ranks, DOMAIN team_pool_bitmask_' = Ranks,
         \A q \in Ranks : q # p => /\ teams_'[q] = teams_[q]
                                   /\ team_pool_bitmask_'[q] = team_pool_bitmask_[q],
         NEW c, c = Call(p),
         teams_'[p] = {S[b] : b \in Alive(prg, S, p, c)},
         team_pool_bitmask_'[p] = Slots \ Used(prg, S, p, c),
         prg[c].op = "SPLIT" /\ p \in PEs(S[c]) => Common(prg, S, c) # {}
  PROVE  System(prg, S, X)'
<1>1. /\ IsPlan(X) /\ Invariant(X) /\ Legal(prg, S) /\ prog = prg /\ X = Plan(prg, S)
      /\ \A q \in Ranks : Books(prg, S, q)
  BY InSystem
<1>2. /\ c \in 1 .. Len(prg) /\ returned[p] = c - 1 /\ Len(prg) \in Nat
  BY CallIs
<1>3. Invariant(X)'
  BY <1>1, ReturnInv
<1>4. returned'[p] = c /\ \A q \in Ranks : q # p => returned'[q] = returned[q]
  <2>1. DOMAIN returned = Ranks
    BY <1>1 DEF Invariant, Delivering, Shapes
  <2> QED
    BY <2>1 DEF Returning
<1>5. \A q \in Ranks : Books(prg, S, q)'
  <2> SUFFICES ASSUME NEW q \in Ranks PROVE Books(prg, S, q)'
    OBVIOUS
  <2>1. CASE q # p
    BY <1>1, <1>4, <2>1, BooksKept
  <2>2. CASE q = p
    <3>1. \A b \in 1 .. c : prg[b].op = "SPLIT" /\ p \in PEs(S[b]) => Common(prg, S, b) # {}
      <4>1. \A b \in 1 .. c : b = c \/ b \in 1 .. c - 1
        BY <1>2
      <4> QED
        BY <1>1, <1>2, <4>1 DEF Books
    <3>2. c \in 0 .. Len(prg)
      BY <1>2
    <3> QED
      BY <1>4, <2>2, <3>1, <3>2 DEF Books
  <2> QED
    BY <2>1, <2>2
<1> QED
  BY <1>1, <1>3, <1>5 DEF System

(* A call that changes nothing of what p has. *)
LEMMA QuietReturn ==
  ASSUME NEW prg, NEW S, NEW X, System(prg, S, X), NEW p \in Ranks, Calling(p),
         Returning(X, p), UNCHANGED netState, UNCHANGED teamVars, NEW c, c = Call(p),
         prg[c].op # "DESTROY", prg[c].op = "SPLIT" => p \notin PEs(S[c])
  PROVE  System(prg, S, X)'
<1>1. Books(prg, S, p) /\ DOMAIN teams_ = Ranks /\ DOMAIN team_pool_bitmask_ = Ranks
  BY DEF System
<1>2. /\ c \in 1 .. Len(prg) /\ returned[p] = c - 1 /\ c - 1 \in Nat /\ (c - 1) + 1 = c
  BY CallIs
<1>3. \A b : b \in Alive(prg, S, p, c) <=> b \in Alive(prg, S, p, c - 1)
  <2>1. \A b : b \in Alive(prg, S, p, (c - 1) + 1) <=>
           \/ b \in Alive(prg, S, p, c - 1) /\ ~Destroys(prg, (c - 1) + 1, b)
           \/ b = (c - 1) + 1 /\ prg[(c - 1) + 1].op = "SPLIT" /\ p \in PEs(S[(c - 1) + 1])
    BY <1>2, AliveNext
  <2> QED
    BY <1>2, <2>1 DEF Destroys
<1>4. Alive(prg, S, p, c) = Alive(prg, S, p, c - 1)
  <2>1. Alive(prg, S, p, c) \subseteq 1 .. c /\ Alive(prg, S, p, c - 1) \subseteq 1 .. c - 1
    BY DEF Alive
  <2> QED
    BY <1>3
<1>5. /\ teams_[p] = {S[b] : b \in Alive(prg, S, p, c)}
      /\ team_pool_bitmask_[p] = Slots \ Used(prg, S, p, c)
  BY <1>1, <1>2, <1>4 DEF Books, Used
<1>6. teams_' = teams_ /\ team_pool_bitmask_' = team_pool_bitmask_ /\ prog' = prog
  BY DEF teamVars
<1> QED
  BY <1>1, <1>5, <1>6, ReturnBooks

(* A call without an exchange returns at once. *)
LEMMA AtOnce ==
  ASSUME NEW X, NEW p \in Ranks, ReturnsAtOnce(p),
         ~(Call(p) \in DOMAIN X /\ p \in MembersOf(X[Call(p)].group))
  PROVE  Returning(X, p) /\ UNCHANGED netState
BY DEF ReturnsAtOnce, Goto, Returns, net, netVars, sockets, rootVars, exchange, Returning, netState

(* SplitOutside keeps the system's invariant. *)
LEMMA SplitOutsideStep ==
  ASSUME NEW prg, NEW S, NEW X, System(prg, S, X), NEW p \in Ranks, SplitOutside(p)
  PROVE  System(prg, S, X)'
<1>0. PICK c : c = Call(p)
  OBVIOUS
<1>1. Calling(p) /\ Op(p).op = "SPLIT" /\ UNCHANGED teamVars /\ ReturnsAtOnce(p)
      /\ (Refused(p) \/ ~pe_in_active_set(NewTeam(p), p))
  BY DEF SplitOutside, Splitting
<1>2. c \in 1 .. Len(prg) /\ prg[c].op = "SPLIT"
  BY <1>0, <1>1, CallIs
<1>3. Legal(prg, S) /\ prog = prg /\ X = Plan(prg, S) /\ Books(prg, S, p)
  BY InSystem
<1>4. p \notin PEs(S[c])
  BY <1>0, <1>1, <1>2, <1>3, WhoJoins
<1>5. MembersOf(X[c].group) = PEs(S[c])
  BY <1>2, <1>3, PlanOfSplit
<1>6. Returning(X, p) /\ UNCHANGED netState
  BY <1>0, <1>1, <1>4, <1>5, AtOnce
<1> QED
  BY <1>0, <1>1, <1>2, <1>4, <1>6, QuietReturn

(* NotInGroup keeps the system's invariant. *)
LEMMA NotInGroupStep ==
  ASSUME NEW prg, NEW S, NEW X, System(prg, S, X), NEW p \in Ranks, NotInGroup(p)
  PROVE  System(prg, S, X)'
<1>0. PICK c : c = Call(p)
  OBVIOUS
<1>1. /\ Calling(p) /\ Op(p).op \in Exchanges /\ UNCHANGED teamVars /\ ReturnsAtOnce(p)
      /\ p \notin {Op(p).group[i] : i \in DOMAIN Op(p).group}
  BY DEF NotInGroup
<1>2. c \in 1 .. Len(prg) /\ prg[c].op \in Exchanges /\ Op(p) = prg[c]
  BY <1>0, <1>1, CallIs
<1>3. Legal(prg, S) /\ prog = prg /\ X = Plan(prg, S) /\ Books(prg, S, p)
  BY InSystem
<1>4. X[c].group = prg[c].group /\ prg[c].group \in Groups
  BY <1>2, <1>3, PlanOfExchange
<1>5. p \notin MembersOf(X[c].group)
  <2>1. DOMAIN prg[c].group = 1 .. Len(prg[c].group)
    BY <1>4 DEF Groups
  <2> QED
    BY <1>1, <1>2, <1>4, <2>1 DEF MembersOf
<1>6. Returning(X, p) /\ UNCHANGED netState
  BY <1>0, <1>1, <1>5, AtOnce
<1>7. prg[c].op # "SPLIT" /\ prg[c].op # "DESTROY"
  BY <1>2 DEF Exchanges
<1> QED
  BY <1>0, <1>1, <1>6, <1>7, QuietReturn

(* CallEnd keeps the system's invariant. *)
LEMMA CallEndStep ==
  ASSUME NEW prg, NEW S, NEW X, System(prg, S, X), NEW p \in Ranks, CallEnd(p)
  PROVE  System(prg, S, X)'
<1>0. PICK c : c = Call(p)
  OBVIOUS
<1>1. Calling(p) /\ Op(p).op \in Exchanges /\ UNCHANGED teamVars
  BY DEF CallEnd
<1>2. prg[c].op \in Exchanges
  BY <1>0, <1>1, CallIs
<1>3. Returning(X, p) /\ UNCHANGED netState
  BY DEF CallEnd, Goto, Returns, net, netVars, sockets, rootVars, exchange, Returning, netState
<1>4. prg[c].op # "SPLIT" /\ prg[c].op # "DESTROY"
  BY <1>2 DEF Exchanges
<1> QED
  BY <1>0, <1>1, <1>3, <1>4, QuietReturn

(* CallBegin keeps the system's invariant. *)
LEMMA CallBeginStep ==
  ASSUME NEW prg, NEW S, NEW X, System(prg, S, X), NEW p \in Ranks, CallBegin(p)
  PROVE  System(prg, S, X)'
<1>0. PICK c : c = Call(p)
  OBVIOUS
<1>1. /\ Calling(p) /\ Op(p).op \in Exchanges /\ UNCHANGED teamVars
      /\ p \in {Op(p).group[i] : i \in DOMAIN Op(p).group}
      /\ pc[p] = "ready" /\ pc' = [pc EXCEPT ![p] = "exchange"]
      /\ returned' = returned /\ UNCHANGED netState
  BY DEF CallBegin, Goto, net, netVars, sockets, rootVars, netState
<1>1a. /\ op' = [op EXCEPT ![p] = Op(p).op] /\ group' = [group EXCEPT ![p] = Op(p).group]
       /\ at' = [at EXCEPT ![p] = 1]
       /\ data' = [data EXCEPT ![p] = [k \in Blocks |->
             IF k < Len(Op(p).group) /\ (Op(p).op = "ALLTOALL" \/ Op(p).group[k + 1] = p)
             THEN <<p, k, Call(p), {}>> ELSE NoBlock]]
       /\ recv_buf' = [recv_buf EXCEPT ![p] = [k \in Blocks |-> NoBlock]]
  BY DEF CallBegin, Begins
<1>2. c \in 1 .. Len(prg) /\ prg[c].op \in Exchanges /\ Op(p) = prg[c]
  BY <1>0, <1>1, CallIs
<1>3. Legal(prg, S) /\ prog = prg /\ X = Plan(prg, S) /\ IsPlan(X) /\ Invariant(X)
  BY InSystem
<1>4. PICK x : x = X[c]
  OBVIOUS
<1>5. /\ c \in DOMAIN X /\ x.group = prg[c].group /\ x.what = prg[c].op /\ x.slots[p] = {}
      /\ x.group \in Groups
  BY <1>2, <1>3, <1>4, PlanOfExchange
<1>6. p \in MembersOf(x.group)
  <2>1. DOMAIN x.group = 1 .. Len(x.group)
    BY <1>5 DEF Groups
  <2> QED
    BY <1>1, <1>2, <1>5, <2>1 DEF MembersOf
<1>7. /\ op' = [op EXCEPT ![p] = x.what] /\ group' = [group EXCEPT ![p] = x.group]
      /\ at' = [at EXCEPT ![p] = 1]
      /\ data' = [data EXCEPT ![p] = [k \in Blocks |->
            IF k < Len(x.group) /\ (x.what = "ALLTOALL" \/ x.group[k + 1] = p)
            THEN <<p, k, c, {}>> ELSE NoBlock]]
      /\ recv_buf' = [recv_buf EXCEPT ![p] = [k \in Blocks |-> NoBlock]]
  BY <1>0, <1>1a, <1>2, <1>5
<1>8. \A k : BlockOf(X, c, p, k) = <<p, k, c, {}>>
  BY <1>4, <1>5 DEF BlockOf
<1>9. wire' = wire
  BY <1>1 DEF netState
<1>10. Beginning(X, p)
  BY <1>0, <1>1, <1>4, <1>5, <1>6, <1>7, <1>8, <1>9 DEF Beginning
<1> QED
  BY <1>1, <1>3, <1>10, BeginInv, TeamsKept

(* SplitBegin keeps the system's invariant. *)
LEMMA SplitBeginStep ==
  ASSUME NEW prg, NEW S, NEW X, System(prg, S, X), NEW p \in Ranks, SplitBegin(p)
  PROVE  System(prg, S, X)'
<1>0. PICK c : c = Call(p)
  OBVIOUS
<1> DEFINE g == Line(NewTeam(p))
           what == IF g = World THEN "ALLGATHER" ELSE "GROUPGATHER"
<1>1. /\ Calling(p) /\ Op(p).op = "SPLIT" /\ UNCHANGED teamVars
      /\ ~Refused(p) /\ pe_in_active_set(NewTeam(p), p)
      /\ pc[p] = "ready" /\ pc' = [pc EXCEPT ![p] = "exchange"]
      /\ returned' = returned /\ UNCHANGED netState
  BY DEF SplitBegin, Splitting, Goto, net, netVars, sockets, rootVars, netState
<1>1a. /\ op' = [op EXCEPT ![p] = what] /\ group' = [group EXCEPT ![p] = g]
       /\ at' = [at EXCEPT ![p] = 1]
       /\ data' = [data EXCEPT ![p] = [k \in Blocks |->
             IF k < Len(g) /\ (what = "ALLTOALL" \/ g[k + 1] = p)
             THEN <<p, k, Call(p), team_pool_bitmask_[p]>> ELSE NoBlock]]
       /\ recv_buf' = [recv_buf EXCEPT ![p] = [k \in Blocks |-> NoBlock]]
  BY DEF SplitBegin, Begins
<1>2. c \in 1 .. Len(prg) /\ prg[c].op = "SPLIT" /\ Op(p) = prg[c] /\ returned[p] = c - 1
  BY <1>0, <1>1, CallIs
<1>3. /\ Legal(prg, S) /\ prog = prg /\ X = Plan(prg, S) /\ IsPlan(X) /\ Invariant(X)
      /\ Books(prg, S, p)
  BY InSystem
<1>4. PICK x : x = X[c]
  OBVIOUS
<1>5. p \in PEs(S[c]) /\ g = Line(S[c])
  BY <1>0, <1>1, <1>2, <1>3, WhoJoins
<1>6. /\ c \in DOMAIN X /\ x.group = g /\ x.what = what /\ p \in MembersOf(x.group)
      /\ x.slots[p] = Slots \ Used(prg, S, p, c - 1)
  BY <1>2, <1>3, <1>4, <1>5, PlanOfSplit
<1>7. team_pool_bitmask_[p] = x.slots[p]
  BY <1>2, <1>3, <1>6 DEF Books
<1> HIDE DEF g, what
<1>8. /\ op' = [op EXCEPT ![p] = x.what] /\ group' = [group EXCEPT ![p] = x.group]
      /\ at' = [at EXCEPT ![p] = 1]
      /\ data' = [data EXCEPT ![p] = [k \in Blocks |->
            IF k < Len(x.group) /\ (x.what = "ALLTOALL" \/ x.group[k + 1] = p)
            THEN <<p, k, c, x.slots[p]>> ELSE NoBlock]]
      /\ recv_buf' = [recv_buf EXCEPT ![p] = [k \in Blocks |-> NoBlock]]
  BY <1>0, <1>1a, <1>6, <1>7
<1>9. \A k : BlockOf(X, c, p, k) = <<p, k, c, x.slots[p]>>
  BY <1>4 DEF BlockOf
<1>10. wire' = wire
  BY <1>1 DEF netState
<1>11. Beginning(X, p)
  BY <1>0, <1>1, <1>4, <1>6, <1>8, <1>9, <1>10 DEF Beginning
<1> QED
  BY <1>1, <1>3, <1>11, BeginInv, TeamsKept

(* No two teams of p have the same slot. *)
LEMMA OwnSlots ==
  ASSUME NEW prg, NEW S, Legal(prg, S), NEW p \in Ranks, Books(prg, S, p),
         NEW n, n = returned[p]
  PROVE  /\ \A c \in Alive(prg, S, p, n) : S[c].slot \in Slots /\ S[c].call = c
         /\ \A b, c \in Alive(prg, S, p, n) : S[b].slot = S[c].slot => b = c
<1>1. n \in 0 .. Len(prg) /\ Len(prg) \in Nat
  BY Legality DEF Books
<1>2. ASSUME NEW c \in Alive(prg, S, p, n)
      PROVE  /\ c \in 1 .. n /\ S[c].call = c /\ S[c].slot \in Common(prg, S, c) /\ p \in PEs(S[c])
             /\ prg[c].op = "SPLIT" /\ \A d \in c + 1 .. n : ~Destroys(prg, d, c)
  <2>1. /\ c \in 1 .. n /\ prg[c].op = "SPLIT" /\ p \in PEs(S[c])
        /\ \A d \in c + 1 .. n : ~Destroys(prg, d, c)
    BY DEF Alive
  <2>2. Common(prg, S, c) # {}
    BY <2>1 DEF Books
  <2>3. c \in 1 .. Len(prg)
    BY <1>1, <2>1
  <2>4. LegalSplit(prg, S, c) /\ S[c].call = c
    BY <2>1, <2>3, Legality
  <2>5. S[c].slot \in Common(prg, S, c)
    BY <2>2, <2>4 DEF LegalSplit
  <2> QED
    BY <2>1, <2>4, <2>5
<1>3. ASSUME NEW b \in Alive(prg, S, p, n), NEW c \in Alive(prg, S, p, n), b < c
      PROVE  S[b].slot # S[c].slot
  <2>1. /\ b \in 1 .. n /\ c \in 1 .. n /\ prg[b].op = "SPLIT" /\ p \in PEs(S[b]) /\ p \in PEs(S[c])
        /\ \A d \in b + 1 .. n : ~Destroys(prg, d, b)
    BY <1>2
  <2>2. b \in 1 .. c - 1 /\ \A d \in b + 1 .. c - 1 : d \in b + 1 .. n
    BY <1>1, <1>3, <2>1
  <2>3. b \in Alive(prg, S, p, c - 1)
    BY <2>1, <2>2 DEF Alive
  <2> QED
    BY <1>2, <2>1, <2>3 DEF Common
<1>4. \A b, c \in Alive(prg, S, p, n) : S[b].slot = S[c].slot => b = c
  <2> SUFFICES ASSUME NEW b \in Alive(prg, S, p, n), NEW c \in Alive(prg, S, p, n),
                      S[b].slot = S[c].slot
               PROVE  b = c
    OBVIOUS
  <2>1. b \in 1 .. n /\ c \in 1 .. n
    BY <1>2
  <2>2. b \in Int /\ c \in Int
    BY <1>1, <2>1
  <2>3. ~(b < c) /\ ~(c < b)
    BY <1>3
  <2> QED
    BY <2>2, <2>3
<1>5. \A c \in Alive(prg, S, p, n) : S[c].slot \in Slots
  BY <1>2 DEF Common
<1> QED
  BY <1>2, <1>4, <1>5

(* The member of a new team takes the slot the others take. *)
LEMMA SplitEndStep ==
  ASSUME NEW prg, NEW S, NEW X, System(prg, S, X), NEW p \in Ranks, SplitEnd(p)
  PROVE  System(prg, S, X)'
<1>0. PICK c : c = Call(p)
  OBVIOUS
<1>1. /\ Calling(p) /\ Op(p).op = "SPLIT" /\ pc[p] = "over" /\ prog' = prog
      /\ Returning(X, p) /\ UNCHANGED netState
  BY DEF SplitEnd, Goto, Returns, net, netVars, sockets, rootVars, exchange, Returning, netState
<1>2. PICK s \in CommonFree(p) :
        /\ \A r \in CommonFree(p) : s <= r
        /\ team_pool_bitmask_' =
             [team_pool_bitmask_ EXCEPT ![p] = team_pool_bitmask_[p] \ {s}]
        /\ teams_' = [teams_ EXCEPT ![p] = teams_[p] \cup {[NewTeam(p) EXCEPT !.slot = s]}]
  BY DEF SplitEnd
<1>3. /\ c \in 1 .. Len(prg) /\ prg[c].op = "SPLIT" /\ p \in PEs(S[c])
      /\ CommonFree(p) = Common(prg, S, c) /\ NewTeam(p) = [S[c] EXCEPT !.slot = 0]
  BY <1>0, <1>1, CommonIs
<1>4. returned[p] = c - 1 /\ c - 1 \in Nat /\ (c - 1) + 1 = c
  BY <1>0, <1>1, CallIs
<1>5. Legal(prg, S) /\ Books(prg, S, p) /\ DOMAIN teams_ = Ranks /\ DOMAIN team_pool_bitmask_ = Ranks
  BY DEF System
<1>6. S[c].slot = s
  <2>1. S[c].slot \in Common(prg, S, c) /\ \A r \in Common(prg, S, c) : S[c].slot <= r
    <3>1. LegalSplit(prg, S, c) /\ Common(prg, S, c) # {}
      BY <1>2, <1>3, <1>5, Legality
    <3> QED
      BY <3>1 DEF LegalSplit
  <2>2. s <= S[c].slot /\ S[c].slot <= s
    BY <1>2, <1>3, <2>1
  <2>3. s \in Int /\ S[c].slot \in Int
    <3>1. s \in Slots /\ S[c].slot \in Slots
      BY <1>3, <2>1 DEF Common
    <3> QED
      BY <3>1, SlotsAreInt
  <2> QED
    BY <2>2, <2>3
<1>7. [NewTeam(p) EXCEPT !.slot = s] = S[c]
  <2>1. S[c] \in TeamRecords
    BY <1>3, <1>5, Legality
  <2> QED
    BY <1>3, <1>6, <2>1 DEF TeamRecords
<1>8. \A b : b \in Alive(prg, S, p, c) <=> b \in Alive(prg, S, p, c - 1) \/ b = c
  <2>1. \A b : b \in Alive(prg, S, p, (c - 1) + 1) <=>
           \/ b \in Alive(prg, S, p, c - 1) /\ ~Destroys(prg, (c - 1) + 1, b)
           \/ b = (c - 1) + 1 /\ prg[(c - 1) + 1].op = "SPLIT" /\ p \in PEs(S[(c - 1) + 1])
    BY <1>4, AliveNext
  <2>2. \A b : ~Destroys(prg, c, b)
    BY <1>3 DEF Destroys
  <2> QED
    BY <1>3, <1>4, <2>1, <2>2
<1>9. teams_'[p] = {S[b] : b \in Alive(prg, S, p, c)}
  <2>1. teams_'[p] = {S[b] : b \in Alive(prg, S, p, c - 1)} \cup {S[c]}
    BY <1>2, <1>4, <1>5, <1>7 DEF Books
  <2> QED
    BY <1>8, <2>1
<1>10. team_pool_bitmask_'[p] = Slots \ Used(prg, S, p, c)
  <2>1. team_pool_bitmask_'[p] = (Slots \ {S[b].slot : b \in Alive(prg, S, p, c - 1)}) \ {S[c].slot}
    BY <1>2, <1>4, <1>5, <1>6 DEF Books, Used
  <2> QED
    BY <1>8, <2>1 DEF Used
<1>11. /\ DOMAIN teams_' = Ranks /\ DOMAIN team_pool_bitmask_' = Ranks
       /\ \A q \in Ranks : q # p => teams_'[q] = teams_[q]
                                    /\ team_pool_bitmask_'[q] = team_pool_bitmask_[q]
  BY <1>2, <1>5
<1>12. prog' = prg /\ Common(prg, S, c) # {}
  BY <1>1, <1>2, <1>3, InSystem
<1> QED
  BY <1>0, <1>1, <1>9, <1>10, <1>11, <1>12, ReturnBooks

(* A destroyed team gives back the slot it had and no other team has. *)
LEMMA DestroyStep ==
  ASSUME NEW prg, NEW S, NEW X, System(prg, S, X), NEW p \in Ranks, Destroy(p)
  PROVE  System(prg, S, X)'
<1>0. PICK c : c = Call(p)
  OBVIOUS
<1>1. Calling(p) /\ Op(p).op = "DESTROY" /\ prog' = prog /\ ReturnsAtOnce(p)
  BY DEF Destroy
<1>2. /\ c \in 1 .. Len(prg) /\ returned[p] = c - 1 /\ c - 1 \in Nat /\ (c - 1) + 1 = c
      /\ Op(p) = prg[c] /\ prg[c].op = "DESTROY"
  BY <1>0, <1>1, CallIs
<1>3. /\ Legal(prg, S) /\ Books(prg, S, p) /\ X = Plan(prg, S) /\ prog = prg
      /\ DOMAIN teams_ = Ranks /\ DOMAIN team_pool_bitmask_ = Ranks
  BY DEF System
<1>4. Returning(X, p) /\ UNCHANGED netState
  <2>1. c \notin DOMAIN X
    BY <1>2, <1>3 DEF Plan
  <2> QED
    BY <1>0, <1>1, <2>1, AtOnce
<1>5. PICK t, A : t = prg[c].team /\ A = Alive(prg, S, p, c - 1)
  OBVIOUS
<1>6. \A b : b \in Alive(prg, S, p, c) <=> b \in A /\ b # t
  <2>1. \A b : b \in Alive(prg, S, p, (c - 1) + 1) <=>
           \/ b \in Alive(prg, S, p, c - 1) /\ ~Destroys(prg, (c - 1) + 1, b)
           \/ b = (c - 1) + 1 /\ prg[(c - 1) + 1].op = "SPLIT" /\ p \in PEs(S[(c - 1) + 1])
    BY <1>2, AliveNext
  <2>2. \A b : Destroys(prg, c, b) <=> b = t
    BY <1>2, <1>5 DEF Destroys
  <2> QED
    BY <1>2, <1>5, <2>1, <2>2
<1>7. /\ \A b \in A : S[b].slot \in Slots /\ S[b].call = b
      /\ \A a, b \in A : S[a].slot = S[b].slot => a = b
  BY <1>2, <1>3, <1>5, OwnSlots
<1>8. teams_[p] = {S[b] : b \in A} /\ team_pool_bitmask_[p] = Slots \ {S[b].slot : b \in A}
  BY <1>2, <1>3, <1>5 DEF Books, Used
<1>9. PICK T : T = {u \in teams_[p] : u.call = t}
  OBVIOUS
<1>10. /\ teams_' = [teams_ EXCEPT ![p] = teams_[p] \ T]
       /\ team_pool_bitmask_' = [team_pool_bitmask_ EXCEPT ![p] =
                                   team_pool_bitmask_[p] \cup {u.slot : u \in T}]
  BY <1>2, <1>5, <1>9 DEF Destroy
<1>11. /\ DOMAIN teams_' = Ranks /\ DOMAIN team_pool_bitmask_' = Ranks
       /\ teams_'[p] = teams_[p] \ T
       /\ team_pool_bitmask_'[p] = team_pool_bitmask_[p] \cup {u.slot : u \in T}
       /\ \A q \in Ranks : q # p => teams_'[q] = teams_[q]
                                    /\ team_pool_bitmask_'[q] = team_pool_bitmask_[q]
  BY <1>3, <1>10
<1>12. \A u : u \in T <=> \E b \in A : u = S[b] /\ b = t
  BY <1>7, <1>8, <1>9
<1>13. teams_'[p] = {S[b] : b \in Alive(prg, S, p, c)}
  <2>1. \A u : u \in teams_'[p] <=> \E b \in A : u = S[b] /\ b # t
    <3>1. \A u : u \in teams_'[p] <=> (\E b \in A : u = S[b]) /\ u \notin T
      BY <1>8, <1>11
    <3>2. \A b \in A : S[b] \in T <=> b = t
      BY <1>7, <1>12
    <3> QED
      BY <3>1, <3>2
  <2>2. \A u : u \in teams_'[p] <=> u \in {S[b] : b \in Alive(prg, S, p, c)}
    BY <1>6, <2>1
  <2>3. teams_'[p] = teams_[p] \ T
    BY <1>11
  <2> QED
    BY <2>2, <2>3
<1>14. team_pool_bitmask_'[p] = Slots \ Used(prg, S, p, c)
  <2>1. \A s : s \in {u.slot : u \in T} <=> \E b \in A : s = S[b].slot /\ b = t
    BY <1>12
  <2>2. \A s : s \in team_pool_bitmask_'[p] <=>
           \/ s \in Slots /\ ~\E b \in A : s = S[b].slot
           \/ \E b \in A : s = S[b].slot /\ b = t
    BY <1>8, <1>11, <2>1
  <2>3. \A s : s \in Used(prg, S, p, c) <=> \E b \in A : s = S[b].slot /\ b # t
    BY <1>6 DEF Used
  <2>4. \A s : s \in team_pool_bitmask_'[p] <=> s \in Slots \ Used(prg, S, p, c)
    BY <1>7, <2>2, <2>3
  <2>5. team_pool_bitmask_'[p] = team_pool_bitmask_[p] \cup {u.slot : u \in T}
    BY <1>11
  <2> QED
    BY <2>4, <2>5
<1> QED
  BY <1>0, <1>1, <1>2, <1>3, <1>4, <1>11, <1>13, <1>14, ReturnBooks

(* SplitAborts keeps the system's invariant. *)
LEMMA SplitAbortsStep ==
  ASSUME NEW prg, NEW S, NEW X, System(prg, S, X), NEW p \in Ranks, SplitAborts(p)
  PROVE  System(prg, S, X)'
<1>1. Aborts(p) /\ pc[p] = "over" /\ UNCHANGED teamVars
  BY DEF SplitAborts
<1>2. returned' = returned
  BY <1>1 DEF Aborts
<1>3. IsPlan(X) /\ Invariant(X)
  BY InSystem
<1>4. Invariant(X)'
  BY <1>1, <1>3, AbortStep
<1> QED
  BY <1>1, <1>2, <1>4, TeamsKept

(* What waits stays. *)
LEMMA SpinStep ==
  ASSUME NEW prg, NEW S, NEW X, System(prg, S, X), UNCHANGED vars
  PROVE  System(prg, S, X)'
<1>1. /\ ExchangesKept /\ pc' = pc /\ UNCHANGED netState /\ UNCHANGED teamVars
  BY DEF vars, bootstrapVars, ExchangesKept, netState, rootVars, netVars, sockets, exchange, teamVars
<1>2. IsPlan(X) /\ Invariant(X)
  BY InSystem
<1>3. Setup' /\ Stages' /\ DOMAIN pc' = Ranks /\ NetKept /\ \A q \in Ranks : Active(q)' <=> Active(q)
  <2>1. Setup'
    BY <1>1, <1>2, LateSetup DEF netState, ExchangesKept
  <2>2. Stages'
    BY <1>1, <1>2 DEF Invariant, Delivering, Stages, ExchangesKept
  <2> QED
    BY <1>1, <1>2, <2>1, <2>2 DEF Invariant, Delivering, Shapes, NetKept, Active, ExchangesKept, netState
<1>4. Invariant(X)' /\ returned' = returned
  BY <1>1, <1>2, <1>3, QuietInv DEF ExchangesKept
<1> QED
  BY <1>1, <1>4, TeamsKept

TeamsInvariant == \E prg \in Programs : \E S, X : System(prg, S, X)

(* The system's invariant holds at the start. *)
LEMMA TeamsInit ==
  ASSUME NEW prg, NEW S, Legal(prg, S), Init, prog = prg
  PROVE  System(prg, S, Plan(prg, S))
<1>1. IsPlan(Plan(prg, S)) /\ BootstrapInit
  BY PlanIsPlan DEF Init
<1>2. Invariant(Plan(prg, S))
  BY <1>1, InitInv
<1>3. \A p \in Ranks : returned[p] = 0 /\ teams_[p] = {} /\ team_pool_bitmask_[p] = Slots
  BY DEF Init, BootstrapInit, Slots
<1>4. ASSUME NEW p \in Ranks PROVE Books(prg, S, p)
  <2>1. Alive(prg, S, p, 0) = {}
    BY DEF Alive
  <2>2. 0 \in 0 .. Len(prg) /\ 1 .. 0 = {}
    BY Legality
  <2> QED
    BY <1>3, <2>1, <2>2 DEF Books, Used
<1>5. DOMAIN teams_ = Ranks /\ DOMAIN team_pool_bitmask_ = Ranks
  BY DEF Init
<1> QED
  BY <1>2, <1>4, <1>5 DEF System

(* Every step keeps the system's invariant. *)
LEMMA TeamsStep ==
  ASSUME NEW prg, NEW S, NEW X, System(prg, S, X), [Next]_vars
  PROVE  System(prg, S, X)'
<1>1. CASE UNCHANGED vars
  BY <1>1, SpinStep
<1>2. CASE RootStep /\ UNCHANGED teamVars
  BY <1>2, NetworkStep
<1>3. ASSUME NEW p \in Ranks, Step(p) PROVE System(prg, S, X)'
  BY <1>3, NetworkStep, SplitOutsideStep, SplitBeginStep, SplitEndStep, SplitAbortsStep, DestroyStep,
     CallBeginStep, NotInGroupStep, CallEndStep DEF Step
<1> QED
  BY <1>1, <1>2, <1>3 DEF Next, Spin

(* In every behaviour some program, legal with some layout, is under way,  *)
(* and connections, blocks, teams and slots are as it has them: the        *)
(* inductive invariant of the theorems that follow.                        *)
THEOREM TeamsInductive ==
  ASSUME LegalPrograms PROVE Spec => []TeamsInvariant
<1>1. Init => TeamsInvariant
  <2> SUFFICES ASSUME Init PROVE TeamsInvariant
    OBVIOUS
  <2>1. prog \in Programs
    BY DEF Init
  <2>2. PICK S : Legal(prog, S)
    BY <2>1 DEF LegalPrograms
  <2>3. PICK prg : prg = prog
    OBVIOUS
  <2>4. System(prg, S, Plan(prg, S))
    BY <2>2, <2>3, TeamsInit
  <2> QED
    BY <2>1, <2>3, <2>4 DEF TeamsInvariant
<1>2. TeamsInvariant /\ [Next]_vars => TeamsInvariant'
  <2> SUFFICES ASSUME TeamsInvariant, [Next]_vars PROVE TeamsInvariant'
    OBVIOUS
  <2>1. PICK prg \in Programs : \E S, X : System(prg, S, X)
    BY DEF TeamsInvariant
  <2>2. PICK S, X : System(prg, S, X)
    BY <2>1
  <2>3. System(prg, S, X)'
    BY <2>2, TeamsStep
  <2> QED
    BY <2>3 DEF TeamsInvariant
<1> QED
  BY <1>1, <1>2, PTL DEF Spec

(* An exchange leaves with its caller the block that each member meant for *)
(* it in this call: for every number of ranks, capacity of the sockets and *)
(* legal program.                                                          *)
THEOREM ExchangesExact ==
  ASSUME LegalPrograms PROVE Spec => []Exact
<1>1. TeamsInvariant => Exact
  <2> SUFFICES ASSUME TeamsInvariant, NEW p \in Ranks, pc[p] = "over", op[p] # "BARRIER",
                      NEW k \in 0 .. Size(p) - 1
               PROVE  /\ data[p][k][1] = group[p][k + 1]
                      /\ data[p][k][2] = IF op[p] = "ALLTOALL" THEN Pos(p) ELSE k
                      /\ data[p][k][3] = Call(p)
    BY DEF Exact
  <2>1. PICK prg \in Programs : \E S, X : System(prg, S, X)
    BY DEF TeamsInvariant
  <2>2. PICK S, X : System(prg, S, X)
    BY <2>1
  <2>3. IsPlan(X) /\ Invariant(X)
    BY <2>2, InSystem
  <2>4. data[p][k] = BlockOf(X, Call(p), group[p][k + 1], IF op[p] = "ALLTOALL" THEN Pos(p) ELSE k)
    BY <2>3, OverBlocks
  <2> QED
    BY <2>4 DEF BlockOf
<1> QED
  BY <1>1, TeamsInductive, PTL

(* The members of a team have the same slot for it, and no PE has two      *)
(* teams, or a team and the pool, on one slot.                             *)
THEOREM SlotsAgree ==
  ASSUME LegalPrograms PROVE Spec => []OneSlot
<1>1. TeamsInvariant => OneSlot
  <2> SUFFICES ASSUME TeamsInvariant PROVE OneSlot
    OBVIOUS
  <2>1. PICK prg \in Programs : \E S, X : System(prg, S, X)
    BY DEF TeamsInvariant
  <2>2. PICK S, X : System(prg, S, X)
    BY <2>1
  <2>3. Legal(prg, S) /\ \A p \in Ranks : Books(prg, S, p)
    BY <2>2, InSystem
  <2>4. ASSUME NEW p \in Ranks
        PROVE  /\ teams_[p] = {S[c] : c \in Alive(prg, S, p, returned[p])}
               /\ team_pool_bitmask_[p] = Slots \ Used(prg, S, p, returned[p])
               /\ \A c \in Alive(prg, S, p, returned[p]) : S[c].call = c
               /\ \A b, c \in Alive(prg, S, p, returned[p]) : S[b].slot = S[c].slot => b = c
    BY <2>3, OwnSlots DEF Books
  <2>5. ASSUME NEW p \in Ranks, NEW c \in Alive(prg, S, p, returned[p])
        PROVE  /\ S[c].slot \notin team_pool_bitmask_[p]
               /\ \A u \in teams_[p] : u.slot = S[c].slot => u = S[c]
               /\ \A q \in Ranks : \A u \in teams_[q] : u.call = S[c].call => u = S[c]
    <3>1. S[c].slot \in Used(prg, S, p, returned[p])
      BY DEF Used
    <3>2. S[c].slot \notin team_pool_bitmask_[p]
      BY <2>4, <3>1
    <3>3. \A u \in teams_[p] : u.slot = S[c].slot => u = S[c]
      BY <2>4
    <3>4. \A q \in Ranks : \A u \in teams_[q] : u.call = S[c].call => u = S[c]
      BY <2>4
    <3> QED
      BY <3>2, <3>3, <3>4
  <2> QED
    BY <2>4, <2>5 DEF OneSlot
<1> QED
  BY <1>1, TeamsInductive, PTL

(* The rows and columns of a grid of n PEs, w in a row *)
LEMMA GridPlaces ==
  ASSUME NEW n \in Nat \ {0}, NEW w \in 1 .. n, NEW p \in 0 .. n - 1
  PROVE  LET i == p \div w
             j == p % w
         IN /\ i + 1 \in 1 .. (n + w - 1) \div w /\ j + 1 \in 1 .. w
            /\ j < IF (i + 1) * w <= n THEN w ELSE n % w
            /\ i < n \div w + IF j + 1 <= n % w THEN 1 ELSE 0
            /\ p = i * w + j /\ p = j + w * i
<1>1. w \in Nat \ {0} /\ p \in Int /\ n \in Int /\ p >= 0 /\ p < n /\ n + w - 1 \in Int
  OBVIOUS
<1>2. PICK i, j, q, m, d, e : /\ i = p \div w /\ j = p % w /\ q = n \div w /\ m = n % w
                              /\ d = (n + w - 1) \div w /\ e = (n + w - 1) % w
  OBVIOUS
<1>3. p = w * i + j /\ i \in Int /\ j \in 0 .. w - 1
  BY <1>1, <1>2, DivMod
<1>4. n = w * q + m /\ q \in Int /\ m \in 0 .. w - 1
  BY <1>1, <1>2, DivMod
<1>5. n + w - 1 = w * d + e /\ d \in Int /\ e \in 0 .. w - 1
  BY <1>1, <1>2, DivMod
<1>6. /\ w * i \in Int /\ w * q \in Int /\ w * d \in Int /\ w * (-1) = -w
      /\ w * (i + 1) = w * i + w /\ w * (q + 1) = w * q + w /\ w * (d + 1) = w * d + w
      /\ (i + 1) * w = w * i + w /\ i * w = w * i
  BY <1>1, <1>3, <1>4, <1>5
<1>7. \A a, b \in Int : w * a < w * b => a < b
  <2> SUFFICES ASSUME NEW a \in Int, NEW b \in Int, w * a < w * b PROVE a < b
    OBVIOUS
  <2>1. b <= a => w * b <= w * a
    BY <1>1, Monotone
  <2>2. w * a \in Int /\ w * b \in Int
    BY <1>1
  <2> QED
    BY <2>1, <2>2
<1>8. i >= 0
  <2>1. w * (-1) < w * i
    BY <1>1, <1>3, <1>6
  <2>2. -1 < i
    BY <1>3, <1>7, <2>1
  <2> QED
    BY <1>3, <2>2
<1>9. i + 1 <= d
  <2>1. w * i < w * d
    BY <1>1, <1>3, <1>5, <1>6
  <2>2. i < d
    BY <1>3, <1>5, <1>7, <2>1
  <2> QED
    BY <1>3, <1>5, <2>2
<1>10. i <= q
  <2>1. w * i < w * (q + 1)
    BY <1>1, <1>3, <1>4, <1>6
  <2>2. i < q + 1
    BY <1>3, <1>4, <1>7, <2>1
  <2> QED
    BY <1>3, <1>4, <2>2
<1>11. i = q => j < m
  BY <1>1, <1>3, <1>4, <1>6
<1>12. (i + 1) * w > n => i = q
  <2> SUFFICES ASSUME (i + 1) * w > n PROVE i = q
    OBVIOUS
  <2>1. w * q < w * (i + 1)
    BY <1>1, <1>3, <1>4, <1>6
  <2>2. q < i + 1
    BY <1>3, <1>4, <1>7, <2>1
  <2> QED
    BY <1>3, <1>4, <1>10, <2>2
<1>13. /\ i + 1 \in 1 .. d /\ j + 1 \in 1 .. w /\ p = i * w + j /\ p = j + w * i
       /\ j < IF (i + 1) * w <= n THEN w ELSE m
       /\ i < q + IF j + 1 <= m THEN 1 ELSE 0
  <2>1. i + 1 \in 1 .. d /\ j + 1 \in 1 .. w
    BY <1>1, <1>3, <1>5, <1>8, <1>9
  <2>2. j < IF (i + 1) * w <= n THEN w ELSE m
    <3>1. (i + 1) * w \in Int
      BY <1>6
    <3> QED
      BY <1>1, <1>3, <1>11, <1>12, <3>1
  <2>3. i < q + IF j + 1 <= m THEN 1 ELSE 0
    BY <1>3, <1>4, <1>10, <1>11
  <2> QED
    BY <1>3, <1>6, <2>1, <2>2, <2>3
<1> QED
  BY <1>2, <1>13

(* The calls of a split_2d, after m others: r rows of w and then w columns *)
Grid(prg, m, r, w) ==
  /\ r = (nRanks + w - 1) \div w /\ Len(prg) = m + r + w
  /\ \A i \in 1 .. r :
       prg[m + i] = SplitInto(0, (i - 1) * w, 1, IF i * w <= nRanks THEN w ELSE nRanks % w, "x")
  /\ \A j \in 1 .. w :
       prg[m + r + j] =
         SplitInto(0, j - 1, w, nRanks \div w + IF j <= nRanks % w THEN 1 ELSE 0, "y")

(* What xteams and yteams split, after m other calls. *)
LEMMA GridCalls ==
  ASSUME NEW prg, NEW m \in Nat, NEW x \in Nat \ {0}, EndsInGrid(prg, m, x)
  PROVE  \E w \in 1 .. nRanks : \E r \in Nat : Grid(prg, m, r, w)
<1>1. PICK w : w = IF x > nRanks THEN nRanks ELSE x
  OBVIOUS
<1>2. w \in 1 .. nRanks /\ nRanks \in Nat \ {0}
  BY <1>1, TeamsAssumption
<1>3. PICK r : r = (nRanks + w - 1) \div w
  OBVIOUS
<1>4. r \in Nat
  <2>2. 0 \in 0 .. nRanks - 1
    BY <1>2
  <2>3. (0 \div w) + 1 \in 1 .. r
    BY <1>2, <1>3, <2>2, GridPlaces
  <2>4. r \in Int
    BY <1>2, <1>3, DivMod
  <2> QED
    BY <2>3, <2>4
<1>5. PICK xs, ys : xs = xteams(0, nRanks, w) /\ ys = yteams(0, nRanks, w)
  OBVIOUS
<1>6. xs = [i \in 1 .. r |-> SplitInto(0, (i - 1) * w, 1,
                                       IF i * w <= nRanks THEN w ELSE nRanks % w, "x")]
  BY <1>3, <1>5 DEF xteams
<1>7. ys = [j \in 1 .. w |-> SplitInto(0, j - 1, w,
                                  nRanks \div w + IF j <= nRanks % w THEN 1 ELSE 0, "y")]
  BY <1>5 DEF yteams
<1>8. split_2d(0, nRanks, x) = xs \o ys
  BY <1>1, <1>5 DEF split_2d
<1>9. PICK V : xs \in [1 .. r -> V] /\ ys \in [1 .. w -> V]
  <2> DEFINE U == {xs[i] : i \in 1 .. r} \cup {ys[j] : j \in 1 .. w}
  <2>1. xs \in [1 .. r -> U]
    <3>1. DOMAIN xs = 1 .. r /\ xs = [i \in 1 .. r |-> xs[i]]
      BY <1>6
    <3> QED
      BY <3>1
  <2>2. ys \in [1 .. w -> U]
    <3>1. DOMAIN ys = 1 .. w /\ ys = [i \in 1 .. w |-> ys[i]]
      BY <1>7
    <3> QED
      BY <3>1
  <2> HIDE DEF U
  <2> QED
    BY <2>1, <2>2
<1>10. xs \in Seq(V) /\ ys \in Seq(V) /\ Len(xs) = r /\ Len(ys) = w
  BY <1>2, <1>4, <1>9
<1>11. /\ Len(xs \o ys) = r + w /\ DOMAIN (xs \o ys) = 1 .. r + w
       /\ \A i \in 1 .. r : (xs \o ys)[i] = xs[i]
       /\ \A j \in 1 .. w : (xs \o ys)[r + j] = ys[j]
  BY <1>2, <1>4, <1>10
<1>12. /\ Len(prg) = m + (r + w)
       /\ \A i \in 1 .. r + w : prg[m + i] = (xs \o ys)[i]
  BY <1>8, <1>11 DEF EndsInGrid
<1>13. Len(prg) = m + r + w
  BY <1>2, <1>4, <1>12
<1>14. \A i \in 1 .. r : prg[m + i] = xs[i]
  <2>1. \A i \in 1 .. r : i \in 1 .. r + w
    BY <1>2, <1>4
  <2> QED
    BY <1>11, <1>12, <2>1
<1>15. \A j \in 1 .. w : prg[m + r + j] = ys[j]
  <2>1. \A j \in 1 .. w : r + j \in 1 .. r + w /\ m + (r + j) = m + r + j
    BY <1>2, <1>4
  <2> QED
    BY <1>11, <1>12, <2>1
<1>16. Grid(prg, m, r, w)
  <2>1. \A i \in 1 .. r : prg[m + i] =
           SplitInto(0, (i - 1) * w, 1, IF i * w <= nRanks THEN w ELSE nRanks % w, "x")
    BY <1>6, <1>14
  <2>2. \A j \in 1 .. w : prg[m + r + j] =
           SplitInto(0, j - 1, w, nRanks \div w + IF j <= nRanks % w THEN 1 ELSE 0, "y")
    BY <1>7, <1>15
  <2> QED
    BY <1>3, <1>13, <2>1, <2>2 DEF Grid
<1> QED
  BY <1>2, <1>4, <1>16

(* The PEs of a row, and those of a column *)
LEMMA RowPEs ==
  ASSUME NEW w \in 1 .. nRanks, NEW i \in Int, NEW t,
         t.pe_start = (i - 1) * w, t.stride = 1,
         t.size = IF i * w <= nRanks THEN w ELSE nRanks % w
  PROVE  /\ \A q \in PEs(t) : q \div w = i - 1
         /\ \A q \in Ranks : q \div w = i - 1 => q \in PEs(t)
<1>1. nRanks \in Nat \ {0} /\ w \in Nat \ {0} /\ nRanks % w \in 0 .. w - 1
  BY TeamsAssumption, DivMod
<1>2. t.size \in Int /\ t.size <= w
  BY <1>1
<1>3. PICK n : n = t.size
  OBVIOUS
<1>4. PEs(t) = {(i - 1) * w + 1 * k : k \in 0 .. n - 1}
  BY <1>3 DEF PEs
<1>5. ASSUME NEW k \in 0 .. n - 1
      PROVE  ((i - 1) * w + 1 * k) \div w = i - 1
  <2>1. k \in 0 .. w - 1 /\ i - 1 \in Int
    BY <1>1, <1>2, <1>3
  <2>2. (k + w * (i - 1)) \div w = i - 1
    BY <1>1, <2>1, ModShift
  <2>3. k + w * (i - 1) = (i - 1) * w + 1 * k
    BY <1>1, <2>1
  <2> QED
    BY <2>2, <2>3
<1>6. ASSUME NEW q \in Ranks, q \div w = i - 1
      PROVE  q \in PEs(t)
  <2>1. PICK k : k = q % w
    OBVIOUS
  <2>2. q \in 0 .. nRanks - 1
    BY DEF Ranks
  <2>3. /\ (i - 1) + 1 \in 1 .. (nRanks + w - 1) \div w
        /\ k < IF ((i - 1) + 1) * w <= nRanks THEN w ELSE nRanks % w
        /\ q = (i - 1) * w + k
    BY <1>1, <1>6, <2>1, <2>2, GridPlaces
  <2>4. (i - 1) + 1 = i
    OBVIOUS
  <2>5. k < n
    BY <1>3, <2>3, <2>4
  <2>6. k \in 0 .. w - 1
    BY <1>1, <2>1, <2>2, DivMod
  <2>7. k \in 0 .. n - 1 /\ 1 * k = k
    BY <1>1, <1>2, <1>3, <2>5, <2>6
  <2> QED
    BY <1>4, <2>3, <2>7
<1> QED
  BY <1>4, <1>5, <1>6

(* The PEs of a column have its number as their remainder. *)
LEMMA ColumnPEs ==
  ASSUME NEW w \in 1 .. nRanks, NEW j \in 1 .. w, NEW t,
         t.pe_start = j - 1, t.stride = w,
         t.size = nRanks \div w + IF j <= nRanks % w THEN 1 ELSE 0
  PROVE  /\ \A q \in PEs(t) : q % w = j - 1
         /\ \A q \in Ranks : q % w = j - 1 => q \in PEs(t)
<1>1. nRanks \in Nat \ {0} /\ w \in Nat \ {0} /\ nRanks \div w \in Int
  BY TeamsAssumption, DivMod
<1>2. PICK n : n = t.size
  OBVIOUS
<1>3. PEs(t) = {(j - 1) + w * k : k \in 0 .. n - 1} /\ n \in Int
  <2>1. n \in Int
    BY <1>1, <1>2
  <2> QED
    BY <1>2, <2>1 DEF PEs
<1>4. ASSUME NEW k \in 0 .. n - 1
      PROVE  ((j - 1) + w * k) % w = j - 1
  <2>1. k \in Int /\ j - 1 \in 0 .. w - 1
    BY <1>1, <1>3
  <2> QED
    BY <1>1, <2>1, ModShift
<1>5. ASSUME NEW q \in Ranks, q % w = j - 1
      PROVE  q \in PEs(t)
  <2>1. PICK k : k = q \div w
    OBVIOUS
  <2>2. q \in 0 .. nRanks - 1
    BY DEF Ranks
  <2>3. /\ k + 1 \in 1 .. (nRanks + w - 1) \div w
        /\ k < nRanks \div w + IF (j - 1) + 1 <= nRanks % w THEN 1 ELSE 0
        /\ q = (j - 1) + w * k
    <3>1. PICK l : l = q % w
      OBVIOUS
    <3>2. /\ k + 1 \in 1 .. (nRanks + w - 1) \div w
          /\ k < nRanks \div w + IF l + 1 <= nRanks % w THEN 1 ELSE 0
          /\ q = l + w * k
      BY <1>1, <2>1, <2>2, <3>1, GridPlaces
    <3> QED
      BY <1>5, <3>1, <3>2
  <2>4. (j - 1) + 1 = j
    OBVIOUS
  <2>5. k < n
    BY <1>2, <2>3, <2>4
  <2>6. k \in Int /\ k >= 0
    <3>1. k \in Int /\ k + 1 >= 1
      BY <1>1, <2>1, <2>2, <2>3, DivMod
    <3> QED
      BY <3>1
  <2>7. k \in 0 .. n - 1
    BY <1>3, <2>5, <2>6
  <2> QED
    BY <1>3, <2>3, <2>7
<1> QED
  BY <1>3, <1>4, <1>5

(* A split of the world makes the team it names. *)
LEMMA WorldSplit ==
  ASSUME NEW prg, NEW S, Legal(prg, S), NEW c \in 1 .. Len(prg), NEW start \in Int, NEW stride \in Int,
         NEW size, NEW axis, prg[c] = SplitInto(0, start, stride, size, axis)
  PROVE  /\ prg[c].op = "SPLIT" /\ prg[c].axis = axis
         /\ S[c].pe_start = start /\ S[c].stride = stride /\ S[c].size = size
<1>1. /\ prg[c].op = "SPLIT" /\ prg[c].axis = axis /\ prg[c].team = 0
      /\ prg[c].start = start /\ prg[c].stride = stride /\ prg[c].size = size
  BY DEF SplitInto
<1>2. LegalSplit(prg, S, c) /\ S[0] = world
  BY <1>1, Legality
<1>3. /\ S[c].size = prg[c].size /\ S[c].pe_start = get_pe_in_world(S[0], prg[c].start)
      /\ S[c].stride = prg[c].stride * S[0].stride
  BY <1>1, <1>2 DEF LegalSplit
<1>4. get_pe_in_world(world, start) = 0 + 1 * start /\ world.stride = 1
  BY DEF world, get_pe_in_world
<1>5. 0 + 1 * start = start /\ stride * 1 = stride
  OBVIOUS
<1> QED
  BY <1>1, <1>2, <1>3, <1>4, <1>5

(* The teams that a split_2d, called last, leaves with a PE *)
LEMMA GridTeams ==
  ASSUME NEW prg, NEW S, Legal(prg, S), NEW m \in Nat, NEW x \in Nat \ {0}, EndsInGrid(prg, m, x),
         NEW p \in Ranks
  PROVE  \E a, b \in Alive(prg, S, p, Len(prg)) :
           /\ prg[a].axis = "x" /\ prg[b].axis = "y" /\ PEs(S[a]) \cap PEs(S[b]) = {p}
           /\ \A c \in Alive(prg, S, p, Len(prg)) :
                (prg[c].axis = "x" => c = a) /\ (prg[c].axis = "y" => c = b)
<1>1. PICK w \in 1 .. nRanks : \E r \in Nat : Grid(prg, m, r, w)
  BY GridCalls
<1>2. PICK r \in Nat : Grid(prg, m, r, w)
  BY <1>1
<1>2a. r = (nRanks + w - 1) \div w /\ Len(prg) = m + r + w
  BY <1>2 DEF Grid
<1>3. w \in Nat \ {0} /\ nRanks \in Nat \ {0}
  BY TeamsAssumption
<1>4. ASSUME NEW i \in 1 .. r
      PROVE  /\ m + i \in 1 .. Len(prg) /\ prg[m + i].op = "SPLIT" /\ prg[m + i].axis = "x"
             /\ \A q \in PEs(S[m + i]) : q \div w = i - 1
             /\ \A q \in Ranks : q \div w = i - 1 => q \in PEs(S[m + i])
  <2>1. m + i \in 1 .. Len(prg) /\ (i - 1) * w \in Int /\ i \in Int
    BY <1>2a, <1>3
  <2>2. /\ prg[m + i].op = "SPLIT" /\ prg[m + i].axis = "x"
        /\ S[m + i].pe_start = (i - 1) * w /\ S[m + i].stride = 1
        /\ S[m + i].size = IF i * w <= nRanks THEN w ELSE nRanks % w
    <3>1. prg[m + i] = SplitInto(0, (i - 1) * w, 1,
                                 IF i * w <= nRanks THEN w ELSE nRanks % w, "x")
      BY <1>2 DEF Grid
    <3> QED
      BY <2>1, <3>1, WorldSplit
  <2> QED
    BY <2>1, <2>2, RowPEs
<1>5. ASSUME NEW j \in 1 .. w
      PROVE  /\ m + r + j \in 1 .. Len(prg) /\ prg[m + r + j].op = "SPLIT" /\ prg[m + r + j].axis = "y"
             /\ \A q \in PEs(S[m + r + j]) : q % w = j - 1
             /\ \A q \in Ranks : q % w = j - 1 => q \in PEs(S[m + r + j])
  <2>1. m + r + j \in 1 .. Len(prg) /\ j - 1 \in Int /\ w \in Int
    BY <1>2a, <1>3
  <2>2. /\ prg[m + r + j].op = "SPLIT" /\ prg[m + r + j].axis = "y"
        /\ S[m + r + j].pe_start = j - 1 /\ S[m + r + j].stride = w
        /\ S[m + r + j].size = nRanks \div w + IF j <= nRanks % w THEN 1 ELSE 0
    <3>1. prg[m + r + j] = SplitInto(0, j - 1, w,
                               nRanks \div w + IF j <= nRanks % w THEN 1 ELSE 0, "y")
      BY <1>2 DEF Grid
    <3> QED
      BY <2>1, <3>1, WorldSplit
  <2> QED
    BY <2>1, <2>2, ColumnPEs
<1>6. \A c \in 1 .. Len(prg) : \/ c \in 1 .. m
                               \/ \E i \in 1 .. r : c = m + i
                               \/ \E j \in 1 .. w : c = m + r + j
  <2> SUFFICES ASSUME NEW c \in 1 .. Len(prg)
               PROVE  \/ c \in 1 .. m
                      \/ \E i \in 1 .. r : c = m + i
                      \/ \E j \in 1 .. w : c = m + r + j
    OBVIOUS
  <2>1. c \in Int /\ c >= 1 /\ c <= m + r + w
    BY <1>2a, <1>3
  <2>2. CASE c <= m
    BY <2>1, <2>2
  <2>3. CASE c > m /\ c <= m + r
    <3>1. c - m \in 1 .. r /\ c = m + (c - m)
      BY <2>1, <2>3
    <3> QED
      BY <3>1
  <2>4. CASE c > m + r
    <3>1. c - (m + r) \in 1 .. w /\ c = m + r + (c - (m + r))
      BY <1>3, <2>1, <2>4
    <3> QED
      BY <3>1
  <2> QED
    BY <2>1, <2>2, <2>3, <2>4
<1>7. PICK i \in 1 .. r, j \in 1 .. w : p \div w = i - 1 /\ p % w = j - 1
  <2>1. p \in 0 .. nRanks - 1
    BY DEF Ranks
  <2>2. (p \div w) + 1 \in 1 .. r /\ (p % w) + 1 \in 1 .. w
    BY <1>2a, <1>3, <2>1, GridPlaces
  <2>3. p \div w \in Int /\ p % w \in Int
    BY <1>3, <2>1, DivMod
  <2>4. ((p \div w) + 1) - 1 = p \div w /\ ((p % w) + 1) - 1 = p % w
    BY <2>3
  <2> QED
    BY <2>2, <2>4
<1>8. PICK a, b : a = m + i /\ b = m + r + j
  OBVIOUS
<1>9. \A d \in m + 1 .. Len(prg) : prg[d].op = "SPLIT"
  <2> SUFFICES ASSUME NEW d \in m + 1 .. Len(prg) PROVE prg[d].op = "SPLIT"
    OBVIOUS
  <2>1. d \in 1 .. Len(prg) /\ d \notin 1 .. m
    BY <1>2a, <1>3
  <2> QED
    BY <1>4, <1>5, <1>6, <2>1
<1>10. a \in Alive(prg, S, p, Len(prg)) /\ b \in Alive(prg, S, p, Len(prg))
  <2>1. \A c \in m + 1 .. Len(prg) : \A d \in c + 1 .. Len(prg) : ~Destroys(prg, d, c)
    <3>1. \A c \in m + 1 .. Len(prg) : \A d \in c + 1 .. Len(prg) : d \in m + 1 .. Len(prg)
      BY <1>2a, <1>3
    <3> QED
      BY <1>9, <3>1 DEF Destroys
  <2>2. a \in m + 1 .. Len(prg) /\ b \in m + 1 .. Len(prg)
    BY <1>2a, <1>3, <1>8
  <2>3. /\ a \in 1 .. Len(prg) /\ prg[a].op = "SPLIT" /\ p \in PEs(S[a])
        /\ b \in 1 .. Len(prg) /\ prg[b].op = "SPLIT" /\ p \in PEs(S[b])
    BY <1>4, <1>5, <1>7, <1>8
  <2> QED
    BY <2>1, <2>2, <2>3 DEF Alive
<1>11. ASSUME NEW c \in Alive(prg, S, p, Len(prg))
       PROVE  (prg[c].axis = "x" => c = a) /\ (prg[c].axis = "y" => c = b)
  <2>1. c \in 1 .. Len(prg) /\ prg[c].op = "SPLIT" /\ p \in PEs(S[c])
    BY DEF Alive
  <2>2. CASE c \in 1 .. m
    <3>1. prg[c].axis \notin {"x", "y"}
      BY <2>1, <2>2 DEF EndsInGrid
    <3> QED
      BY <3>1
  <2>3. ASSUME NEW k \in 1 .. r, c = m + k
        PROVE  c = a /\ prg[c].axis = "x"
    <3>1. p \div w = k - 1 /\ prg[c].axis = "x"
      BY <1>4, <2>1, <2>3
    <3>2. k = i
      BY <1>7, <3>1
    <3> QED
      BY <1>8, <2>3, <3>1, <3>2
  <2>4. ASSUME NEW k \in 1 .. w, c = m + r + k
        PROVE  c = b /\ prg[c].axis = "y"
    <3>1. p % w = k - 1 /\ prg[c].axis = "y"
      BY <1>5, <2>1, <2>4
    <3>2. k = j
      BY <1>3, <1>7, <3>1
    <3> QED
      BY <1>8, <2>4, <3>1, <3>2
  <2>5. "x" # "y"
    OBVIOUS
  <2> QED
    BY <1>6, <2>1, <2>2, <2>3, <2>4, <2>5
<1>12. PEs(S[a]) \cap PEs(S[b]) = {p}
  <2>1. p \in PEs(S[a]) /\ p \in PEs(S[b])
    BY <1>10 DEF Alive
  <2>2. ASSUME NEW q, q \in PEs(S[a]), q \in PEs(S[b]) PROVE q = p
    <3>1. PEs(S[a]) \subseteq Ranks
      BY <1>4, <1>8, Legality
    <3>2. q \in 0 .. nRanks - 1 /\ p \in 0 .. nRanks - 1
      BY <2>2, <3>1 DEF Ranks
    <3>3. q \div w = p \div w /\ q % w = p % w
      BY <1>4, <1>5, <1>7, <1>8, <2>2
    <3>4. p = w * (p \div w) + (p % w) /\ q = w * (q \div w) + (q % w)
      BY <1>3, <3>2, DivMod
    <3> QED
      BY <3>3, <3>4
  <2> QED
    BY <2>1, <2>2
<1>13. prg[a].axis = "x" /\ prg[b].axis = "y"
  BY <1>4, <1>5, <1>8
<1> QED
  BY <1>10, <1>11, <1>12, <1>13

(* split_2d leaves every PE in one row and in one column, which meet there *)
(* and nowhere else: for every number of PEs and every width of the rows.  *)
THEOREM RowsAndColumns ==
  ASSUME LegalPrograms, GridPrograms PROVE Spec => []OneTeamPerAxis
<1>1. TeamsInvariant => OneTeamPerAxis
  <2> SUFFICES ASSUME TeamsInvariant, NEW p \in Ranks, ~Calling(p), Splits2d
               PROVE  \E x \in Axis(p, "x"), y \in Axis(p, "y") :
                        Axis(p, "x") = {x} /\ Axis(p, "y") = {y} /\ PEs(x) \cap PEs(y) = {p}
    BY DEF OneTeamPerAxis
  <2>1. PICK prg \in Programs : \E S, X : System(prg, S, X)
    BY DEF TeamsInvariant
  <2>2. PICK S, X : System(prg, S, X)
    BY <2>1
  <2>3. Legal(prg, S) /\ Books(prg, S, p) /\ prog = prg
    BY <2>2, InSystem
  <2>4. returned[p] = Len(prg)
    <3>1. Len(prg) \in Nat /\ returned[p] \in 0 .. Len(prg) /\ ~(returned[p] + 1 <= Len(prg))
      BY <2>3, Legality DEF Books, Calling, Call
    <3> QED
      BY <3>1
  <2>5. \E m \in Nat, x \in Nat \ {0} : EndsInGrid(prg, m, x)
    BY <2>3 DEF GridPrograms, Splits2d
  <2>6. PICK m \in Nat, x \in Nat \ {0} : EndsInGrid(prg, m, x)
    BY <2>5
  <2>7. PICK A : A = Alive(prg, S, p, Len(prg))
    OBVIOUS
  <2>8. \E a, b \in Alive(prg, S, p, Len(prg)) :
           /\ prg[a].axis = "x" /\ prg[b].axis = "y" /\ PEs(S[a]) \cap PEs(S[b]) = {p}
           /\ \A c \in Alive(prg, S, p, Len(prg)) :
                (prg[c].axis = "x" => c = a) /\ (prg[c].axis = "y" => c = b)
    BY <2>3, <2>6, GridTeams
  <2>8a. PICK a, b \in A :
           /\ prg[a].axis = "x" /\ prg[b].axis = "y" /\ PEs(S[a]) \cap PEs(S[b]) = {p}
           /\ \A c \in A : (prg[c].axis = "x" => c = a) /\ (prg[c].axis = "y" => c = b)
    BY <2>7, <2>8
  <2>9. teams_[p] = {S[c] : c \in A} /\ \A c \in A : S[c].call = c
    BY <2>3, <2>4, <2>7, OwnSlots DEF Books
  <2>10. Axis(p, "x") = {S[a]} /\ Axis(p, "y") = {S[b]}
    BY <2>3, <2>8a, <2>9 DEF Axis
  <2> QED
    BY <2>8a, <2>10
<1> QED
  BY <1>1, TeamsInductive, PTL

----------------------------------------------------------------------------
(* Who ends *)

(* The timeout has ended a rank before its first exchange. *)
Broken == timed /\ \E k \in Ranks : pc[k] = "aborted" /\ op[k] = "NONE"

(* A split has left q without a slot, or an earlier one another rank. *)
Stranded(q) == Slotless(q) \/ \E r \in Ranks : Slotless(r) /\ Call(r) < Call(q)

Ended == \A q \in Ranks : pc[q] = "aborted" => Broken \/ Stranded(q)

SameRank(q) ==
  /\ pc'[q] = pc[q] /\ op'[q] = op[q] /\ group'[q] = group[q] /\ at'[q] = at[q]
  /\ data'[q] = data[q] /\ returned'[q] = returned[q]

(* The slots free at all members of q's team are those of q's last exchange.*)
LEMMA NoSlotStays ==
  ASSUME NEW q, NoCommonSlot(q), group'[q] = group[q], at'[q] = at[q], data'[q] = data[q],
         returned'[q] = returned[q], prog' = prog
  PROVE  NoCommonSlot(q)' /\ Call(q)' = Call(q)
<1>1. Size(q)' = Size(q) /\ Call(q)' = Call(q)
  BY DEF Size, Call
<1>2. CommonFree(q)' = CommonFree(q)
  BY <1>1 DEF CommonFree
<1>3. Steps(q)' = Steps(q) /\ Op(q)' = Op(q) /\ Calling(q)' = Calling(q)
  BY <1>1 DEF Steps, Op, Calling
<1> QED
  BY <1>1, <1>2, <1>3 DEF NoCommonSlot

(* A rank that nothing changes stays without a slot. *)
LEMMA SlotlessStays ==
  ASSUME NEW q, Slotless(q), SameRank(q), prog' = prog
  PROVE  Slotless(q)' /\ Call(q)' = Call(q)
BY NoSlotStays DEF Slotless, SameRank

(* What a rank has ended for stays so when the ranks that have ended do. *)
LEMMA StrandedStays ==
  ASSUME NEW q \in Ranks, Stranded(q), Call(q)' = Call(q), prog' = prog,
         \A r \in Ranks : pc[r] = "aborted" => SameRank(r)
  PROVE  Stranded(q)'
<1>1. \A r \in Ranks : Slotless(r) => Slotless(r)' /\ Call(r)' = Call(r)
  BY SlotlessStays DEF Slotless
<1> QED
  BY <1>1 DEF Stranded

(* Rank p moves, and if it ends it has a reason to. *)
LEMMA EndedKept ==
  ASSUME Ended, NEW p \in Ranks, pc[p] # "aborted", timed' = timed, prog' = prog,
         \A q \in Ranks : q # p => SameRank(q),
         pc'[p] = "aborted" => Broken \/ (timed /\ op'[p] = "NONE") \/ Stranded(p)'
  PROVE  Ended'
<1>1. Broken => Broken'
  BY DEF Broken, SameRank
<1>2. pc'[p] = "aborted" => Broken' \/ Stranded(p)'
  BY <1>1 DEF Broken
<1>3. ASSUME NEW q \in Ranks, q # p, pc'[q] = "aborted" PROVE Broken' \/ Stranded(q)'
  <2>1. SameRank(q) /\ (Broken \/ Stranded(q))
    BY <1>3 DEF Ended, SameRank
  <2>2. Call(q)' = Call(q)
    BY <2>1 DEF Call, SameRank
  <2> QED
    BY <1>1, <2>1, <2>2, StrandedStays
<1> QED
  BY <1>2, <1>3 DEF Ended

(* A rank may end if the timeout has ended one, if it finds no slot, or if *)
(* an earlier split has left another without.                              *)
LEMMA AbortEnded ==
  ASSUME NEW X, Invariant(X), Ended, NEW p \in Ranks, Aborts(p), prog' = prog,
         \/ Broken \/ (timed /\ op[p] = "NONE") \/ NoCommonSlot(p)
         \/ \E r \in Ranks : Slotless(r) /\ Call(r) < Call(p)
  PROVE  Ended'
<1>1. /\ pc[p] # "aborted" /\ pc' = [pc EXCEPT ![p] = "aborted"] /\ timed' = timed
      /\ op' = op /\ group' = group /\ at' = at /\ data' = data /\ returned' = returned
  BY DEF Aborts, exchange
<1>2. DOMAIN pc = Ranks
  BY DEF Invariant, Delivering, Shapes
<1>3. \A q \in Ranks : q # p => SameRank(q)
  BY <1>1, <1>2 DEF SameRank
<1>4. NoCommonSlot(p) => Stranded(p)'
  <2>1. NoCommonSlot(p) => NoCommonSlot(p)'
    BY <1>1, NoSlotStays
  <2> QED
    BY <1>1, <1>2, <2>1 DEF Stranded, Slotless
<1>5. (\E r \in Ranks : Slotless(r) /\ Call(r) < Call(p)) => Stranded(p)'
  <2>1. Call(p)' = Call(p)
    BY <1>1 DEF Call
  <2>2. \A r \in Ranks : pc[r] = "aborted" => SameRank(r)
    BY <1>1, <1>3
  <2> QED
    BY <2>1, <2>2, StrandedStays DEF Stranded
<1> QED
  BY <1>1, <1>3, <1>4, <1>5, EndedKept

(* A rank ends for want of a slot after all ranks have begun their first   *)
(* call.                                                                   *)
LEMMA StrandedLate ==
  ASSUME NEW prg, NEW S, NEW X, System(prg, S, X), NEW q \in Ranks, Stranded(q)
  PROVE  \A p \in Ranks : op[p] # "NONE"
<1>1. PICK r \in Ranks : Slotless(r)
  BY DEF Stranded
<1>2. /\ Legal(prg, S) /\ prog = prg /\ Invariant(X) /\ Books(prg, S, r)
  BY InSystem
<1>3. prg[1].op = "ALLGATHER" /\ returned[r] \in 0 .. Len(prg) /\ Len(prg) \in Nat
  BY <1>2, Legality DEF Books
<1>4. prg[returned[r] + 1].op = "SPLIT"
  BY <1>1, <1>2 DEF Slotless, NoCommonSlot, Op, Call
<1>5. returned[r] > 0
  <2>1. returned[r] # 0
    BY <1>3, <1>4
  <2> QED
    BY <1>3, <2>1
<1>6. AllIn
  BY <1>2 DEF Invariant
<1> QED
  BY <1>5, <1>6 DEF AllIn

(* A rank has taken all the steps of the exchanges of its earlier calls,   *)
(* and one without a slot has taken those of the last, too.                *)
LEMMA StrandedThrough ==
  ASSUME NEW prg, NEW S, NEW X, System(prg, S, X), NEW q \in Ranks,
         NEW c \in DOMAIN X, q \in MembersOf(X[c].group), NEW k \in 1 .. StepsOf(X[c]),
         c < Call(q) \/ (c = Call(q) /\ Slotless(q))
  PROVE  Passed(q, c, k)
<1>1. DOMAIN X \subseteq 1 .. Len(prg) /\ Invariant(X) /\ IsPlan(X) /\ Books(prg, S, q)
  BY InSystem
<1>2. returned[q] \in Nat /\ c \in Nat
  BY <1>1, InSystem, Legality DEF Books
<1>3. CASE c < Call(q)
  <2>1. c <= returned[q]
    BY <1>2, <1>3 DEF Call
  <2> QED
    BY <2>1 DEF Passed
<1>4. CASE c = Call(q) /\ Slotless(q)
  <2>1. op[q] # "NONE" /\ Active(q)
    BY <1>4, StrandedLate DEF Active, Slotless, Stranded
  <2>2. group[q] = X[c].group /\ c \in DOMAIN X
    BY <1>1, <1>4, <2>1 DEF InCall, Invariant, Delivering
  <2>3. at[q] > Steps(q)
    BY <1>4 DEF Slotless, NoCommonSlot
  <2>4. Steps(q) = StepsOf(X[c]) /\ StepsOf(X[c]) \in Int
    <3>1. X[c].group \in Seq(Ranks)
      BY <1>1 DEF IsPlan, Groups
    <3> QED
      BY <2>2, <3>1 DEF Steps, Size, StepsOf
  <2>5. k < at[q]
    <3>1. at[q] \in Int
      BY <1>1, <1>4, <2>1, <2>4 DEF InCall, Invariant, Delivering
    <3> QED
      BY <2>3, <2>4, <3>1
  <2> QED
    BY <1>4, <2>1, <2>5 DEF Passed
<1> QED
  BY <1>3, <1>4

(* In an exchange whose steps its peer has not taken, a rank is past the   *)
(* split that has left the peer, or another, without a slot.               *)
LEMMA Later ==
  ASSUME NEW prg, NEW S, NEW X, System(prg, S, X), NEW p \in Ranks, NEW q \in Ranks,
         Stranded(q), NEW c \in DOMAIN X, c = Call(p), q \in MembersOf(X[c].group),
         NEW k \in 1 .. StepsOf(X[c]), ~Passed(q, c, k)
  PROVE  \E r \in Ranks : Slotless(r) /\ Call(r) < Call(p)
<1>1. \A r \in Ranks : Call(r) \in Nat
  <2> SUFFICES ASSUME NEW r \in Ranks PROVE Call(r) \in Nat
    OBVIOUS
  <2>1. Books(prg, S, r) /\ Len(prg) \in Nat
    BY InSystem, Legality
  <2> QED
    BY <2>1 DEF Books, Call
<1>2. ~(c < Call(q)) /\ ~(c = Call(q) /\ Slotless(q))
  BY StrandedThrough
<1>3. CASE Slotless(q)
  BY <1>1, <1>2, <1>3
<1>4. CASE \E r \in Ranks : Slotless(r) /\ Call(r) < Call(q)
  BY <1>1, <1>2, <1>4
<1> QED
  BY <1>3, <1>4 DEF Stranded

(* Who waits in an exchange for a rank ended for want of a slot is past    *)
(* the split that ended one.                                               *)
LEMMA NotStrandedPeer ==
  ASSUME NEW prg, NEW S, NEW X, System(prg, S, X), NEW p \in Ranks, FindsPeerGone(p),
         NEW q \in Ranks, pc[q] = "aborted", Stranded(q),
         \/ Sending(p) /\ q = Socket(p)[2]
         \/ Receiving(p) /\ ClosedByPeer(Socket(p)) /\ q = Socket(p)[1]
  PROVE  \E r \in Ranks : Slotless(r) /\ Call(r) < Call(p)
<1>1. IsPlan(X) /\ Invariant(X) /\ Delivering(X)
  BY InSystem DEF Invariant
<1>2. PICK c, l, h : c = Call(p) /\ l = at[p] /\ h = Socket(p)
  OBVIOUS
<1>3. ~Passed(p, c, l)
  <2>1. at[p] \in Nat /\ returned[p] \in Nat
    <3>1. Exchanging(p)
      BY DEF FindsPeerGone
    <3> QED
      BY <1>1, <3>1, ExchangingStep DEF Delivering, Shapes
  <2> QED
    BY <1>2, <2>1 DEF Passed, Call
<1>4. CASE Sending(p) /\ q = Socket(p)[2]
  <2>1. h \in Chan /\ h[1] = p /\ SendsOn(X, h, c, l)
    BY <1>1, <1>2, <1>4, SendSocket DEF Delivering
  <2>2. PICK k : Paired(X, h, c, l, k)
    BY <1>1, <2>1, SendIsPaired
  <2>3. c \in DOMAIN X /\ q \in MembersOf(X[c].group) /\ k \in 1 .. StepsOf(X[c])
    BY <1>1, <1>2, <1>4, <2>1, <2>2, OnPlan DEF Paired
  <2>4. Passed(h[2], c, k) => Passed(h[1], c, l)
    BY <1>1, <2>1, <2>2 DEF Causal, Delivering
  <2>5. ~Passed(q, c, k)
    BY <1>2, <1>3, <1>4, <2>1, <2>4
  <2> QED
    BY <1>2, <2>3, <2>5, Later
<1>5. CASE Receiving(p) /\ ClosedByPeer(Socket(p)) /\ q = Socket(p)[1]
  <2>1. h \in Chan /\ h[2] = p /\ RecvsOn(X, h, c, l)
    BY <1>1, <1>2, <1>5, RecvSocket DEF Delivering
  <2>2. PICK k : Paired(X, h, c, k, l)
    BY <1>1, <2>1, RecvIsPaired
  <2>3. /\ c \in DOMAIN X /\ q \in MembersOf(X[c].group) /\ k \in 1 .. StepsOf(X[c])
        /\ SendsOn(X, h, c, k) /\ <<c, k>> \in Pairs
    BY <1>1, <1>2, <1>5, <2>1, <2>2, OnPlan DEF Paired
  <2> SUFFICES ASSUME Passed(q, c, k) PROVE FALSE
    BY <1>2, <2>3, Later
  <2>4. Passed(h[1], c, k)
    BY <1>2, <1>5
  <2>5. ~Received(X, h, c, k)
    <3> SUFFICES ASSUME NEW i, Paired(X, h, c, k, i), Passed(p, c, i) PROVE FALSE
      BY <2>1 DEF Received
    <3>1. i = l
      BY <1>1, <2>1, <2>2, PairsInOrder
    <3> QED
      BY <1>3, <3>1
  <2>6. <<c, k>> \in Pending(X, h)
    BY <2>3, <2>4, <2>5 DEF Pending
  <2>7. h \in DOMAIN wire
    BY <1>1, <2>1, <2>6 DEF Wires, Delivering
  <2>8. PICK s : Carries(X, h, wire[h], s)
    BY <1>1, <2>1, <2>7 DEF Wires, Delivering
  <2>9. Len(wire[h]) # 0
    <3>1. s \in Seq(Pairs) /\ Len(s) = Len(wire[h]) /\ \E i \in 1 .. Len(s) : s[i] = <<c, k>>
      BY <2>6, <2>8 DEF Carries, Lists
    <3> QED
      BY <3>1
  <2>10. wire[h] = <<>>
    BY <1>2, <1>5 DEF ClosedByPeer
  <2> QED
    BY <2>9, <2>10
<1> QED
  BY <1>4, <1>5

(* A step that changes no rank. *)
LEMMA EndedSame ==
  ASSUME Ended, \A q \in Ranks : SameRank(q), timed' = timed, prog' = prog
  PROVE  Ended'
<1>1. Broken => Broken'
  BY DEF Broken, SameRank
<1>2. ASSUME NEW q \in Ranks, pc'[q] = "aborted" PROVE Broken' \/ Stranded(q)'
  <2>1. SameRank(q) /\ (Broken \/ Stranded(q))
    BY <1>2 DEF Ended, SameRank
  <2>2. Call(q)' = Call(q)
    BY <2>1 DEF Call, SameRank
  <2> QED
    BY <1>1, <2>1, <2>2, StrandedStays
<1> QED
  BY <1>2 DEF Ended

(* A rank that a call, or the making of its connections, moves on *)
LEMMA EndedMoves ==
  ASSUME NEW X, Invariant(X), Ended, NEW p \in Ranks, timed' = timed, prog' = prog, NEW to,
         pc[p] # "aborted", to # "aborted", pc' = [pc EXCEPT ![p] = to],
         \A q \in Ranks : q # p => /\ op'[q] = op[q] /\ group'[q] = group[q] /\ at'[q] = at[q]
                                   /\ data'[q] = data[q] /\ returned'[q] = returned[q]
  PROVE  Ended'
<1>1. DOMAIN pc = Ranks
  BY DEF Invariant, Delivering, Shapes
<1>2. pc'[p] # "aborted" /\ \A q \in Ranks : q # p => SameRank(q)
  BY <1>1 DEF SameRank
<1> QED
  BY <1>2, EndedKept

(* A rank that ends before its first exchange does so after a timeout. *)
LEMMA EndedEstablish ==
  ASSUME NEW prg, NEW S, NEW X, System(prg, S, X), Ended, NEW p \in Ranks, EstablishStep(p),
         prog' = prog
  PROVE  Ended'
<1>1. Invariant(X)
  BY InSystem
<1>2. CASE TimeOut(p)
  <2>1. timed /\ Aborts(p) /\ op[p] = "NONE"
    BY <1>1, <1>2 DEF TimeOut, Waits, Early, Invariant, Delivering, Stages
  <2> QED
    BY <1>1, <2>1, AbortEnded
<1>3. CASE FindsRootGone(p)
  <2>1. Aborts(p) /\ op[p] = "NONE" /\ pc[0] = "aborted" /\ 0 \in Ranks
    <3>1. pc[p] \in Early /\ Dead(Root) /\ Aborts(p)
      BY <1>3 DEF FindsRootGone, ClosedByPeer, Early
    <3>2. op[p] = "NONE"
      BY <1>1, <3>1 DEF Invariant, Delivering, Stages
    <3> QED
      BY <3>1, <3>2, TeamsAssumption DEF Dead, Ranks
  <2>2. ~Stranded(0)
    BY <2>1, StrandedLate
  <2>3. Broken
    BY <2>1, <2>2 DEF Ended
  <2> QED
    BY <1>1, <2>1, <2>3, AbortEnded
<1>4. CASE \/ CreateRoot(p) \/ Listen(p) \/ ConnectRoot(p) \/ SendInfo(p)
           \/ AcceptRoot(p) \/ GetNext(p) \/ ConnectNext(p) \/ AcceptPrev(p)
  <2>1. /\ timed' = timed /\ UNCHANGED <<exchange, returned>>
        /\ \E from, to \in Early \cup {"ready"} : Goto(p, from, to)
    BY <1>4 DEF CreateRoot, Listen, ConnectRoot, SendInfo, AcceptRoot, GetNext, ConnectNext,
                AcceptPrev, Early
  <2>2. PICK from \in Early \cup {"ready"}, to \in Early \cup {"ready"} : Goto(p, from, to)
    BY <2>1
  <2>3. pc[p] # "aborted" /\ to # "aborted" /\ pc' = [pc EXCEPT ![p] = to]
    BY <2>2 DEF Goto, Early
  <2>4. op' = op /\ group' = group /\ at' = at /\ data' = data /\ returned' = returned
    BY <2>1 DEF exchange
  <2> QED
    BY <1>1, <2>1, <2>3, <2>4, EndedMoves
<1> QED
  BY <1>2, <1>3, <1>4 DEF EstablishStep

(* The root thread finds a rank gone only after a timeout. *)
LEMMA EndedRoot ==
  ASSUME NEW prg, NEW S, NEW X, System(prg, S, X), Ended, RootStep, prog' = prog
  PROVE  Ended'
<1>1. Invariant(X)
  BY InSystem
<1>2. CASE RootAborts
  <2>1. Aborts(0) /\ 0 \in Ranks /\ rootPc # "done"
    BY <1>2, TeamsAssumption DEF RootAborts, Ranks
  <2>2. peer \in Int /\ RootThread /\ \A q \in Ranks : Link(q)
    BY <1>1, PeerInt
  <2>3. PICK r \in Ranks : pc[r] = "aborted"
    <3>1. CASE rootPc = "info" /\ ClosedByPeer(rootSock)
      <4>1. PICK r \in Ranks : rootSock = Info(r)
        BY <2>2, <3>1 DEF RootThread
      <4>2. rootSock[1] = r /\ Dead(rootSock[1])
        BY <3>1, <4>1 DEF Info, ClosedByPeer
      <4>3. r # Root
        BY TeamsAssumption DEF Root, Ranks
      <4> QED
        BY <4>2, <4>3 DEF Dead
    <3>2. CASE rootPc = "send" /\ Dead(peer)
      <4>1. peer \in Ranks /\ peer # Root
        BY <2>1, <2>2, TeamsAssumption DEF RootThread, Root, Ranks
      <4> QED
        BY <3>2, <4>1 DEF Dead
    <3> QED
      BY <1>2, <3>1, <3>2 DEF RootAborts
  <2>4. ~Stranded(r)
    <3> SUFFICES ASSUME Stranded(r) PROVE FALSE
      OBVIOUS
    <3>1. nRanks - 1 \in Ranks
      BY TeamsAssumption DEF Ranks
    <3>2. Knows(nRanks - 1)
      BY <3>1, StrandedLate DEF Knows
    <3>3. nRanks - 1 < peer
      BY <2>2, <3>1, <3>2 DEF Link
    <3>4. peer < nRanks
      BY <2>1, <2>2 DEF RootThread
    <3> QED
      BY <2>2, <3>3, <3>4, TeamsAssumption
  <2>5. Broken
    BY <2>3, <2>4 DEF Ended
  <2> QED
    BY <1>1, <2>1, <2>5, AbortEnded
<1>3. CASE RootAccept \/ RootCheckIn \/ RootConnect \/ RootSend
  <2>1. timed' = timed /\ pc' = pc /\ UNCHANGED <<exchange, returned>>
    BY <1>3 DEF RootAccept, RootCheckIn, RootConnect, RootSend, thread
  <2>2. \A q \in Ranks : SameRank(q)
    BY <2>1 DEF SameRank, exchange
  <2> QED
    BY <2>1, <2>2, EndedSame
<1> QED
  BY <1>2, <1>3 DEF RootStep

(* Who finds a peer gone in an exchange finds one that a timeout has led   *)
(* to end, or that an earlier split has.                                   *)
LEMMA EndedExchange ==
  ASSUME NEW prg, NEW S, NEW X, System(prg, S, X), Ended, NEW p \in Ranks, ExchangeStep(p),
         prog' = prog
  PROVE  Ended'
<1>1. IsPlan(X) /\ Invariant(X) /\ Delivering(X) /\ Shapes
  BY InSystem DEF Invariant, Delivering
<1>2. CASE FindsPeerGone(p)
  <2>1. Aborts(p)
    BY <1>2 DEF FindsPeerGone
  <2>2. PICK q \in Ranks : /\ pc[q] = "aborted"
                           /\ \/ Sending(p) /\ q = Socket(p)[2]
                              \/ Receiving(p) /\ ClosedByPeer(Socket(p)) /\ q = Socket(p)[1]
    <3>0. \A r \in Ranks : r # Root
      BY TeamsAssumption DEF Root, Ranks
    <3>1. CASE Sending(p) /\ Dead(Socket(p)[2])
      <4>1. Socket(p)[2] \in Ranks
        BY <1>1, <3>1, SendSocket DEF Delivering, Chan
      <4> QED
        BY <3>0, <3>1, <4>1 DEF Dead
    <3>2. CASE Receiving(p) /\ ClosedByPeer(Socket(p))
      <4>1. Socket(p)[1] \in Ranks
        BY <1>1, <3>2, RecvSocket DEF Delivering, Chan
      <4> QED
        BY <3>0, <3>2, <4>1 DEF Dead, ClosedByPeer
    <3> QED
      BY <1>2, <3>1, <3>2 DEF FindsPeerGone
  <2>3. Broken \/ \E r \in Ranks : Slotless(r) /\ Call(r) < Call(p)
    BY <1>2, <2>2, NotStrandedPeer DEF Ended
  <2> QED
    BY <1>1, <2>1, <2>3, AbortEnded
<1>3. CASE OpenPeer(p) \/ SendBlock(p) \/ AcceptPeer(p) \/ RecvBlock(p)
  <2>1. /\ pc[p] = "exchange" /\ pc' = pc /\ op' = op /\ group' = group /\ returned' = returned
        /\ timed' = timed
    BY <1>3 DEF OpenPeer, SendBlock, AcceptPeer, RecvBlock, Sending, Receiving, Exchanging, fixed
  <2>2. \A q \in Ranks : q # p => at'[q] = at[q] /\ data'[q] = data[q]
    BY <1>1, <1>3 DEF OpenPeer, SendBlock, AcceptPeer, RecvBlock, With, Shapes
  <2>3. \A q \in Ranks : q # p => SameRank(q)
    BY <2>1, <2>2 DEF SameRank
  <2>4. pc[p] # "aborted" /\ pc'[p] # "aborted"
    BY <2>1
  <2> QED
    BY <2>1, <2>3, <2>4, EndedKept
<1>4. CASE EndExchange(p)
  <2>1. /\ pc[p] # "aborted" /\ pc' = [pc EXCEPT ![p] = "over"] /\ op' = op /\ group' = group
        /\ returned' = returned /\ timed' = timed /\ at' = at
    BY <1>4 DEF EndExchange, Goto, fixed
  <2>2. \A q \in Ranks : q # p => data'[q] = data[q]
    BY <1>1, <1>4 DEF EndExchange, Shapes
  <2> QED
    BY <1>1, <2>1, <2>2, EndedMoves
<1> QED
  BY <1>2, <1>3, <1>4 DEF ExchangeStep

(* A rank that makes its next call, or returns from one *)
LEMMA EndedCalls ==
  ASSUME NEW prg, NEW S, NEW X, System(prg, S, X), Ended, NEW p \in Ranks,
         \/ SplitOutside(p) \/ SplitBegin(p) \/ SplitEnd(p) \/ Destroy(p)
         \/ CallBegin(p) \/ NotInGroup(p) \/ CallEnd(p)
  PROVE  Ended'
<1>1. Invariant(X) /\ Shapes
  BY InSystem DEF Invariant, Delivering
<1>2. CASE SplitOutside(p) \/ SplitEnd(p) \/ Destroy(p) \/ NotInGroup(p) \/ CallEnd(p)
  <2>1. /\ timed' = timed /\ prog' = prog /\ pc' = [pc EXCEPT ![p] = "ready"]
        /\ pc[p] \in {"ready", "over"} /\ UNCHANGED exchange /\ Returns(p)
    BY <1>2 DEF SplitOutside, SplitEnd, Destroy, NotInGroup, CallEnd, ReturnsAtOnce, Goto, net,
                teamVars
  <2>2. \A q \in Ranks : q # p => /\ op'[q] = op[q] /\ group'[q] = group[q] /\ at'[q] = at[q]
                                  /\ data'[q] = data[q] /\ returned'[q] = returned[q]
    BY <1>1, <2>1 DEF exchange, Returns, Shapes
  <2>3. pc[p] # "aborted"
    BY <2>1
  <2> QED
    BY <1>1, <2>1, <2>2, <2>3, EndedMoves
<1>3. CASE SplitBegin(p) \/ CallBegin(p)
  <2>1. /\ timed' = timed /\ prog' = prog /\ pc' = [pc EXCEPT ![p] = "exchange"]
        /\ pc[p] # "aborted" /\ returned' = returned
    BY <1>3 DEF SplitBegin, CallBegin, Goto, net, teamVars
  <2>2. \E what, g, b : /\ op' = [op EXCEPT ![p] = what] /\ group' = [group EXCEPT ![p] = g]
                        /\ at' = [at EXCEPT ![p] = 1] /\ data' = [data EXCEPT ![p] = b]
    <3>1. CASE SplitBegin(p)
      BY <3>1 DEF SplitBegin, Begins
    <3>2. CASE CallBegin(p)
      BY <3>2 DEF CallBegin, Begins
    <3> QED
      BY <1>3, <3>1, <3>2
  <2>3. \A q \in Ranks : q # p => /\ op'[q] = op[q] /\ group'[q] = group[q] /\ at'[q] = at[q]
                                  /\ data'[q] = data[q] /\ returned'[q] = returned[q]
    BY <1>1, <2>1, <2>2 DEF Shapes
  <2> QED
    BY <1>1, <2>1, <2>3, EndedMoves
<1> QED
  BY <1>2, <1>3

(* A split that finds no slot ends its caller. *)
LEMMA EndedSplit ==
  ASSUME NEW X, Invariant(X), Ended, NEW p \in Ranks, SplitAborts(p)
  PROVE  Ended'
<1>1. NoCommonSlot(p) /\ Aborts(p) /\ prog' = prog
  BY DEF SplitAborts, teamVars
<1> QED
  BY <1>1, AbortEnded

(* Every step keeps the reasons for which ranks have ended. *)
LEMMA EndedStep ==
  ASSUME NEW prg, NEW S, NEW X, System(prg, S, X), Ended, [Next]_vars
  PROVE  Ended'
<1>1. CASE UNCHANGED vars
  <2>1. timed' = timed /\ prog' = prog /\ \A q \in Ranks : SameRank(q)
    BY <1>1 DEF vars, bootstrapVars, exchange, SameRank
  <2> QED
    BY <2>1, EndedSame
<1>2. CASE RootStep /\ UNCHANGED teamVars
  BY <1>2, EndedRoot DEF teamVars
<1>3. ASSUME NEW p \in Ranks, Step(p) PROVE Ended'
  <2>1. CASE (EstablishStep(p) \/ ExchangeStep(p)) /\ UNCHANGED teamVars
    BY <2>1, EndedEstablish, EndedExchange DEF teamVars
  <2>2. CASE SplitAborts(p)
    <3>1. Invariant(X)
      BY InSystem
    <3> QED
      BY <2>2, <3>1, EndedSplit
  <2> QED
    BY <1>3, <2>1, <2>2, EndedCalls DEF Step
<1> QED
  BY <1>1, <1>2, <1>3 DEF Next, Spin

EndedInvariant == \E prg \in Programs : \E S, X : System(prg, S, X) /\ Ended

(* A timeout ends ranks only before any rank returns from its first        *)
(* exchange.  Afterwards a rank ends only in a split whose members have no *)
(* slot in common, or in a call after such a split: however many splits of *)
(* the program fail so, the calls before the first end nobody.             *)
THEOREM NobodyLeftBehind ==
  ASSUME LegalPrograms PROVE Spec => []AllOrNone
<1>1. Init => EndedInvariant
  <2> SUFFICES ASSUME Init PROVE EndedInvariant
    OBVIOUS
  <2>1. prog \in Programs
    BY DEF Init
  <2>2. PICK S : Legal(prog, S)
    BY <2>1 DEF LegalPrograms
  <2>3. PICK prg : prg = prog
    OBVIOUS
  <2>4. System(prg, S, Plan(prg, S))
    BY <2>2, <2>3, TeamsInit
  <2>5. Ended
    <3>1. \A q \in Ranks : pc[q] # "aborted"
      BY DEF Init, BootstrapInit
    <3> QED
      BY <3>1 DEF Ended
  <2> QED
    BY <2>1, <2>3, <2>4, <2>5 DEF EndedInvariant
<1>2. EndedInvariant /\ [Next]_vars => EndedInvariant'
  <2> SUFFICES ASSUME EndedInvariant, [Next]_vars PROVE EndedInvariant'
    OBVIOUS
  <2>1. PICK prg \in Programs : \E S, X : System(prg, S, X) /\ Ended
    BY DEF EndedInvariant
  <2>2. PICK S, X : System(prg, S, X) /\ Ended
    BY <2>1
  <2>3. System(prg, S, X)' /\ Ended'
    BY <2>2, TeamsStep, EndedStep
  <2> QED
    BY <2>3 DEF EndedInvariant
<1>3. EndedInvariant => AllOrNone
  <2> SUFFICES ASSUME EndedInvariant, NEW q \in Ranks, pc[q] = "aborted"
               PROVE  \/ timed /\ \A p \in Ranks : returned[p] = 0
                      \/ Stranded(q)
    BY DEF AllOrNone, Stranded
  <2>1. PICK prg \in Programs : \E S, X : System(prg, S, X) /\ Ended
    BY DEF EndedInvariant
  <2>2. PICK S, X : System(prg, S, X) /\ Ended
    BY <2>1
  <2>3. CASE Broken
    <3>1. AllIn /\ Shapes
      BY <2>2, InSystem DEF Invariant, Delivering
    <3>2. timed /\ ~\E p \in Ranks : returned[p] > 0
      BY <2>3, <3>1 DEF Broken, AllIn
    <3>3. \A p \in Ranks : returned[p] \in Nat
      BY <3>1 DEF Shapes
    <3> QED
      BY <3>2, <3>3
  <2> QED
    BY <2>2, <2>3 DEF Ended
<1> QED
  BY <1>1, <1>2, <1>3, PTL DEF Spec
=============================================================================
