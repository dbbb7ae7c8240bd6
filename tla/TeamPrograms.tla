---------------------------- MODULE TeamPrograms ----------------------------
(***************************************************************************)
(* The programs the theorems about Teams are for: those that use the team  *)
(* calls as OpenSHMEM lets them.  A layout S gives the team each split     *)
(* makes, so that what the PEs have to agree on is known from the program. *)
(***************************************************************************)
EXTENDS Teams

(* Lists of ranks without repetition *)
Groups == {g \in Seq(Ranks) : \A i, j \in 1 .. Len(g) : g[i] = g[j] => i = j}

Slots == NUM_RESERVED_TEAMS .. max_num_teams - 1
TeamRecords == [call : Nat, slot : Nat, pe_start : Nat, stride : Nat \ {0}, size : Nat \ {0}]

Destroys(prg, b, c) == prg[b].op = "DESTROY" /\ prg[b].team = c

(* The splits p has taken part in, in the first n calls, and whose teams   *)
(* have not been destroyed in them.                                        *)
Alive(prg, S, p, n) ==
  {c \in 1 .. n : /\ prg[c].op = "SPLIT" /\ p \in PEs(S[c])
                  /\ \A b \in c + 1 .. n : ~Destroys(prg, b, c)}

(* The slots no member of the team of call c has a team on when it is made *)
Common(prg, S, c) ==
  {s \in Slots : \A p \in PEs(S[c]) : \A b \in Alive(prg, S, p, c - 1) : S[b].slot # s}

(* The parent is the world or a team not destroyed yet, the new team lies  *)
(* inside it, and its members do not have all the teams they can have.     *)
LegalSplit(prg, S, c) ==
  LET t == prg[c].team
  IN /\ t \in 0 .. c - 1 /\ (t # 0 => prg[t].op = "SPLIT")
     /\ \A b \in t + 1 .. c - 1 : ~Destroys(prg, b, t)
     /\ prg[c].start \in Nat /\ prg[c].stride \in Nat \ {0} /\ prg[c].size \in Nat \ {0}
     /\ prg[c].start + prg[c].stride * (prg[c].size - 1) < S[t].size
     /\ S[c].call = c /\ S[c].size = prg[c].size
     /\ S[c].pe_start = get_pe_in_world(S[t], prg[c].start)
     /\ S[c].stride = prg[c].stride * S[t].stride
     /\ PEs(S[c]) \subseteq Ranks
     /\ \A p \in PEs(S[c]) :
          Cardinality({S[b] : b \in Alive(prg, S, p, c - 1)})
            < max_num_teams - NUM_RESERVED_TEAMS
     /\ Common(prg, S, c) # {} =>
          S[c].slot \in Common(prg, S, c) /\ \A s \in Common(prg, S, c) : S[c].slot <= s

(* A program begins with the exchange of addresses. *)
Legal(prg, S) ==
  /\ Len(prg) \in Nat \ {0} /\ DOMAIN prg = 1 .. Len(prg) /\ prg[1].op = "ALLGATHER"
  /\ S \in [0 .. Len(prg) -> TeamRecords] /\ S[0] = world
  /\ \A c \in 1 .. Len(prg) :
       /\ prg[c].op \in Exchanges \cup {"SPLIT", "DESTROY"}
       /\ prg[c].op \in Exchanges => prg[c].group \in Groups
       /\ prg[c].op = "ALLGATHER" => prg[c].group = World
       /\ prg[c].op = "SPLIT" => LegalSplit(prg, S, c)

(* The splits along the axes are those of one split_2d of the world, which *)
(* the program calls after m others and which is its last.                 *)
EndsInGrid(prg, m, x) ==
  LET grid == split_2d(0, nRanks, x)
  IN /\ Len(prg) = m + Len(grid) /\ \A i \in DOMAIN grid : prg[m + i] = grid[i]
     /\ \A c \in 1 .. m : prg[c].op = "SPLIT" => prg[c].axis \notin {"x", "y"}

LegalPrograms == \A prg \in Programs : \E S : Legal(prg, S)

(* What the theorem on rows and columns assumes *)
GridPrograms ==
  \A prg \in Programs :
    (\E n \in DOMAIN prg : prg[n].op = "SPLIT" /\ prg[n].axis = "x")
      => \E m \in Nat, x \in Nat \ {0} : EndsInGrid(prg, m, x)
=============================================================================
