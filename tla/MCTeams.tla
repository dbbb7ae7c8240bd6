------------------------------ MODULE MCTeams ------------------------------
(* TLC instances of Teams. *)
EXTENDS TeamPrograms

Do(what, g) == [op |-> what, group |-> g]
Split(team, start, stride, size) == SplitInto(team, start, stride, size, "none")
DestroyTeam(team) == [op |-> "DESTROY", team |-> team]

Addresses == Do("ALLGATHER", World)

(* The same sockets serve call after call; slots are given back and taken  *)
(* again; teams overlap and are split from teams; in the fourth program    *)
(* the members of the third team have a free slot each and none in common, *)
(* and the third PE goes on without them; in the last the three PEs are    *)
(* made a grid with an incomplete row.                                     *)
HostPrograms ==
  {<<Addresses, Do("ALLTOALL", World), Do("BARRIER", World), Do("ALLTOALL", <<2, 0>>)>>,
   <<Addresses, Split(0, 0, 1, 2), Split(0, 1, 1, 2), DestroyTeam(2), Split(0, 0, 2, 2)>>,
   <<Addresses, Split(0, 0, 1, 3), Split(2, 1, 1, 2), DestroyTeam(2), Split(0, 2, 1, 1)>>,
   <<Addresses, Split(0, 0, 1, 2), Split(0, 1, 1, 2), Split(0, 0, 2, 2),
     Do("ALLTOALL", World), Do("BARRIER", <<0, 1>>)>>,
   <<Addresses>> \o split_2d(0, nRanks, 2)}

(* The team each split of a program makes *)
Least(s) == CHOOSE m \in s : \A k \in s : m <= k
LayoutOf(prg) ==
  LET S[c \in 0 .. Len(prg)] ==
        IF c = 0 \/ prg[IF c = 0 THEN 1 ELSE c].op # "SPLIT" THEN world
        ELSE LET t == S[prg[c].team]
                 u == [call |-> c, slot |-> 0,
                       pe_start |-> get_pe_in_world(t, prg[c].start),
                       stride |-> prg[c].stride * t.stride, size |-> prg[c].size]
                 free == {s \in Slots : \A p \in PEs(u) : \A b \in Alive(prg, S, p, c - 1) :
                                         S[b].slot # s}
             IN [u EXCEPT !.slot = IF free = {} THEN 0 ELSE Least(free)]
  IN S

(* What the theorems assume of a program holds of these. *)
ASSUME HostProgramsAreLegal ==
  \A prg \in HostPrograms :
    /\ Legal(prg, LayoutOf(prg))
    /\ (\E n \in DOMAIN prg : prg[n].op = "SPLIT" /\ prg[n].axis = "x")
         => EndsInGrid(prg, 1, 2)
=============================================================================
