------------------------------- MODULE Teams -------------------------------
(***************************************************************************)
(* What the host of each PE does once its bootstrap is connected: the      *)
(* exchanges of the backends, and the teams it splits off and destroys.    *)
(* Work arrays are handed out from a pool of numbered slots; the members   *)
(* of a new team agree on one that is free at each of them.  The PEs run   *)
(* one program.  A team is known by the call that made it, 0 for the world.*)
(***************************************************************************)
EXTENDS Bootstrap, FiniteSets

CONSTANTS
  max_num_teams, NUM_RESERVED_TEAMS,
  Programs    \* what the hosts may call

ASSUME TeamsAssumption ==
  nRanks \in Nat \ {0} /\ max_num_teams \in Nat /\ NUM_RESERVED_TEAMS \in Nat

VARIABLES
  prog,
  team_pool_bitmask_,   \* the free slots each PE knows of
  teams_      \* the teams of each PE that it has not destroyed

vars == <<bootstrapVars, prog, team_pool_bitmask_, teams_>>

world == [call |-> 0, slot |-> 0, pe_start |-> 0, stride |-> 1, size |-> nRanks]

Call(p) == returned[p] + 1
Calling(p) == Call(p) <= Len(prog)
Op(p) == prog[Call(p)]

Init ==
  /\ BootstrapInit
  /\ prog \in Programs
  /\ team_pool_bitmask_ = [p \in Ranks |-> NUM_RESERVED_TEAMS .. max_num_teams - 1]
  /\ teams_ = [p \in Ranks |-> {}]

teamVars == <<prog, team_pool_bitmask_, teams_>>
net == <<timed, rootVars, netVars, sockets>>
Returns(p) == returned' = [returned EXCEPT ![p] = Call(p)]
ReturnsAtOnce(p) == Goto(p, "ready", "ready") /\ Returns(p) /\ UNCHANGED <<net, exchange>>

----------------------------------------------------------------------------
(* Membership *)

PEs(t) == {t.pe_start + t.stride * i : i \in 0 .. t.size - 1}
Known(p, call) == {t \in teams_[p] \cup {world} : t.call = call}
IsInvalid(p, call) == Known(p, call) = {}
Parent(p) == CHOOSE t \in Known(p, Op(p).team) : TRUE

(* Team::get_pe_in_world and the set of the new team, seen from the world *)
get_pe_in_world(t, pe) == t.pe_start + t.stride * pe
NewTeam(p) ==
  [call |-> Call(p), slot |-> 0,
   pe_start |-> get_pe_in_world(Parent(p), Op(p).start),
   stride |-> Op(p).stride * Parent(p).stride,
   size |-> Op(p).size]
Line(t) == [i \in 1 .. t.size |-> get_pe_in_world(t, i - 1)]

(* pe_in_active_set *)
pe_in_active_set(t, pe) ==
  /\ pe >= t.pe_start /\ (pe - t.pe_start) % t.stride = 0
  /\ (pe - t.pe_start) \div t.stride < t.size

----------------------------------------------------------------------------
(* rocshmem_team_split_strided *)

Splitting(p) == pc[p] = "ready" /\ Calling(p) /\ Op(p).op = "SPLIT"

(* Too many teams, no parent, or a range that cannot be. *)
Refused(p) ==
  \/ Cardinality(teams_[p]) >= max_num_teams - NUM_RESERVED_TEAMS
  \/ IsInvalid(p, Op(p).team)
  \/ Op(p).start < 0 \/ Op(p).start >= Parent(p).size
  \/ Op(p).size < 1 \/ Op(p).size > Parent(p).size \/ Op(p).stride < 1
  \/ get_pe_in_world(NewTeam(p), Op(p).size - 1) > nRanks

(* Who is not in the new team has nothing to wait for. *)
SplitOutside(p) ==
  /\ Splitting(p)
  /\ Refused(p) \/ ~pe_in_active_set(NewTeam(p), p)
  /\ ReturnsAtOnce(p)
  /\ UNCHANGED teamVars

(* Allreduce_char_BAND gathers the free slots of the members, round the    *)
(* ring if they are the world.                                             *)
SplitBegin(p) ==
  /\ Splitting(p)
  /\ ~Refused(p) /\ pe_in_active_set(NewTeam(p), p)
  /\ Goto(p, "ready", "exchange")
  /\ LET g == Line(NewTeam(p))
     IN Begins(p, IF g = World THEN "ALLGATHER" ELSE "GROUPGATHER", g,
               LAMBDA k : <<p, k, Call(p), team_pool_bitmask_[p]>>)
  /\ UNCHANGED <<net, returned, teamVars>>

(* Faulty variant: a member takes the first slot that is free at itself. *)
OwnFree(p) == team_pool_bitmask_[p]

(* The slots free at every member. *)
CommonFree(p) ==
  {s \in NUM_RESERVED_TEAMS .. max_num_teams - 1 :
     \A k \in 0 .. Size(p) - 1 : s \in data[p][k][4]}

(* get_ls_non_zero_bit: the first of them. *)
SplitEnd(p) ==
  /\ Calling(p) /\ Op(p).op = "SPLIT"
  /\ Goto(p, "over", "ready") /\ Returns(p)
  /\ \E s \in CommonFree(p) :
       /\ \A r \in CommonFree(p) : s <= r
       /\ team_pool_bitmask_' =
            [team_pool_bitmask_ EXCEPT ![p] = team_pool_bitmask_[p] \ {s}]
       /\ teams_' = [teams_ EXCEPT ![p] =
                       teams_[p] \cup {[NewTeam(p) EXCEPT !.slot = s]}]
  /\ UNCHANGED <<net, exchange, prog>>

(* Each member may have free slots, and none in common. *)
NoCommonSlot(p) ==
  Calling(p) /\ Op(p).op = "SPLIT" /\ at[p] > Steps(p) /\ CommonFree(p) = {}

SplitAborts(p) ==
  /\ pc[p] = "over" /\ NoCommonSlot(p)
  /\ Aborts(p)
  /\ UNCHANGED teamVars

(* rocshmem_team_destroy gives the slot back without asking the others. *)
Destroy(p) ==
  /\ pc[p] = "ready" /\ Calling(p) /\ Op(p).op = "DESTROY"
  /\ ReturnsAtOnce(p)
  /\ LET t == {u \in teams_[p] : u.call = Op(p).team}
     IN /\ teams_' = [teams_ EXCEPT ![p] = teams_[p] \ t]
        /\ team_pool_bitmask_' = [team_pool_bitmask_ EXCEPT ![p] =
                                    team_pool_bitmask_[p] \cup {u.slot : u \in t}]
  /\ UNCHANGED prog

----------------------------------------------------------------------------
(* rocshmem_team_split_2d: the splits it makes, none of which is refused.  *)
(* An axis is "x" or "y", or "none" for another split.                     *)

SplitInto(team, start, stride, size, axis) ==
  [op |-> "SPLIT", team |-> team, start |-> start, stride |-> stride,
   size |-> size, axis |-> axis]

(* The parent, of n PEs, is a grid whose last row may not be full. *)
xteams(team, n, x) ==
  [i \in 1 .. (n + x - 1) \div x |->
     SplitInto(team, (i - 1) * x, 1, IF i * x <= n THEN x ELSE n % x, "x")]

(* Faulty variant: the last row is left out of the columns. *)
yteamsOfFullRows(team, n, x) ==
  [i \in 1 .. x |-> SplitInto(team, i - 1, x, n \div x, "y")]

yteams(team, n, x) ==
  [i \in 1 .. x |->
     SplitInto(team, i - 1, x, n \div x + IF i <= n % x THEN 1 ELSE 0, "y")]

split_2d(team, n, xrange) ==
  LET x == IF xrange > n THEN n ELSE xrange IN xteams(team, n, x) \o yteams(team, n, x)

----------------------------------------------------------------------------
(* The exchanges of the backends, and the first, of the ranks' addresses *)

Exchanges == {"ALLGATHER", "GROUPGATHER", "ALLTOALL", "BARRIER"}

CallBegin(p) ==
  /\ Calling(p) /\ Op(p).op \in Exchanges
  /\ p \in {Op(p).group[i] : i \in DOMAIN Op(p).group}
  /\ Goto(p, "ready", "exchange")
  /\ Begins(p, Op(p).op, Op(p).group, LAMBDA k : <<p, k, Call(p), {}>>)
  /\ UNCHANGED <<net, returned, teamVars>>

NotInGroup(p) ==
  /\ Calling(p) /\ Op(p).op \in Exchanges
  /\ p \notin {Op(p).group[i] : i \in DOMAIN Op(p).group}
  /\ ReturnsAtOnce(p)
  /\ UNCHANGED teamVars

CallEnd(p) ==
  /\ Calling(p) /\ Op(p).op \in Exchanges
  /\ Goto(p, "over", "ready") /\ Returns(p)
  /\ UNCHANGED <<net, exchange, teamVars>>

Step(p) ==
  \/ (EstablishStep(p) \/ ExchangeStep(p)) /\ UNCHANGED teamVars
  \/ SplitOutside(p) \/ SplitBegin(p) \/ SplitEnd(p) \/ SplitAborts(p) \/ Destroy(p)
  \/ CallBegin(p) \/ NotInGroup(p) \/ CallEnd(p)

(* Connects, accepts and receives that have to be tried again, and hosts   *)
(* that have made all their calls or ended.                                *)
Spin == UNCHANGED vars

Next == (\E p \in Ranks : Step(p)) \/ (RootStep /\ UNCHANGED teamVars) \/ Spin

Spec == Init /\ [][Next]_vars

(* The host threads and the root thread run, and time passes. *)
FairSpec ==
  /\ Spec
  /\ \A p \in Ranks : WF_vars(Step(p))
  /\ WF_vars(RootStep /\ UNCHANGED teamVars)

----------------------------------------------------------------------------
(* The members of q's new team had no slot in common, and that ended q. *)
Slotless(q) == pc[q] = "aborted" /\ NoCommonSlot(q)

(* establishConnections gets all ranks through or, if it times out, ends   *)
(* before any rank has its first exchange.  Later a rank ends in a split   *)
(* whose members have no slot in common, and another only in a call after  *)
(* that split: every call before it is over for everyone, or will be.      *)
AllOrNone ==
  \A q \in Ranks : pc[q] = "aborted" =>
    \/ timed /\ \A p \in Ranks : returned[p] = 0
    \/ Slotless(q)
    \/ \E r \in Ranks : Slotless(r) /\ Call(r) < Call(q)

(* What each call leaves with its caller: from every member the block      *)
(* meant for it in this call.                                              *)
Exact ==
  \A p \in Ranks : pc[p] = "over" /\ op[p] # "BARRIER" =>
    \A k \in 0 .. Size(p) - 1 :
      /\ data[p][k][1] = group[p][k + 1]
      /\ data[p][k][2] = IF op[p] = "ALLTOALL" THEN Pos(p) ELSE k
      /\ data[p][k][3] = Call(p)

(* The members of a team have the same work arrays for it, and no PE has   *)
(* two teams, or a team and the pool, on the same arrays.                  *)
OneSlot ==
  \A p \in Ranks : \A t \in teams_[p] :
    /\ t.slot \notin team_pool_bitmask_[p]
    /\ \A u \in teams_[p] : u.slot = t.slot => u = t
    /\ \A q \in Ranks : \A u \in teams_[q] : u.call = t.call => u = t

(* split_2d leaves every PE in one row and in one column, which meet there.*)
Axis(p, a) == {t \in teams_[p] : prog[t.call].axis = a}
Splits2d == \E n \in DOMAIN prog : prog[n].op = "SPLIT" /\ prog[n].axis = "x"
OneTeamPerAxis ==
  \A p \in Ranks : ~Calling(p) /\ Splits2d =>
    \E x \in Axis(p, "x"), y \in Axis(p, "y") :
      Axis(p, "x") = {x} /\ Axis(p, "y") = {y} /\ PEs(x) \cap PEs(y) = {p}

(* Every host makes all its calls, unless a timeout has ended it, and at   *)
(* least all those before the first split whose members have no slot in    *)
(* common.                                                                 *)
EveryoneEnds ==
  <>[](\A p \in Ranks : \/ ~Calling(p)
                        \/ timed /\ pc[p] = "aborted"
                        \/ \E r \in Ranks : Slotless(r) /\ Call(r) <= Call(p))
=============================================================================
