----------------------------- MODULE RoTransport -----------------------------
(***************************************************************************)
(* MPITransport on every PE: the queue the polling thread fills, the       *)
(* progress thread that turns commands into MPI requests and completes     *)
(* them, quiet, and the GPU threads whose status flags it raises.  RoQueue *)
(* delivers the commands of a context in order, so a thread's command      *)
(* appears here when it reaches insertRequest.  MPI completes requests in  *)
(* any order, a collective one only once every PE has posted it.           *)
(***************************************************************************)
EXTENDS Naturals, Sequences, FiniteSetsExt

CONSTANTS
  PEs,
  Threads,   \* GPU threads of a PE
  Ctxs,      \* contexts
  CtxOf,     \* the context of each thread
  Programs,  \* the commands each thread issues: a set of [PEs -> [Threads -> Seq]]
  MaxLength, \* bound: length of a thread's program
  Window     \* testsome_indices.size() (128)

Types == {"PUT", "GET", "PUT_NBI", "GET_NBI", "AMO", "QUIET", "BARRIER",
          "SYNC", "REDUCE", "BROADCAST", "ALLTOALL"}

(* P is PUT here, FENCE and FINALIZE are QUIET, REDUCE_SCATTER is REDUCE, *)
(* FCOLLECT is ALLTOALL: the code treats each pair alike. *)
Nonblocking == {"PUT_NBI", "GET_NBI"}
Quieting == {"QUIET", "BARRIER", "BROADCAST", "ALLTOALL"}
Collective == {"BARRIER", "SYNC", "REDUCE", "BROADCAST", "ALLTOALL"}

ASSUME TransportAssumption ==
  /\ IsFiniteSet(PEs) /\ IsFiniteSet(Threads)
  /\ CtxOf \in [Threads -> Ctxs]
  /\ Programs \subseteq [PEs -> [Threads -> Seq(Types)]]
  /\ \A P \in Programs : \A p \in PEs, t \in Threads : Len(P[p][t]) <= MaxLength
  /\ MaxLength \in Nat /\ Window \in Nat \ {0}

VARIABLES
  program,      \* the one of Programs that runs
  pos,          \* commands each thread has issued
  state,        \* "run", or "blocked" in a blocking call
  flag,         \* the status byte of each thread
  queue,        \* q and q_wgid: <<thread, position>> of each command
  requests,     \* the vector, each request stamped in order of push_back
  stamp,        \* stamps used
  outstanding,  \* outstanding[contextId]
  waitingQuiet, \* waiting_quiet[contextId]
  posted        \* collectives each PE has handed to MPI

mpi == <<requests, stamp, outstanding, waitingQuiet, posted>>
transportVars == <<program, pos, state, flag, queue, requests, stamp, outstanding,
          waitingQuiet, posted>>

Put(f, p, c, v) == [f EXCEPT ![p] = [f[p] EXCEPT ![c] = v]]

Commands == Threads \X (Nat \ {0})
TypeOf(p, cmd) == program[p][cmd[1]][cmd[2]]

TransportInit ==
  /\ program \in Programs
  /\ pos = [p \in PEs |-> [t \in Threads |-> 0]]
  /\ state = [p \in PEs |-> [t \in Threads |-> "run"]]
  /\ flag = [p \in PEs |-> [t \in Threads |-> 0]]
  /\ queue = [p \in PEs |-> <<>>]
  /\ requests = [p \in PEs |-> {}]
  /\ stamp = [p \in PEs |-> 0]
  /\ outstanding = [p \in PEs |-> [c \in Ctxs |-> 0]]
  /\ waitingQuiet = [p \in PEs |-> [c \in Ctxs |-> {}]]
  /\ posted = [p \in PEs |-> 0]

(* insertRequest, and the caller waits if the call blocks. *)
InsertRequest(p, t) ==
  LET n == pos[p][t] + 1 IN
  /\ state[p][t] = "run" /\ n <= Len(program[p][t])
  /\ pos' = Put(pos, p, t, n)
  /\ state' = IF program[p][t][n] \in Nonblocking THEN state
              ELSE Put(state, p, t, "blocked")
  /\ queue' = [queue EXCEPT ![p] = Append(queue[p], <<t, n>>)]
  /\ UNCHANGED <<program, flag, mpi>>

(* The calling thread sees its flag, clears it and returns. *)
Return(p, t) ==
  /\ state[p][t] = "blocked" /\ flag[p][t] = 1
  /\ flag' = Put(flag, p, t, 0)
  /\ state' = Put(state, p, t, "run")
  /\ UNCHANGED <<program, pos, queue, mpi>>

(* The poll loop of a blocked thread. *)
Poll(p, t) == state[p][t] = "blocked" /\ flag[p][t] = 0 /\ UNCHANGED transportVars

----------------------------------------------------------------------------
(* submitRequestsToMPI *)

(* What a command pushes onto requests: for each request whether its own *)
(* completion notifies the caller, and its collective (0 if none). *)
Request(blocking, coll) == [blocking |-> blocking, coll |-> coll]

(* Faulty variant: sync hands the status byte to quiet, as barrier does. *)
PostsSyncSilently(type, k) ==
  CASE type \in {"PUT", "GET"} -> <<Request(TRUE, 0)>>
    [] type \in Nonblocking -> <<Request(FALSE, 0)>>
    [] type \in {"BARRIER", "SYNC", "REDUCE"} -> <<Request(FALSE, k)>>
    [] type = "BROADCAST" -> <<Request(FALSE, 0), Request(FALSE, k)>>
    [] type = "ALLTOALL" -> [i \in 1 .. Cardinality(PEs) |-> Request(FALSE, 0)]
    [] OTHER -> <<>>

(* Faulty variant: a broadcast without the barrier behind its get. *)
PostsNoBarrier(type, k) ==
  CASE type \in {"PUT", "GET"} -> <<Request(TRUE, 0)>>
    [] type \in Nonblocking \cup {"BROADCAST"} -> <<Request(FALSE, 0)>>
    [] type = "BARRIER" -> <<Request(FALSE, k)>>
    [] type \in {"SYNC", "REDUCE"} -> <<Request(TRUE, k)>>
    [] type = "ALLTOALL" -> [i \in 1 .. Cardinality(PEs) |-> Request(FALSE, 0)]
    [] OTHER -> <<>>

Posts(type, k) ==
  CASE type \in {"PUT", "GET"} -> <<Request(TRUE, 0)>>
    [] type \in Nonblocking -> <<Request(FALSE, 0)>>
    [] type = "BARRIER" -> <<Request(FALSE, k)>>
    [] type \in {"SYNC", "REDUCE"} -> <<Request(TRUE, k)>>
    [] type = "BROADCAST" -> <<Request(FALSE, 0), Request(FALSE, k)>>
    [] type = "ALLTOALL" -> [i \in 1 .. Cardinality(PEs) |-> Request(FALSE, 0)]
    [] OTHER -> <<>>

(* The requests of a command as they enter the vector. *)
NewRequests(p, cmd) ==
  LET posts == Posts(TypeOf(p, cmd), posted[p] + 1) IN
  {[at |-> stamp[p] + i, cmd |-> cmd, ctx |-> CtxOf[cmd[1]],
    blocking |-> posts[i].blocking, coll |-> posts[i].coll] :
     i \in DOMAIN posts}

(* Faulty variant: outstanding counts commands, not requests. *)
CountedCommand(p, c, new) == outstanding[p][c] + (IF new = {} THEN 0 ELSE 1)

Counted(p, c, new) == outstanding[p][c] + Cardinality(new)

(* quiet finds nothing of the context outstanding. *)
QuietNow(p, c, new) == Counted(p, c, new) = 0

Submit(p) ==
  /\ queue[p] # <<>>
  /\ LET cmd == Head(queue[p])
         t == cmd[1]
         c == CtxOf[t]
         type == TypeOf(p, cmd)
         new == NewRequests(p, cmd)
         waits == type \in Quieting /\ ~QuietNow(p, c, new)
     IN
     /\ requests' = [requests EXCEPT ![p] = requests[p] \cup new]
     /\ stamp' = [stamp EXCEPT ![p] = stamp[p] + Cardinality(new)]
     /\ outstanding' = Put(outstanding, p, c, Counted(p, c, new))
     /\ waitingQuiet' = IF waits
          THEN Put(waitingQuiet, p, c, waitingQuiet[p][c] \cup {cmd})
          ELSE waitingQuiet
     /\ flag' = IF type = "AMO" \/ (type \in Quieting /\ ~waits)
          THEN Put(flag, p, t, 1) ELSE flag
     /\ posted' = IF type \in Collective
          THEN [posted EXCEPT ![p] = posted[p] + 1] ELSE posted
  /\ queue' = [queue EXCEPT ![p] = Tail(queue[p])]
  /\ UNCHANGED <<program, pos, state>>

----------------------------------------------------------------------------
(* progress *)

(* Every PE has posted the collective of r, if it has one. *)
Ready(r) == \A p \in PEs : posted[p] >= r.coll

(* The requests MPI_Testsome may find complete: it is given the oldest. *)
Testable(p) ==
  {r \in requests[p] :
     Ready(r) /\ Cardinality({s \in requests[p] : s.at < r.at}) < Window}

OfCtx(rs, c) == {r \in rs : r.ctx = c}

(* outstanding[contextId] after the loop over the completed requests. *)
Left(p, c, done) == outstanding[p][c] - Cardinality(OfCtx(done, c))

(* Faulty variant: any completion of the context ends its quiets. *)
ReleasedEarly(p, done) == {c \in Ctxs : OfCtx(done, c) # {}}

(* Faulty variant: the test of waiting_quiet stands in if (blocking). *)
ReleasedIfBlocking(p, done) ==
  {c \in Ctxs : (\E r \in OfCtx(done, c) : r.blocking) /\ Left(p, c, done) = 0}

(* The contexts whose last request completed: their quiets end. *)
Released(p, done) == {c \in Ctxs : OfCtx(done, c) # {} /\ Left(p, c, done) = 0}

(* The threads one pass notifies. *)
Notified(p, done) ==
  {r.cmd[1] : r \in {x \in done : x.blocking}}
    \cup {cmd[1] : cmd \in UNION {waitingQuiet[p][c] : c \in Released(p, done)}}

(* Faulty variant: waiting_quiet is not cleared. *)
StillWaiting(p, done) == waitingQuiet[p]

Waiting(p, done) ==
  [c \in Ctxs |-> IF c \in Released(p, done) THEN {} ELSE waitingQuiet[p][c]]

(* One call of progress that finds the requests in done complete. *)
Progress(p, done) ==
  /\ done # {} /\ done \subseteq Testable(p)
  /\ outstanding' = [outstanding EXCEPT ![p] = [c \in Ctxs |-> Left(p, c, done)]]
  /\ flag' = [flag EXCEPT ![p] =
       [t \in Threads |-> IF t \in Notified(p, done) THEN 1 ELSE flag[p][t]]]
  /\ waitingQuiet' = [waitingQuiet EXCEPT ![p] = Waiting(p, done)]
  /\ requests' = [requests EXCEPT ![p] = requests[p] \ done]
  /\ UNCHANGED <<program, pos, state, queue, stamp, posted>>

Completes(p, cmd) ==
  \E done \in SUBSET Testable(p) :
    (\E r \in done : r.cmd = cmd) /\ Progress(p, done)

----------------------------------------------------------------------------
TransportNext ==
  \E p \in PEs :
    \/ \E t \in Threads : InsertRequest(p, t) \/ Return(p, t) \/ Poll(p, t)
    \/ Submit(p)
    \/ \E done \in SUBSET Testable(p) : Progress(p, done)

TransportFinished ==
  /\ \A p \in PEs, t \in Threads :
       state[p][t] = "run" /\ pos[p][t] = Len(program[p][t])
  /\ \A p \in PEs : queue[p] = <<>> /\ requests[p] = {}
  /\ UNCHANGED transportVars

(* GPU threads run and the progress thread loops; MPI completes whatever *)
(* it can complete. *)
TransportFairness ==
  \A p \in PEs :
    /\ \A t \in Threads : WF_transportVars(InsertRequest(p, t)) /\ WF_transportVars(Return(p, t))
    /\ WF_transportVars(Submit(p))
    /\ \A cmd \in Threads \X (1 .. MaxLength) : WF_transportVars(Completes(p, cmd))

TransportSpec == TransportInit /\ [][TransportNext \/ TransportFinished]_transportVars
TransportFairSpec == TransportSpec /\ TransportFairness

----------------------------------------------------------------------------
(* The command a blocked thread waits for, and the commands of a PE that *)
(* are not over: queued, in flight, or waiting in a quiet. *)
Current(p, t) == <<t, pos[p][t]>>
Pending(p) ==
  {queue[p][i] : i \in DOMAIN queue[p]} \cup {r.cmd : r \in requests[p]}
    \cup UNION {waitingQuiet[p][c] : c \in Ctxs}

Notifies(p, t, types) ==
  flag[p][t] = 1 /\ TypeOf(p, Current(p, t)) \in types

Requests ==
  [at : Nat, cmd : Commands, ctx : Ctxs, blocking : BOOLEAN, coll : Nat]

(* Every variable keeps its type; outstanding never goes negative. *)
TransportTypeOK ==
  /\ program \in Programs
  /\ pos \in [PEs -> [Threads -> Nat]]
  /\ state \in [PEs -> [Threads -> {"run", "blocked"}]]
  /\ flag \in [PEs -> [Threads -> 0 .. 1]]
  /\ queue \in [PEs -> Seq(Commands)]
  /\ requests \in [PEs -> SUBSET Requests]
  /\ stamp \in [PEs -> Nat] /\ posted \in [PEs -> Nat]
  /\ outstanding \in [PEs -> [Ctxs -> Nat]]
  /\ waitingQuiet \in [PEs -> [Ctxs -> SUBSET Commands]]

(* outstanding[c] is the number of requests of c in flight, so that a quiet *)
(* ends exactly when they have. *)
OutstandingCounts ==
  \A p \in PEs, c \in Ctxs :
    outstanding[p][c] = Cardinality(OfCtx(requests[p], c))

(* A raised flag answers the thread's own call, which is over: no call *)
(* returns early and none is notified twice. *)
OwnCallOver ==
  \A p \in PEs, t \in Threads :
    flag[p][t] = 1 => state[p][t] = "blocked" /\ Current(p, t) \notin Pending(p)

(* When a quiet or a barrier returns, every earlier command of its thread *)
(* has completed. *)
QuietCompletes ==
  \A p \in PEs, t \in Threads :
    Notifies(p, t, Quieting) =>
      \A n \in 1 .. pos[p][t] : <<t, n>> \notin Pending(p)

(* No PE leaves a synchronising collective before every PE has entered. *)
EveryoneEntered ==
  \A p \in PEs, t \in Threads :
    Notifies(p, t, Collective \ {"ALLTOALL"}) =>
      \A r \in PEs : posted[r] >= posted[p]

(* Every call returns and every command is carried out. *)
CallsReturn ==
  \A p \in PEs, t \in Threads : []<>(state[p][t] = "run")
AllCompleted == <>[](\A p \in PEs : Pending(p) = {})

=============================================================================
