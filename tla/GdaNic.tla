------------------------------- MODULE GdaNic -------------------------------
(***************************************************************************)
(* What the queue pairs of the GDA backend share: the send queue in GPU    *)
(* memory, the words that receive the results of fetching atomics, the     *)
(* wavefronts that call, and the NIC, which is external.  Positions in the *)
(* send queue count from the creation of the queue pair and never wrap;    *)
(* where the code or the NIC sees fewer bits, the reader takes the         *)
(* remainder.                                                              *)
(***************************************************************************)
EXTENDS Integers, Sequences

CONSTANTS
  Waves,      \* wavefronts that use the queue pair
  Depth,      \* slots of the send queue
  W,          \* values of the counters exchanged with the NIC (16 or 24 bits)
  FetchCnt,   \* FETCHING_ATOMIC_CNT
  WfSize,     \* WF_SIZE
  Providers,  \* vendors tried: a subset of {"mlx5", "ionic", "bnxt"}
  Starts,     \* positions the queue pair may have reached before
  Programs    \* what the wavefronts may call, by vendor

(* A post is by some lanes, and may leave the doorbell to a later one. *)
Posts == [op : {"RMA", "AMO", "FETCH"}, lanes : 1 .. WfSize, ring : BOOLEAN]
Quiet == [op |-> "QUIET", lanes |-> 0, ring |-> FALSE]

(* The depth is a power of two; a wavefront's lanes fit with a slot to spare. *)
ASSUME QueuePairAssumption ==
  /\ Depth \in Nat \ {0} /\ W \in Nat \ {0} /\ Depth < W /\ W % Depth = 0
  /\ WfSize \in Nat \ {0} /\ WfSize < Depth
  /\ FetchCnt \in Nat \ {0} /\ FetchCnt % WfSize = 0
  /\ Providers \subseteq {"mlx5", "ionic", "bnxt"}
  /\ Starts \subseteq Nat
  /\ Programs \in [Providers -> SUBSET [Waves -> Seq(Posts \cup {Quiet})]]

NoCall == <<>>
NoWord == -1

VARIABLES
  provider,   \* constmem.gda_provider
  start,      \* the position at which the model begins
  sq,         \* the send queue
  db,         \* positions the doorbell has told the NIC of
  executed,   \* the WQEs the NIC has executed since start
  reported,   \* positions its collapsed CQE reports as completed
  words,      \* fetching_atomic: the last result written to each word
  lock,       \* mlx5_sq.lock, bnxt_sq.lock, sq_lock
  fetching_atomic_idx,
  requested,  \* requested_available_slots of each wavefront that polls
  prog,       \* the program of each wavefront
  returned,   \* calls of it that have returned
  pc,
  base,       \* first position of the post under way
  word        \* first result word of the fetch under way

nicVars == <<start, sq, db, executed, reported, words>>
sqVars == <<lock, fetching_atomic_idx, requested>>
callVars == <<provider, prog, returned>>
call == <<callVars, base, word>>

(* The queue pair is at rest at position s: each slot holds its last WQE. *)
NicInit(s) ==
  /\ provider \in Providers
  /\ start = s /\ db = s /\ reported = s
  /\ sq = [k \in 0 .. Depth - 1 |->
             [idx |-> CHOOSE i \in s - Depth .. s - 1 : i % Depth = k,
              call |-> NoCall, word |-> NoWord, sig |-> TRUE]]
  /\ executed = <<>>
  /\ words = [k \in 0 .. FetchCnt - 1 |-> NoCall]
  /\ lock = FALSE /\ fetching_atomic_idx = 0
  /\ requested = [w \in Waves |-> 0]
  /\ prog \in Programs[provider]
  /\ returned = [w \in Waves |-> 0]
  /\ pc = [w \in Waves |-> "out"]
  /\ base = [w \in Waves |-> s]
  /\ word = [w \in Waves |-> NoWord]

Goto(w, from, to) == pc[w] = from /\ pc' = [pc EXCEPT ![w] = to]
Calling(w) == returned[w] < Len(prog[w])
Op(w) == prog[w][returned[w] + 1]
Rings(w) == Op(w).op # "RMA" \/ Op(w).ring
IsPost(w) == Calling(w) /\ Op(w) # Quiet
ReturnsIf(w, over) == returned' = [returned EXCEPT ![w] = returned[w] + IF over THEN 1 ELSE 0]
Returns(w) == ReturnsIf(w, TRUE)

(* Where a poller goes on: a post writes, a quiet is over. *)
Polled(w) == IF requested[w] < Depth THEN "write" ELSE "done"

----------------------------------------------------------------------------
(* Writing the WQEs of a post *)

(* One per lane; the last lane's is signalled, or each of them. *)
Wqe(w, l) ==
  [idx |-> base[w] + l,
   call |-> <<w, returned[w] + 1, l>>,
   word |-> IF Op(w).op = "FETCH" THEN (word[w] + l) % FetchCnt ELSE NoWord,
   sig |-> provider # "ionic" \/ l = Op(w).lanes - 1]

Written(w) ==
  [k \in 0 .. Depth - 1 |->
     IF \E l \in 0 .. Op(w).lanes - 1 : (base[w] + l) % Depth = k
     THEN Wqe(w, CHOOSE l \in 0 .. Op(w).lanes - 1 : (base[w] + l) % Depth = k)
     ELSE sq[k]]

(* The results a fetch reads are those of its own atomics. *)
HasOwnResult(w) ==
  \A l \in 0 .. Op(w).lanes - 1 :
     words[(word[w] + l) % FetchCnt] = <<w, returned[w] + 1, l>>

----------------------------------------------------------------------------
(* The NIC *)

Done == start + Len(executed)

(* The NIC learns a position modulo m. *)
DoorbellAt(pos, m) == Done + ((pos - Done) % m)

(* IONIC_V1_FLAG_COLOR changes with every lap. *)
Color(i) == (i \div Depth) % 2

(* An ionic NIC waits at a WQE that has not the color of its lap. *)
Execute ==
  /\ Done < db
  /\ LET wqe == sq[Done % Depth]
     IN /\ provider = "ionic" => Color(wqe.idx) = Color(Done)
        /\ executed' = Append(executed, wqe)
        /\ words' = IF wqe.word = NoWord THEN words
                    ELSE [words EXCEPT ![wqe.word] = wqe.call]
  /\ UNCHANGED <<start, sq, db, reported, sqVars, call, pc>>

(* The collapsed CQE holds the last signalled completion, some time later. *)
Report ==
  /\ \E i \in reported + 1 .. Done :
       /\ executed[i - start].sig
       /\ \A j \in i + 1 .. Done : ~executed[j - start].sig
       /\ reported' = i
  /\ UNCHANGED <<start, sq, db, executed, words, sqVars, call, pc>>
=============================================================================
