---------------------------- MODULE GdaQueuePair ----------------------------
(***************************************************************************)
(* QueuePair: each call goes to the vendor's queue, constmem.gda_provider. *)
(***************************************************************************)
EXTENDS GdaMlx5, GdaIonic, GdaBnxt, FiniteSets

vendorVars == <<mlx5Vars, ionicVars, bnxtVars>>
vars == <<nicVars, sqVars, call, pc, vendorVars>>

Init ==
  /\ \E s \in Starts : NicInit(s)
  /\ Mlx5Init /\ IonicInit /\ BnxtInit

Step(w) ==
  \/ provider = "mlx5" /\ Mlx5Step(w) /\ UNCHANGED <<ionicVars, bnxtVars>>
  \/ provider = "ionic" /\ IonicStep(w) /\ UNCHANGED <<mlx5Vars, bnxtVars>>
  \/ provider = "bnxt" /\ BnxtStep(w) /\ UNCHANGED <<mlx5Vars, ionicVars>>

Nic == (Execute \/ Report) /\ UNCHANGED vendorVars

(* Busy waits, and wavefronts that have returned. *)
Spin(w) ==
  \/ provider = "mlx5" /\ Mlx5Spin(w) /\ UNCHANGED <<ionicVars, bnxtVars>>
  \/ provider = "ionic" /\ IonicSpin(w) /\ UNCHANGED <<mlx5Vars, bnxtVars>>
  \/ provider = "bnxt" /\ BnxtSpin(w) /\ UNCHANGED <<mlx5Vars, ionicVars>>
  \/ pc[w] = "out" /\ ~Calling(w) /\ UNCHANGED vars

Next == (\E w \in Waves : Step(w) \/ Spin(w)) \/ Nic

Spec == Init /\ [][Next]_vars

(* Resident wavefronts keep running, and so does the NIC; a lock that is   *)
(* released again and again is got by each waiter in the end.              *)
Fairness ==
  /\ \A w \in Waves : SF_vars(Step(w))
  /\ WF_vars(Execute /\ UNCHANGED vendorVars)
  /\ WF_vars(Report /\ UNCHANGED vendorVars)
FairSpec == Spec /\ Fairness

----------------------------------------------------------------------------
(* The NIC executes the WQE of every position once, in order: no slot is   *)
(* overwritten before the NIC has read it, none is read before it has been *)
(* written, and no doorbell goes back or too far.                          *)
OnceInOrder ==
  \A i \in 1 .. Len(executed) :
     executed[i].idx = start + i - 1 /\ executed[i].call # NoCall

(* When a quiet or a fetch returns, all the caller posted has completed. *)
Finished(w, k) ==
  Cardinality({i \in 1 .. Len(executed) :
                 executed[i].call[1] = w /\ executed[i].call[2] = k}) = prog[w][k].lanes
QuietMeansDone ==
  \A w \in Waves :
    /\ pc[w] = "out" /\ returned[w] > 0
    /\ prog[w][returned[w]].op \in {"QUIET", "FETCH"}
    => \A k \in 1 .. returned[w] : Finished(w, k)

(* A fetch reads the results of its own atomics, not those of another      *)
(* wavefront that was given the same words.                                *)
OwnResult ==
  \A w \in Waves : pc[w] = "done" /\ Op(w).op = "FETCH" => HasOwnResult(w)

(* Every call returns: room, completions, buffers and doorbells come, also *)
(* for what was posted without ringing.                                    *)
CallsReturn == \A w \in Waves : <>[](~Calling(w))
=============================================================================
