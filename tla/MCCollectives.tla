-------------------------- MODULE MCCollectives -----------------------------
(* TLC instances of the collectives of both backends. *)
EXTENDS GdaCollectives

Reduce(phases) == Phased("REDUCE", phases)

(* Calls that use the same work array and the same flags, one after another. *)
Sequences ==
  {<<Reduce(<<0>>), Reduce(<<0>>)>>,
   <<Reduce(<<2>>), Reduce(<<1>>)>>,
   <<Reduce(<<0>>), Reduce(<<1>>), Plain("BROADCAST")>>,
   <<Phased("SCATTER", <<0, 0>>), Plain("FCOLLECT"), Plain("ALLTOALL")>>,
   <<Plain("ALLTOALL_THREADS"), Plain("ALLTOALL_THREADS"), Plain("ALLTOALL_THREADS")>>}

ASSUME SequencesSafe == \A prg \in Sequences : SafeProgram(prg)

GdaSequences ==
  {<<Plain("GDA_ALLTOALL"), Plain("ALLTOALLV_GET")>>,
   <<Plain("ALLTOALLV_GET"), Plain("ALLTOALLV_GET")>>,
   <<Phased("GDA_REDUCE", <<1>>), Plain("GDA_BROADCAST"), Plain("ALLTOALLV_COPY")>>,
   <<Phased("GDA_REDUCE", <<2>>), Plain("GDA_FCOLLECT")>>}

(* A reduce of more elements than the ring takes in whole segments: the *)
(* remainder is a ring, or a direct phase, of its own.                   *)
LongReduces == {<<Reduce(<<1, 1>>)>>, <<Reduce(<<1, 0>>)>>}

ASSUME LongReducesAssumption == \A prg \in LongReduces : IpcProgram(prg)

AllSequences == Sequences \cup GdaSequences
=============================================================================
