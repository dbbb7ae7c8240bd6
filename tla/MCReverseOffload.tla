-------------------------- MODULE MCReverseOffload --------------------------
(***************************************************************************)
(* TLC instances of three parts of the reverse-offload backend that share  *)
(* no state: the list of contexts, the transport and the default context.  *)
(* A behaviour runs the part it draws at the start and leaves the other    *)
(* two in their initial states, where no part has a step it must take.     *)
(***************************************************************************)
EXTENDS FreeList, RoTransport, DefaultCtx

CONSTANTS p1, p2, p3, p4, t1, t2, t3, a, b, w1, w2, w3

VARIABLE part

(* t1 and t2 share context a, t3 works on b. *)
SharedCtx == [t \in Threads |-> IF t = t3 THEN b ELSE a]

(* t1 and t2 keep context a busy, and each other's quiets waiting. *)
PointToPoint == {"PUT", "PUT_NBI", "AMO", "QUIET"}
Streams ==
  {[p \in PEs |-> [t \in Threads |-> IF p = p2 THEN <<>>
                                    ELSE IF t = t1 THEN <<"GET_NBI", x, y>>
                                    ELSE IF t = t2 THEN <<"PUT_NBI", "QUIET">>
                                    ELSE <<"GET">>]] :
     x \in PointToPoint, y \in {"PUT_NBI", "QUIET"}}

(* Two PEs meet in two collectives, one of them with requests in flight. *)
Collectives ==
  {[p \in PEs |-> [t \in Threads |->
      IF t = t1 THEN IF p = p1 THEN <<"GET_NBI", c, d>> ELSE <<c, d>>
                ELSE IF t = t2 /\ p = p1 THEN <<"PUT_NBI">> ELSE <<>>]] :
     c \in Collective, d \in Collective}

(* The program of a transport that does not run. *)
NoCalls == [p \in PEs |-> [t \in Threads |-> <<>>]]

StreamsAndCollectives == Streams \cup Collectives \cup {NoCalls}

ASSUME PartsAssumption == NoCalls \in Programs

allVars == <<part, listVars, transportVars, defaultVars>>

PartsInit ==
  /\ part \in {"contexts", "transport", "default"}
  /\ ListInit /\ TransportInit /\ DefaultInit
  /\ part # "transport" <=> program = NoCalls

PartsNext ==
  \/ /\ part = "contexts" /\ (ListNext \/ ListFinished)
     /\ UNCHANGED <<part, transportVars, defaultVars>>
  \/ /\ part = "transport" /\ (TransportNext \/ TransportFinished)
     /\ UNCHANGED <<part, listVars, defaultVars>>
  \/ /\ part = "default" /\ (DefaultNext \/ DefaultFinished)
     /\ UNCHANGED <<part, listVars, transportVars>>

PartsSpec ==
  /\ PartsInit /\ [][PartsNext]_allVars
  /\ ListFairness /\ TransportFairness /\ DefaultFairness
=============================================================================
