---------------------------- MODULE MCSdmaQueue ----------------------------
(* TLC instances of SdmaQueue. *)
EXTENDS SdmaQueue

CONSTANTS w1, w2, w3, a, b

OwnContexts == [w \in Waves |-> IF w = w1 THEN a ELSE b]
OneContext == [w \in Waves |-> a]

(* Two wavefronts send two laps of copies, with quiets and blocking *)
(* copies among them; or three race for the room of one.                *)
Laps ==
  {[w \in Waves |-> IF w = w1 THEN <<"PUT_NBI", x, "QUIET">>
                    ELSE IF w = w2 THEN <<y, "PUT_NBI">> ELSE <<"QUIET">>] :
     x \in Puts, y \in {"PUT", "QUIET"}}
Race == {[w \in Waves |-> IF w = w3 THEN <<x>> ELSE <<"PUT_NBI">>] : x \in Puts}

LapsAndRace == Laps \cup Race

(* A copy and a quiet each. *)
PutThenQuiet == {[w \in Waves |-> <<"PUT_NBI", "QUIET">>]}
=============================================================================
