-------------------------- MODULE MCPacketPipeline --------------------------
(* Instances of PacketPipeline for TLC.                                     *)
EXTENDS PacketPipeline

Some == CHOOSE v \in Values : TRUE

\* A re-referenced packet carries any value, or an empty payload; an ordinary
\* one a valid or an invalid value, as no property tells its values apart; a
\* batch no sectors, which the wire format allows, or two, the last of which
\* may be invalid.
MCBodies ==
  [t \in Tags |->
     IF t \in Batched
     THEN {<<>>} \cup {<<v, w>> : v \in Values \ {Some}, w \in {Some, Invalid}}
     ELSE IF t \in Rereference
     THEN {<<v>> : v \in Values \cup {Invalid}} \cup {<<>>}
     ELSE {<<Some>>, <<Invalid>>}]

\* A re-referenced packet has two listeners, the others one.
MCListeners == [t \in Tags |-> IF t \in Rereference THEN 2 ELSE 1]
=============================================================================
