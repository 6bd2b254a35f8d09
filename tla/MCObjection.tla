----------------------------- MODULE MCObjection -----------------------------
(* Instances of Objection: an environment E with the agents A and B, and a  *)
(* sequence Q of A's sequencer.                                             *)
EXTENDS Objection

CONSTANTS T, E, A, B, Q

PairSeq == {T, E, A, B, Q}
PairSeqParent == [o \in PairSeq |-> CASE o \in {A, B} -> E [] o = Q -> A [] OTHER -> T]
WithSeq == {T, A, Q}
WithSeqParent == [o \in WithSeq |-> IF o = Q THEN A ELSE T]
=============================================================================
