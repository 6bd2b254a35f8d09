------------------------- MODULE MCSequencerDriver -------------------------
(* Instances of SequencerDriver: unrelated sequences A and B, and the        *)
(* process a2 forked by the body of A.                                      *)
EXTENDS SequencerDriver

CONSTANTS A, B, a1, a2, b1

Pair == {A, B}
PairAncestors == [s \in Pair |-> {}]
TwoThreads == {a1, a2, b1}
OneEach == {a1, b1}
TwoThreadsSeqOf == [t \in TwoThreads |-> IF t = b1 THEN B ELSE A]
OneEachSeqOf == [t \in OneEach |-> IF t = b1 THEN B ELSE A]
Flat == [t \in Threads |-> 100]
=============================================================================
