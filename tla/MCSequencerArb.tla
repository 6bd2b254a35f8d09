--------------------------- MODULE MCSequencerArb ---------------------------
(* Instances of SequencerArb: sequence C is a child of A, B is unrelated. *)
EXTENDS SequencerArb

CONSTANTS A, B, C, a1, a2, b1, c1

FamilySeqs == {A, B, C}
FamilyAncestors == [s \in FamilySeqs |-> IF s = C THEN {A} ELSE {}]
OneThread == {a1, b1, c1}
TwoThreads == {a1, a2, b1}
OwnerOf(ts) ==
  [t \in ts |-> CASE t \in {a1, a2} -> A [] t = b1 -> B [] t = c1 -> C]
OneEach == {a1, b1}
OneEachSeqOf == OwnerOf(OneEach)
OneThreadSeqOf == OwnerOf(OneThread)
TwoThreadsSeqOf == OwnerOf(TwoThreads)
Pair == {A, B}
PairAncestors == [s \in Pair |-> {}]
Flat == [t \in Threads |-> 100]
Graded == [t \in Threads |-> CASE t = a1 -> 100 [] t = b1 -> 200 [] OTHER -> 0]
=============================================================================
