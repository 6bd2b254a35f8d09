---------------------------- MODULE MCPhaseHopper ----------------------------
(* Instances of PhaseHopper: start_of_simulation, then run beside the      *)
(* phases of a domain, then extract.                                       *)
EXTENDS PhaseHopper

(* 1 start_of_simulation, 2 run, 3 and 4 the domain, 5 its end, 6 extract. *)
MainKind == [p \in 1 .. 6 |-> IF p \in {1, 6} THEN "function"
                              ELSE IF p = 5 THEN "terminal" ELSE "task"]
MainEdges == {<<1, 2>>, <<1, 3>>, <<3, 4>>, <<4, 5>>, <<2, 6>>, <<5, 6>>}

(* 1 start_of_simulation, 2 run, 3 the domain, 4 extract. *)
SmallKind == [p \in 1 .. 4 |-> IF p \in {1, 4} THEN "function" ELSE "task"]
SmallEdges == {<<1, 2>>, <<1, 3>>, <<2, 4>>, <<3, 4>>}

(* A domain with 2 and 3 and a domain with 4, synced to 3, between 1 and 5. *)
TwinKind == [p \in 1 .. 5 |-> IF p \in {1, 5} THEN "function" ELSE "task"]
TwinEdges == {<<1, 2>>, <<2, 3>>, <<3, 5>>, <<1, 4>>, <<4, 5>>}
TwinSync == {<<3, 4>>}

NoPairs == {}
Back == {<<4, 3>>}
BothWays == {<<4, 3>>, <<3, 6>>}
TwinJumps == {<<3, 2>>, <<2, 5>>}
ToStart == {<<2, 1>>}
=============================================================================
