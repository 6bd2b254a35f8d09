------------------------------ MODULE PhaseOrder ------------------------------
(***************************************************************************)
(* What phasing promises: a phase runs when all its predecessors are done, *)
(* one jump moves control without disturbing what runs elsewhere, and the  *)
(* run is over when every phase is done.                                   *)
(***************************************************************************)
EXTENDS PhaseGraph

VARIABLES status, over

vars == <<status, over>>

Init == status = [p \in Phases |-> "waiting"] /\ over = FALSE

Begin(p) ==
  /\ status[p] = "waiting"
  /\ \A q \in Pred[p] : status[q] = "done"
  /\ status' = [status EXCEPT ![p] = "running"]
  /\ UNCHANGED over

Finish(p) ==
  /\ status[p] = "running"
  /\ status' = [status EXCEPT ![p] = "done"]
  /\ UNCHANGED over

(* p passes control to t; a jump forward counts what lies between as done. *)
Jump(p, t) ==
  /\ status[p] = "running"
  /\ \A q \in Downstream[t] \ {p} : status[q] # "running"
  /\ status' = [q \in Phases |->
                  IF q \in Downstream[t] THEN "waiting"
                  ELSE IF t \in Downstream[p] /\ q \in Reach[p][t] THEN "done"
                  ELSE status[q]]
  /\ UNCHANGED over

Stop ==
  /\ \A p \in Phases : status[p] = "done"
  /\ over' = TRUE
  /\ UNCHANGED status

Next == Stop \/ \E p \in Phases : Begin(p) \/ Finish(p) \/ \E t \in Phases : Jump(p, t)

Spec == Init /\ [][Next]_vars
=============================================================================
