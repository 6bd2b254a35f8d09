------------------------------ MODULE EndOfTest ------------------------------
(***************************************************************************)
(* What an objection is for: a consensus of independent sources that the   *)
(* phase may end.  over says that the end was agreed upon; any new         *)
(* objection revokes it.                                                   *)
(***************************************************************************)
EXTENDS Naturals

CONSTANT Sources

VARIABLES raised, over

vars == <<raised, over>>

Init == raised = [s \in Sources |-> 0] /\ over = FALSE

Raise(s) ==
  /\ raised' \in [Sources -> Nat]
  /\ raised'[s] > raised[s]
  /\ \A r \in Sources \ {s} : raised'[r] = raised[r]
  /\ over' = FALSE

Drop(s) ==
  /\ raised' \in [Sources -> Nat]
  /\ raised'[s] < raised[s]
  /\ \A r \in Sources \ {s} : raised'[r] = raised[r]
  /\ UNCHANGED over

Agree == over' = TRUE /\ UNCHANGED raised /\ \A s \in Sources : raised[s] = 0

Clear == raised' = [s \in Sources |-> 0] /\ over' = FALSE

Next == Agree \/ Clear \/ \E s \in Sources : Raise(s) \/ Drop(s)

Spec == Init /\ [][Next]_vars
=============================================================================
