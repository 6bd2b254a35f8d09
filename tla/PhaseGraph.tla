------------------------------ MODULE PhaseGraph ------------------------------
(***************************************************************************)
(* The graph of phases of all domains, which is fixed before run_phases.   *)
(* Phases are numbered in the order in which foreach visits their handles. *)
(***************************************************************************)
EXTENDS Naturals, FiniteSets

CONSTANTS
  Phases,    \* the phases of the graph
  Edges,     \* from a phase to a successor
  Kind,      \* "task", "function", or "terminal" for what is not a node
  SyncPairs, \* pairs of phases of two domains that uvm_phase::sync() relates
  First      \* the common domain, where the hopper starts

ASSUME GraphAssumption ==
  /\ Phases \subseteq Nat \ {0} /\ IsFiniteSet(Phases)
  /\ Edges \subseteq Phases \X Phases
  /\ Kind \in [Phases -> {"task", "function", "terminal"}]
  /\ SyncPairs \subseteq Phases \X Phases
  /\ First \in Phases

Succ == [p \in Phases |-> {q \in Phases : <<p, q>> \in Edges}]
Pred == [p \in Phases |-> {q \in Phases : <<q, p>> \in Edges}]
SyncWith == [p \in Phases |-> {q \in Phases : <<p, q>> \in SyncPairs \/ <<q, p>> \in SyncPairs}]

(* What paths from p lead to that do not go on through end. *)
Reach ==
  [p \in Phases |-> [end \in Phases \cup {0} |->
     {q \in Phases : \A S \in SUBSET Phases :
        p \in S /\ (\A x \in S \ {end} : Succ[x] \subseteq S) => q \in S}]]
Downstream == [p \in Phases |-> Reach[p][0]]

(* The common domain precedes every phase: what is not behind it is never  *)
(* queued, and nothing is put before it.                                   *)
ASSUME RootAssumption == Pred[First] = {} /\ Downstream[First] = Phases

(* Adjacent nodes, those beyond terminals included. *)
Adjacent(next) ==
  [p \in Phases |->
     {q \in Phases : Kind[q] # "terminal" /\ \A S \in SUBSET Phases :
        next[p] \subseteq S /\ (\A x \in S : Kind[x] = "terminal" => next[x] \subseteq S)
          => q \in S}]
NodeSucc == Adjacent(Succ)
NodePred == Adjacent(Pred)

(* get_predecessors_for_successors: the phases that end when p ends. *)
Peers == [p \in Phases |-> UNION {NodePred[q] : q \in NodeSucc[p]} \ {p}]
=============================================================================
