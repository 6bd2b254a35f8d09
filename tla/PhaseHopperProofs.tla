-------------------------- MODULE PhaseHopperProofs --------------------------
(***************************************************************************)
(* For every graph of phases and every number of processes: the types,     *)
(* whatever jumps; and until a jump lands (NoneLands), whatever objects,   *)
(* ends early or asks for a jump, a phase is in the hopper once, its       *)
(* threads are known to it, it ends unopposed, and phases keep the order   *)
(* of the graph.                                                           *)
(*                                                                         *)
(* Nothing of this is inductive alone.  Where a process stands says the    *)
(* state of its phase and what it still has to visit (Led), the state of a *)
(* phase says where in the hopper it is (Placed), what is done has handed  *)
(* over to its successors (Passed), and threads belong to the phase that   *)
(* started them (Known).                                                   *)
(***************************************************************************)
EXTENDS PhaseHopper, WellFoundedInduction, TLAPS

NodeType ==
  [st : {Dormant, Scheduled, Syncing, Started, Executing, ReadyToEnd,
         Ended, Cleanup, Done, Jumping},
   jump : Phases \cup {0}, fwd : BOOLEAN, early : BOOLEAN, proc : BOOLEAN]

ObjectionType == [raised : Nat, drain : BOOLEAN, all : BOOLEAN]

ProcessType ==
  [ph : Phases \cup {0}, pc : Points, at : {"run", "zero", "nba"}, todo : SUBSET Phases,
   on : Phases \cup {0}, again : BOOLEAN, n : 0 .. MaxReady]

(* Beside the types: a process has a phase until it is free, it queues a   *)
(* phase that it still has to visit, READY_TO_END is repeated only so      *)
(* often, and threads that a phase knows are alive.                        *)
Typed ==
  /\ TypeOK
  /\ \A s \in Slots :
       /\ procs[s].pc = "free" <=> procs[s].ph = 0
       /\ procs[s].pc = "put" => procs[s].todo # {}
       /\ procs[s].pc = "ready" => procs[s].n < MaxReady
  /\ \A p \in Phases : node[p].proc => bodies[p] > 0

(* The next phase of a loop is the least that is left. *)
LEMMA LeastOf ==
  ASSUME NEW S \in SUBSET Nat, S # {}
  PROVE  Min(S) \in S /\ \A y \in S : Min(S) <= y
<1> DEFINE R == {ss \in Nat \X Nat : ss[1] < ss[2]}
<1>1. IsWellFoundedOn(R, Nat)
  BY NatLessThanWellFounded DEF OpToRel
<1>2. PICK m \in S : \A y \in S : ~ (<<y, m>> \in R)
  <2> HIDE DEF R
  <2> QED
    BY <1>1, WFMin
<1>3. \A y \in S : m <= y
  <2> SUFFICES ASSUME NEW y \in S PROVE m <= y
    OBVIOUS
  <2>1. ~(y < m)
    BY <1>2
  <2> QED
    BY <2>1
<1> QED
  BY <1>3 DEF Min

LEMMA GraphType ==
  /\ 0 \notin Phases /\ Phases \subseteq Nat
  /\ \A p \in Phases : /\ Succ[p] \in SUBSET Phases /\ Pred[p] \in SUBSET Phases
                       /\ SyncWith[p] \in SUBSET Phases /\ Peers[p] \in SUBSET Phases
                       /\ Siblings(p) \in SUBSET Phases
                       /\ \A q \in Phases : q \in Succ[p] <=> p \in Pred[q]
<1>1. 0 \notin Phases /\ Phases \subseteq Nat
  BY GraphAssumption
<1>2. ASSUME NEW p \in Phases
      PROVE  /\ Succ[p] \in SUBSET Phases /\ Pred[p] \in SUBSET Phases
             /\ SyncWith[p] \in SUBSET Phases
             /\ \A q \in Phases : q \in Succ[p] <=> p \in Pred[q]
  BY DEF Succ, Pred, SyncWith
<1>3. \A q \in Phases : NodePred[q] \in SUBSET Phases
  BY DEF NodePred, Adjacent
<1>4. \A p \in Phases : NodeSucc[p] \in SUBSET Phases
  BY DEF NodeSucc, Adjacent
<1>5. \A p \in Phases : Peers[p] \in SUBSET Phases
  BY <1>3, <1>4 DEF Peers
<1> QED
  BY <1>1, <1>2, <1>5 DEF Siblings

(* What the event of an objection does to the processes: who waits for it  *)
(* goes on with the siblings, all others stay where they are.              *)
Woke(a, b) ==
  /\ a.pc \in {"await", "sibwait"}
  /\ b = [a EXCEPT !.pc = "sibs", !.on = 0,
                   !.todo = IF a.pc = "await" THEN Siblings(a.on) ELSE a.todo \ {a.on}]
  /\ a.on \in Phases

LEMMA WokeMeans ==
  ASSUME NEW a \in ProcessType, NEW b, Woke(a, b)
  PROVE  /\ a.pc \in {"await", "sibwait"} /\ a.on \in Phases
         /\ b.ph = a.ph /\ b.pc = "sibs" /\ b.on = 0 /\ b.at = a.at
         /\ b.again = a.again /\ b.n = a.n
         /\ b.todo = IF a.pc = "await" THEN Siblings(a.on) ELSE a.todo \ {a.on}
BY DEF Woke, ProcessType

LEMMA WokenIs ==
  ASSUME NEW pr \in [Slots -> ProcessType], NEW S \in SUBSET Phases
  PROVE  /\ Woken(pr, S) \in [Slots -> ProcessType]
         /\ \A x \in Slots : Woken(pr, S)[x] = pr[x] \/ Woke(pr[x], Woken(pr, S)[x])
<1>1. ASSUME NEW x \in Slots
      PROVE  /\ Woken(pr, S)[x] \in ProcessType
             /\ Woken(pr, S)[x] = pr[x] \/ Woke(pr[x], Woken(pr, S)[x])
  <2> DEFINE a == pr[x]
             b == Woken(pr, S)[x]
  <2>1. a \in ProcessType
    OBVIOUS
  <2>2. b = IF a.pc = "await" /\ a.on \in S
              THEN [a EXCEPT !.pc = "sibs", !.on = 0, !.todo = Siblings(a.on)]
            ELSE IF a.pc = "sibwait" /\ a.on \in S
              THEN [a EXCEPT !.pc = "sibs", !.on = 0, !.todo = @ \ {a.on}]
            ELSE a
    BY DEF Woken
  <2> HIDE DEF a, b
  <2>3. b = a \/ Woke(a, b)
    BY <2>2 DEF Woke
  <2>4. a.on \in Phases => Siblings(a.on) \in SUBSET Phases
    BY GraphType
  <2>5. b \in ProcessType
    <3>1. CASE b = a
      BY <2>1, <3>1
    <3>2. CASE Woke(a, b)
      <4>1. a.on \in Phases /\ a.todo \in SUBSET Phases
        BY <2>1, <3>2 DEF ProcessType, Woke
      <4> DEFINE t == IF a.pc = "await" THEN Siblings(a.on) ELSE a.todo \ {a.on}
      <4>2. t \in SUBSET Phases
        BY <2>4, <4>1
      <4>3. b = [a EXCEPT !.pc = "sibs", !.on = 0, !.todo = t]
        BY <3>2 DEF Woke
      <4> HIDE DEF t
      <4> QED
        BY <2>1, <4>2, <4>3 DEF ProcessType, Points
    <3> QED
      BY <2>3, <3>1, <3>2
  <2> QED
    BY <2>3, <2>5 DEF a, b
<1> DEFINE W == Woken(pr, S)
<1>2. W = [x \in Slots |-> W[x]]
  BY DEF Woken
<1>3. ASSUME NEW x \in Slots
      PROVE  W[x] \in ProcessType /\ (W[x] = pr[x] \/ Woke(pr[x], W[x]))
  BY <1>1
<1> HIDE DEF W
<1>4. W \in [Slots -> ProcessType]
  BY <1>2, <1>3
<1>5. W \in [Slots -> ProcessType] /\ \A x \in Slots : W[x] = pr[x] \/ Woke(pr[x], W[x])
  BY <1>3, <1>4
<1> QED
  BY <1>5 DEF W

Same(x) == procs'[x] = procs[x] \/ Woke(procs[x], procs'[x])

LEMMA InitTyped == Init => Typed
<1> SUFFICES ASSUME Init PROVE Typed
  OBVIOUS
<1>1. node \in [Phases -> NodeType] /\ \A p \in Phases : ~node[p].proc
  BY DEF Init, NodeType, Dormant
<1>2. bodies \in [Phases -> Nat] /\ objn \in [Phases -> ObjectionType]
  BY DEF Init, ObjectionType, Silent
<1>3. queue \in Seq(Phases)
  BY GraphAssumption DEF Init
<1>4. Free \in ProcessType /\ Free.pc = "free" /\ Free.ph = 0
  BY HopperAssumption DEF Free, Process, ProcessType, Points
<1>5. procs \in [Slots -> ProcessType] /\ \A s \in Slots : procs[s] = Free
  BY <1>4 DEF Init
<1>6. over \in BOOLEAN /\ calls \in 0 .. MaxCalls
  <2>1. over = FALSE /\ calls = 0
    BY DEF Init
  <2>2. calls \in 0 .. MaxCalls
    BY <2>1, HopperAssumption
  <2>3. over \in BOOLEAN
    BY <2>1
  <2> QED
    BY <2>2, <2>3
<1>7. TypeOK
  BY <1>1, <1>2, <1>3, <1>5, <1>6 DEF TypeOK, NodeType, ObjectionType, ProcessType
<1> QED
  BY <1>1, <1>4, <1>5, <1>7 DEF Typed

LEMMA TypedMeans ==
  ASSUME Typed
  PROVE  /\ node \in [Phases -> NodeType] /\ bodies \in [Phases -> Nat]
         /\ objn \in [Phases -> ObjectionType] /\ queue \in Seq(Phases)
         /\ procs \in [Slots -> ProcessType] /\ over \in BOOLEAN /\ calls \in 0 .. MaxCalls
         /\ \A s \in Slots : procs[s].pc # "free" => procs[s].ph \in Phases
BY DEF Typed, TypeOK, NodeType, ObjectionType, ProcessType

LEMMA StatesAre ==
  ASSUME Typed, NEW q \in Phases
  PROVE  /\ State(q) \in {Dormant, Scheduled, Syncing, Started, Executing, ReadyToEnd,
                          Ended, Cleanup, Done, Jumping}
         /\ State(q) \in Nat
<1>1. State(q) \in {Dormant, Scheduled, Syncing, Started, Executing, ReadyToEnd,
                    Ended, Cleanup, Done, Jumping}
  BY TypedMeans DEF State, NodeType
<1> QED
  BY <1>1 DEF Dormant, Scheduled, Syncing, Started, Executing, ReadyToEnd,
              Ended, Cleanup, Done, Jumping

(* The next phase of a loop is one of it. *)
LEMMA NextIs ==
  ASSUME Typed, NEW s \in Slots, procs[s].todo # {}
  PROVE  NextOf(s) \in procs[s].todo /\ NextOf(s) \in Phases
<1>1. procs[s].todo \in SUBSET Phases
  BY TypedMeans DEF ProcessType
<1>2. procs[s].todo \in SUBSET Nat
  BY <1>1, GraphType
<1> QED
  BY <1>1, <1>2, LeastOf DEF NextOf

(* What a process may be. *)
Fit(r) ==
  /\ r \in ProcessType
  /\ r.pc = "free" <=> r.ph = 0
  /\ r.pc = "put" => r.todo # {}
  /\ r.pc = "ready" => r.n < MaxReady

ProcessesFit == procs \in [Slots -> ProcessType] /\ \A x \in Slots : Fit(procs[x])

LEMMA ProcessFits ==
  ASSUME Typed
  PROVE  ProcessesFit
BY TypedMeans DEF Typed, Fit, ProcessesFit

LEMMA Refit ==
  ASSUME Typed, NEW s \in Slots, NEW r, Fit(r), procs' = [procs EXCEPT ![s] = r]
  PROVE  /\ ProcessesFit' /\ procs'[s] = r
         /\ \A x \in Slots \ {s} : procs'[x] = procs[x]
<1>1. procs \in [Slots -> ProcessType] /\ \A x \in Slots : Fit(procs[x])
  BY ProcessFits DEF ProcessesFit
<1>2. r \in ProcessType
  BY DEF Fit
<1>3. procs' \in [Slots -> ProcessType] /\ \A x \in Slots : procs'[x] = IF x = s THEN r ELSE procs[x]
  BY <1>1, <1>2
<1>4. \A x \in Slots : Fit(procs'[x])
  BY <1>1, <1>3
<1> QED
  BY <1>1, <1>3, <1>4 DEF ProcessesFit, Fit

(* A process stays with its phase, and the others where they are. *)
Becomes(s, pc, todo, on, again, n) ==
  /\ ProcessesFit'
  /\ procs'[s].ph = procs[s].ph /\ procs'[s].pc = pc /\ procs'[s].todo = todo
  /\ procs'[s].on = on /\ procs'[s].again = again /\ procs'[s].n = n
  /\ \A x \in Slots \ {s} : Same(x)

LEMMA BecomesWhat ==
  ASSUME Typed, NEW s \in Slots, procs[s].pc # "free", NEW r,
         procs' = [procs EXCEPT ![s] = r], r \in ProcessType, r.ph = procs[s].ph,
         r.pc # "free", r.pc = "put" => r.todo # {}, r.pc = "ready" => r.n < MaxReady
  PROVE  Becomes(s, r.pc, r.todo, r.on, r.again, r.n)
<1>1. Fit(r)
  BY DEF Fit, Typed
<1> QED
  BY <1>1, Refit DEF Becomes, Same

LEMMA LoopBecomes ==
  ASSUME Typed, NEW s \in Slots, procs[s].pc # "free",
         NEW pc \in Points \ {"free"}, NEW at \in {"run", "zero", "nba"},
         NEW todo \in SUBSET Phases, procs' = Loop(s, pc, at, todo),
         pc = "put" => todo # {}, pc = "ready" => procs[s].n < MaxReady
  PROVE  Becomes(s, pc, todo, procs[s].on, procs[s].again, procs[s].n)
<1> DEFINE r == [procs[s] EXCEPT !.pc = pc, !.at = at, !.todo = todo]
<1>1. procs' = [procs EXCEPT ![s] = r]
  BY TypedMeans DEF Loop
<1>2. procs[s] \in ProcessType
  BY TypedMeans
<1>3. /\ r \in ProcessType /\ r.ph = procs[s].ph /\ r.pc = pc /\ r.todo = todo
      /\ r.on = procs[s].on /\ r.again = procs[s].again /\ r.n = procs[s].n
  BY <1>2 DEF ProcessType
<1> HIDE DEF r
<1>4. Becomes(s, r.pc, r.todo, r.on, r.again, r.n)
  BY <1>1, <1>3, BecomesWhat
<1> QED
  BY <1>3, <1>4

LEMMA GotoBecomes ==
  ASSUME Typed, NEW s \in Slots, procs[s].pc # "free",
         NEW pc \in Points \ {"free", "ready"}, NEW at \in {"run", "zero", "nba"},
         procs' = Goto(s, pc, at), pc = "put" => procs[s].todo # {}
  PROVE  Becomes(s, pc, procs[s].todo, procs[s].on, procs[s].again, procs[s].n)
<1> DEFINE r == [procs[s] EXCEPT !.pc = pc, !.at = at]
<1>1. procs' = [procs EXCEPT ![s] = r]
  BY TypedMeans DEF Goto
<1>2. procs[s] \in ProcessType
  BY TypedMeans
<1>3. /\ r \in ProcessType /\ r.ph = procs[s].ph /\ r.pc = pc /\ r.todo = procs[s].todo
      /\ r.on = procs[s].on /\ r.again = procs[s].again /\ r.n = procs[s].n
  BY <1>2 DEF ProcessType
<1> HIDE DEF r
<1>4. Becomes(s, r.pc, r.todo, r.on, r.again, r.n)
  BY <1>1, <1>3, BecomesWhat
<1> QED
  BY <1>3, <1>4

(* A turn of a loop. *)
LEMMA TurnBecomes ==
  ASSUME Typed, NEW s \in Slots, procs[s].pc \notin {"free", "put"},
         NEW todo \in SUBSET Phases, procs' = [procs EXCEPT ![s].todo = todo]
  PROVE  Becomes(s, procs[s].pc, todo, procs[s].on, procs[s].again, procs[s].n)
<1> DEFINE r == [procs[s] EXCEPT !.todo = todo]
<1>1. procs' = [procs EXCEPT ![s] = r]
  BY TypedMeans
<1>2. procs[s] \in ProcessType /\ (procs[s].pc = "ready" => procs[s].n < MaxReady)
  BY TypedMeans DEF Typed
<1>3. /\ r \in ProcessType /\ r.ph = procs[s].ph /\ r.pc = procs[s].pc /\ r.todo = todo
      /\ r.on = procs[s].on /\ r.again = procs[s].again /\ r.n = procs[s].n
  BY <1>2 DEF ProcessType
<1> HIDE DEF r
<1>4. Becomes(s, r.pc, r.todo, r.on, r.again, r.n)
  BY <1>1, <1>2, <1>3, BecomesWhat
<1> QED
  BY <1>3, <1>4

LEMMA AtIs ==
  ASSUME Typed, NEW s \in Slots, NEW pc, At(s, pc), pc # "free"
  PROVE  /\ procs[s].ph \in Phases /\ procs[s].pc = pc /\ procs[s] \in ProcessType
         /\ procs[s].todo \in SUBSET Phases
         /\ procs[s].pc # "free"
BY TypedMeans DEF At, ProcessType

LEMMA VisitMoves ==
  ASSUME Typed, NEW s \in Slots, Visit(s)
  PROVE  Becomes(s, procs[s].pc, procs[s].todo \ {NextOf(s)},
                 procs[s].on, procs[s].again, procs[s].n)
<1>1. /\ procs[s].pc \in {"preds", "sync", "peers"}
      /\ procs' = [procs EXCEPT ![s].todo = procs[s].todo \ {NextOf(s)}]
  BY TypedMeans DEF Visit, At
<1>2. procs[s].todo \ {NextOf(s)} \in SUBSET Phases
  BY TypedMeans DEF ProcessType
<1> QED
  BY <1>1, <1>2, TurnBecomes

LEMMA WatchMoves ==
  ASSUME Typed, NEW s \in Slots, Watch(s)
  PROVE  \/ /\ objn[procs[s].ph].raised > 0
            /\ Becomes(s, "await", {}, procs[s].ph, procs[s].again, procs[s].n)
         \/ Becomes(s, "sibs", Siblings(procs[s].ph), procs[s].on, procs[s].again, procs[s].n)
<1> DEFINE p == procs[s].ph
           r == [procs[s] EXCEPT !.pc = "await", !.at = "run", !.todo = {}, !.on = p]
<1>1. p \in Phases /\ procs[s] \in ProcessType /\ procs[s].pc # "free"
  BY AtIs DEF Watch
<1>2. Siblings(p) \in SUBSET Phases
  BY <1>1, GraphType
<1>3. \/ /\ objn[p].raised > 0
         /\ procs' = [Loop(s, "await", "run", {}) EXCEPT ![s].on = p]
      \/ procs' = Loop(s, "sibs", "run", Siblings(p))
  BY DEF Watch
<1>4. CASE /\ objn[p].raised > 0
           /\ procs' = [Loop(s, "await", "run", {}) EXCEPT ![s].on = p]
  <2>1. procs' = [procs EXCEPT ![s] = r]
    BY <1>4, TypedMeans DEF Loop
  <2>2. /\ r \in ProcessType /\ r.ph = p /\ r.pc = "await" /\ r.todo = {}
        /\ r.on = p /\ r.again = procs[s].again /\ r.n = procs[s].n
    BY <1>1 DEF ProcessType, Points
  <2> HIDE DEF r
  <2>3. Becomes(s, r.pc, r.todo, r.on, r.again, r.n)
    BY <1>1, <2>1, <2>2, BecomesWhat
  <2> QED
    BY <1>4, <2>2, <2>3
<1>5. CASE procs' = Loop(s, "sibs", "run", Siblings(p))
  BY <1>1, <1>2, <1>5, LoopBecomes DEF Points
<1> QED
  BY <1>3, <1>4, <1>5

LEMMA ReadyMoves ==
  ASSUME Typed, NEW s \in Slots, Ready(s)
  PROVE  Becomes(s, "sibs", Siblings(procs[s].ph), procs[s].on, procs[s].again, procs[s].n + 1)
<1> DEFINE p == procs[s].ph
           S == Siblings(p)
           r == [procs[s] EXCEPT !.pc = "sibs", !.at = "nba", !.todo = S, !.n = procs[s].n + 1]
<1>1. p \in Phases /\ procs[s] \in ProcessType /\ procs[s].pc = "ready"
  BY AtIs DEF Ready
<1>2. procs[s].n + 1 \in 0 .. MaxReady
  BY <1>1, HopperAssumption DEF Typed, ProcessType
<1>3. S \in SUBSET Phases
  BY <1>1, GraphType
<1>4. procs' = [procs EXCEPT ![s] = r]
  BY TypedMeans DEF Ready, Loop
<1> HIDE DEF S
<1>5. /\ r \in ProcessType /\ r.ph = p /\ r.pc = "sibs" /\ r.todo = S
      /\ r.on = procs[s].on /\ r.again = procs[s].again /\ r.n = procs[s].n + 1
  BY <1>1, <1>2, <1>3 DEF ProcessType, Points
<1> HIDE DEF r
<1>6. Becomes(s, r.pc, r.todo, r.on, r.again, r.n)
  BY <1>1, <1>4, <1>5, BecomesWhat
<1> QED
  BY <1>5, <1>6 DEF S

LEMMA EndEarlyMoves ==
  ASSUME Typed, NEW s \in Slots, EndEarly(s)
  PROVE  /\ procs[s].pc \in {"watch", "await", "sibs", "sibwait", "ready"}
         /\ Becomes(s, "end", {}, 0, FALSE, 0)
<1> DEFINE r == Process(procs[s].ph, "end", {})
<1>1. procs[s].pc \in {"watch", "await", "sibs", "sibwait", "ready"}
  BY DEF EndEarly, Interruptible, At
<1>2. /\ r \in ProcessType /\ r.ph = procs[s].ph /\ r.pc = "end" /\ r.todo = {}
      /\ r.on = 0 /\ r.again = FALSE /\ r.n = 0
  BY TypedMeans, HopperAssumption DEF Process, ProcessType, Points
<1>3. procs' = [procs EXCEPT ![s] = r]
  BY DEF EndEarly
<1> HIDE DEF r
<1>4. Becomes(s, r.pc, r.todo, r.on, r.again, r.n)
  BY <1>1, <1>2, <1>3, BecomesWhat
<1> QED
  BY <1>1, <1>2, <1>4

LEMMA WokenFits ==
  ASSUME NEW pr \in [Slots -> ProcessType], \A x \in Slots : Fit(pr[x]),
         NEW S \in SUBSET Phases, procs' = Woken(pr, S)
  PROVE  /\ ProcessesFit'
         /\ \A x \in Slots : procs'[x] = pr[x] \/ Woke(pr[x], procs'[x])
<1>1. /\ procs' \in [Slots -> ProcessType]
      /\ \A x \in Slots : procs'[x] = pr[x] \/ Woke(pr[x], procs'[x])
  BY WokenIs
<1>2. ASSUME NEW x \in Slots PROVE Fit(procs'[x])
  <2>1. Fit(pr[x]) /\ procs'[x] \in ProcessType /\ pr[x] \in ProcessType
    BY <1>1
  <2>2. CASE procs'[x] = pr[x]
    BY <2>1, <2>2
  <2>3. CASE Woke(pr[x], procs'[x])
    <3>1. /\ pr[x].pc # "free" /\ procs'[x].ph = pr[x].ph /\ procs'[x].pc = "sibs"
      BY <2>1, <2>3, WokeMeans
    <3> QED
      BY <2>1, <3>1 DEF Fit
  <2> QED
    BY <1>1, <2>2, <2>3
<1> QED
  BY <1>1, <1>2 DEF ProcessesFit, Fit

LEMMA ClearedIs ==
  ASSUME Typed, NEW p \in Phases
  PROVE  /\ node[p].jump \in Phases \cup {0}
         /\ Cleared(p, node[p].jump) \in SUBSET Phases
<1>1. node[p].jump \in Phases \cup {0}
  BY TypedMeans DEF NodeType
<1>2. \A a \in Phases, b \in Phases \cup {0} : Reach[a][b] \in SUBSET Phases
  BY DEF Reach
<1>3. \A a \in Phases : Downstream[a] \in SUBSET Phases
  BY <1>2 DEF Downstream
<1> QED
  BY <1>1, <1>2, <1>3 DEF Cleared

LEMMA FinishMoves ==
  ASSUME Typed, NEW s \in Slots, Finish(s)
  PROVE  Becomes(s, "schedule", procs[s].todo, node[procs[s].ph].jump,
                 procs[s].again, procs[s].n)
<1> DEFINE p == procs[s].ph
           t == node[p].jump
           W == Woken(procs, Cleared(p, t))
           r == [procs[s] EXCEPT !.pc = "schedule", !.at = "zero", !.on = t]
<1>1. p \in Phases /\ procs[s] \in ProcessType /\ procs[s].pc = "finish"
  BY AtIs DEF Finish
<1>2. t \in Phases \cup {0} /\ Cleared(p, t) \in SUBSET Phases
  BY <1>1, ClearedIs
<1>3. /\ W \in [Slots -> ProcessType]
      /\ \A x \in Slots : W[x] = procs[x] \/ Woke(procs[x], W[x])
  BY <1>2, TypedMeans, WokenIs
<1>4. procs' = [W EXCEPT ![s].pc = "schedule", ![s].at = "zero", ![s].on = t]
  BY DEF Finish
<1> HIDE DEF W, t
<1>5. W[s] = procs[s]
  BY <1>1, <1>3 DEF Woke
<1>6. /\ r \in ProcessType /\ r.ph = p /\ r.pc = "schedule" /\ r.todo = procs[s].todo
      /\ r.on = t /\ r.again = procs[s].again /\ r.n = procs[s].n
  BY <1>1, <1>2 DEF ProcessType, Points
<1>7. procs' = [W EXCEPT ![s] = r]
  <2>1. procs' = [W EXCEPT ![s] = [W[s] EXCEPT !.pc = "schedule", !.at = "zero", !.on = t]]
    BY <1>3, <1>4
  <2> QED
    BY <1>5, <2>1
<1> HIDE DEF r
<1>8. /\ procs'[s] = r /\ procs' \in [Slots -> ProcessType]
      /\ \A x \in Slots \ {s} : procs'[x] = W[x]
  BY <1>3, <1>6, <1>7
<1>9. \A x \in Slots \ {s} : Same(x)
  BY <1>3, <1>8 DEF Same
<1>10. ASSUME NEW x \in Slots PROVE Fit(procs'[x])
  <2>1. CASE x = s
    BY <1>1, <1>6, <1>8, <2>1, GraphType DEF Fit
  <2>2. CASE x # s
    <3>1. Fit(procs[x]) /\ procs'[x] \in ProcessType /\ procs[x] \in ProcessType
      BY <1>8, ProcessFits, TypedMeans DEF ProcessesFit
    <3>2. CASE procs'[x] = procs[x]
      BY <3>1, <3>2
    <3>3. CASE Woke(procs[x], procs'[x])
      <4>1. procs[x].pc # "free" /\ procs'[x].ph = procs[x].ph /\ procs'[x].pc = "sibs"
        BY <3>1, <3>3, WokeMeans
      <4> QED
        BY <3>1, <4>1 DEF Fit
    <3> QED
      BY <1>9, <2>2, <3>2, <3>3 DEF Same
  <2> QED
    BY <2>1, <2>2
<1> QED
  BY <1>6, <1>8, <1>9, <1>10 DEF Becomes, ProcessesFit, Fit, t

LEMMA ScheduleMoves ==
  ASSUME Typed, NEW s \in Slots, Schedule(s)
  PROVE  /\ ProcessesFit' /\ procs[s].ph \in Phases
         /\ IF procs[s].on # 0 THEN queue' = Append(queue, procs[s].on)
            ELSE /\ Becomes(s, "succ", Succ[procs[s].ph], 0, procs[s].again, procs[s].n)
                 /\ queue' = queue
<1> DEFINE p == procs[s].ph
           r == [procs[s] EXCEPT !.pc = "succ", !.at = "run", !.todo = Succ[p], !.on = 0]
           L == [procs EXCEPT ![s] = r]
           F == [procs EXCEPT ![s] = Free]
<1>1. p \in Phases /\ procs[s] \in ProcessType /\ procs[s].pc = "schedule"
  BY AtIs DEF Schedule
<1>2. Succ[p] \in SUBSET Phases /\ {p} \in SUBSET Phases
  BY <1>1, GraphType
<1>3. procs \in [Slots -> ProcessType] /\ \A x \in Slots : Fit(procs[x])
  BY ProcessFits DEF ProcessesFit
<1>4. CASE procs[s].on # 0
  <2>1. procs' = Woken(F, {p}) /\ queue' = Append(queue, procs[s].on)
    BY <1>4 DEF Schedule
  <2>2. Free \in ProcessType /\ Free.pc = "free" /\ Free.ph = 0
    BY HopperAssumption DEF Free, Process, ProcessType, Points
  <2>3. Fit(Free)
    BY <2>2 DEF Fit
  <2>4. F \in [Slots -> ProcessType] /\ \A x \in Slots : Fit(F[x])
    BY <1>3, <2>2, <2>3
  <2> HIDE DEF F
  <2> QED
    BY <1>1, <1>2, <1>4, <2>1, <2>4, WokenFits
<1>5. CASE procs[s].on = 0
  <2>1. procs' = Woken([Loop(s, "succ", "run", Succ[p]) EXCEPT ![s].on = 0], {p}) /\ queue' = queue
    BY <1>5 DEF Schedule
  <2>2. [Loop(s, "succ", "run", Succ[p]) EXCEPT ![s].on = 0] = L
    BY <1>3 DEF Loop
  <2>3. /\ r \in ProcessType /\ r.ph = p /\ r.pc = "succ" /\ r.todo = Succ[p]
        /\ r.on = 0 /\ r.again = procs[s].again /\ r.n = procs[s].n
    BY <1>1, <1>2 DEF ProcessType, Points
  <2> HIDE DEF r
  <2>4. Fit(r)
    BY <1>1, <2>3, GraphType DEF Fit
  <2>5. /\ L \in [Slots -> ProcessType] /\ \A x \in Slots : Fit(L[x])
        /\ L[s] = r /\ \A x \in Slots \ {s} : L[x] = procs[x]
    BY <1>3, <2>3, <2>4
  <2> HIDE DEF L
  <2>6. /\ ProcessesFit'
        /\ \A x \in Slots : procs'[x] = L[x] \/ Woke(L[x], procs'[x])
    <3>1. procs' = Woken(L, {p})
      BY <2>1, <2>2
    <3> QED
      BY <1>2, <2>5, <3>1, WokenFits
  <2>7. procs'[s] = r
    BY <2>3, <2>5, <2>6 DEF Woke
  <2>8. \A x \in Slots \ {s} : Same(x)
    BY <2>5, <2>6 DEF Same
  <2>9. Becomes(s, "succ", Succ[p], 0, procs[s].again, procs[s].n)
    BY <2>3, <2>6, <2>7, <2>8 DEF Becomes
  <2> QED
    BY <1>1, <1>5, <2>1, <2>6, <2>9
<1> QED
  BY <1>4, <1>5

Begun(q) == State(q) >= Executing

(* A pass: which siblings it looks at, and where it stops. *)
Repeats(s) == procs[s].again /\ Stops(procs[s].todo) = {}

Round(s) == IF Repeats(s) THEN Siblings(procs[s].ph) ELSE procs[s].todo

Rest(s, q) == {x \in Round(s) : x >= q}

PassEnds(s) ==
  /\ Stops(Round(s)) = {} /\ node' = node
  /\ \/ Becomes(s, "ready", {}, procs[s].on, FALSE, procs[s].n)
     \/ Becomes(s, "end", {}, procs[s].on, FALSE, procs[s].n) /\ procs[s].n > 0

PassStops(s, q) ==
  /\ q \in Stops(Round(s)) /\ \A x \in Stops(Round(s)) : q <= x
  /\ \/ /\ ~Begun(q) /\ node' = node
        /\ Becomes(s, "sibs", Rest(s, q), procs[s].on, procs[s].again /\ ~Repeats(s), procs[s].n)
     \/ /\ Begun(q) /\ node' = [node EXCEPT ![procs[s].ph].st = Executing]
        /\ Becomes(s, "sibwait", Rest(s, q), q, TRUE, procs[s].n)

LEMMA AfterPassMoves ==
  ASSUME Typed, NEW s \in Slots, procs[s].pc = "sibs",
         procs' = [AfterPass(s) EXCEPT ![s].again = FALSE]
  PROVE  \/ Becomes(s, "ready", {}, procs[s].on, FALSE, procs[s].n)
         \/ Becomes(s, "end", {}, procs[s].on, FALSE, procs[s].n) /\ procs[s].n > 0
<1> DEFINE r(pc, at) == [procs[s] EXCEPT !.pc = pc, !.at = at, !.todo = {}, !.again = FALSE]
<1>1. procs[s] \in ProcessType /\ procs[s].n \in Nat
  BY TypedMeans, HopperAssumption DEF ProcessType
<1>2. ASSUME NEW pc \in {"ready", "end"}, NEW at \in {"nba", "run"},
             procs' = [Loop(s, pc, at, {}) EXCEPT ![s].again = FALSE],
             pc = "ready" => procs[s].n < MaxReady
      PROVE  Becomes(s, pc, {}, procs[s].on, FALSE, procs[s].n)
  <2>1. procs' = [procs EXCEPT ![s] = r(pc, at)]
    BY <1>2, TypedMeans DEF Loop
  <2>2. /\ r(pc, at) \in ProcessType /\ r(pc, at).ph = procs[s].ph /\ r(pc, at).pc = pc
        /\ r(pc, at).todo = {} /\ r(pc, at).on = procs[s].on
        /\ r(pc, at).again = FALSE /\ r(pc, at).n = procs[s].n
    BY <1>1 DEF ProcessType, Points
  <2> HIDE DEF r
  <2>3. Becomes(s, r(pc, at).pc, r(pc, at).todo, r(pc, at).on, r(pc, at).again, r(pc, at).n)
    BY <1>2, <2>1, <2>2, BecomesWhat
  <2> QED
    BY <2>2, <2>3
<1>3. CASE procs[s].n = 0 \/ (State(procs[s].ph) = Executing /\ procs[s].n < MaxReady)
  <2>1. procs[s].n < MaxReady
    <3>1. MaxReady \in Nat /\ MaxReady # 0
      BY HopperAssumption
    <3> QED
      BY <1>1, <1>3, <3>1
  <2>2. procs' = [Loop(s, "ready", "nba", {}) EXCEPT ![s].again = FALSE]
    BY <1>3 DEF AfterPass
  <2> QED
    BY <1>2, <2>1, <2>2
<1>4. CASE ~(procs[s].n = 0 \/ (State(procs[s].ph) = Executing /\ procs[s].n < MaxReady))
  <2>1. procs' = [Loop(s, "end", "run", {}) EXCEPT ![s].again = FALSE]
    BY <1>4 DEF AfterPass
  <2>2. procs[s].n > 0
    BY <1>1, <1>4
  <2> QED
    BY <1>2, <2>1, <2>2
<1> QED
  BY <1>3, <1>4

LEMMA PassMoves ==
  ASSUME Typed, NEW s \in Slots, Pass(s)
  PROVE  /\ procs[s].ph \in Phases /\ procs[s].pc = "sibs"
         /\ PassEnds(s) \/ \E q \in Phases : PassStops(s, q)
<1> DEFINE p == procs[s].ph
           q == Min(Stops(Round(s)))
<1>1. p \in Phases /\ procs[s] \in ProcessType /\ procs[s].pc = "sibs"
  BY AtIs DEF Pass
<1>2. Round(s) \in SUBSET Phases
  BY <1>1, GraphType DEF Round, ProcessType
<1>3. Stops(Round(s)) \in SUBSET Phases
  BY <1>2 DEF Stops
<1>4. \/ /\ Stops(Round(s)) = {} /\ node' = node
         /\ procs' = [AfterPass(s) EXCEPT ![s].again = FALSE]
      \/ /\ Stops(Round(s)) # {} /\ State(q) < Executing /\ node' = node
         /\ procs' = [Loop(s, "sibs", "run", Rest(s, q)) EXCEPT ![s].again = @ /\ ~Repeats(s)]
      \/ /\ Stops(Round(s)) # {} /\ State(q) >= Executing
         /\ procs' = [Loop(s, "sibwait", "run", Rest(s, q)) EXCEPT ![s].on = q, ![s].again = TRUE]
         /\ node' = [node EXCEPT ![p].st = Executing]
  BY DEF Pass, Rest, Round, Repeats
<1>5. CASE /\ Stops(Round(s)) = {} /\ node' = node
           /\ procs' = [AfterPass(s) EXCEPT ![s].again = FALSE]
  BY <1>1, <1>5, AfterPassMoves DEF PassEnds
<1>6. CASE Stops(Round(s)) # {}
  <2>1. /\ q \in Stops(Round(s)) /\ \A x \in Stops(Round(s)) : q <= x
    <3>1. Stops(Round(s)) \in SUBSET Nat
      BY <1>3, GraphType
    <3> QED
      BY <1>6, <3>1, LeastOf
  <2> HIDE DEF q
  <2>2. q \in Phases /\ State(q) \in Nat
    BY <1>3, <2>1, StatesAre DEF Stops
  <2>3. Rest(s, q) \in SUBSET Phases
    BY <1>2 DEF Rest
  <2>4. CASE /\ State(q) < Executing /\ node' = node
             /\ procs' = [Loop(s, "sibs", "run", Rest(s, q)) EXCEPT ![s].again = @ /\ ~Repeats(s)]
    <3> DEFINE R == Rest(s, q)
               g == procs[s].again /\ ~Repeats(s)
               r == [procs[s] EXCEPT !.pc = "sibs", !.at = "run", !.todo = R, !.again = g]
    <3>1. procs' = [procs EXCEPT ![s] = r]
      BY <2>4, TypedMeans DEF Loop
    <3>2. g \in BOOLEAN
      BY <1>1 DEF ProcessType, Repeats
    <3> HIDE DEF R, g
    <3>3. /\ r \in ProcessType /\ r.ph = p /\ r.pc = "sibs" /\ r.todo = R
          /\ r.on = procs[s].on /\ r.again = g /\ r.n = procs[s].n
      BY <1>1, <2>3, <3>2 DEF ProcessType, Points, R
    <3> HIDE DEF r
    <3>4. Becomes(s, r.pc, r.todo, r.on, r.again, r.n)
      BY <1>1, <3>1, <3>3, BecomesWhat
    <3>5. Becomes(s, "sibs", R, procs[s].on, g, procs[s].n)
      BY <3>3, <3>4
    <3>6. ~Begun(q)
      BY <2>2, <2>4 DEF Begun, Executing
    <3>7. PassStops(s, q)
      BY <2>1, <2>4, <3>5, <3>6 DEF PassStops, R, g
    <3> QED
      BY <1>1, <2>2, <3>7
  <2>5. CASE /\ State(q) >= Executing
             /\ procs' = [Loop(s, "sibwait", "run", Rest(s, q)) EXCEPT ![s].on = q, ![s].again = TRUE]
             /\ node' = [node EXCEPT ![p].st = Executing]
    <3> DEFINE R == Rest(s, q)
               r == [procs[s] EXCEPT !.pc = "sibwait", !.at = "run", !.todo = R,
                                     !.on = q, !.again = TRUE]
    <3>1. procs' = [procs EXCEPT ![s] = r]
      BY <2>5, TypedMeans DEF Loop
    <3> HIDE DEF R
    <3>3. /\ r \in ProcessType /\ r.ph = p /\ r.pc = "sibwait" /\ r.todo = R
          /\ r.on = q /\ r.again = TRUE /\ r.n = procs[s].n
      BY <1>1, <2>2, <2>3 DEF ProcessType, Points, R
    <3> HIDE DEF r
    <3>4. Becomes(s, r.pc, r.todo, r.on, r.again, r.n)
      BY <1>1, <3>1, <3>3, BecomesWhat
    <3>5. Becomes(s, "sibwait", R, q, TRUE, procs[s].n)
      BY <3>3, <3>4
    <3>6. PassStops(s, q)
      BY <2>1, <2>5, <3>5 DEF PassStops, R, Begun
    <3> QED
      BY <1>1, <2>2, <3>6
  <2> QED
    BY <1>4, <1>6, <2>4, <2>5 DEF q
<1> QED
  BY <1>1, <1>4, <1>5, <1>6

LEMMA TypedAgain ==
  ASSUME node' \in [Phases -> NodeType], bodies' \in [Phases -> Nat],
         objn' \in [Phases -> ObjectionType], queue' \in Seq(Phases), ProcessesFit',
         over' \in BOOLEAN, calls' \in 0 .. MaxCalls,
         \A p \in Phases : node'[p].proc => bodies'[p] > 0
  PROVE  Typed'
<1>1. /\ procs' \in [Slots -> ProcessType]
      /\ \A s \in Slots : /\ procs'[s].pc = "free" <=> procs'[s].ph = 0
                          /\ procs'[s].pc = "put" => procs'[s].todo # {}
                          /\ procs'[s].pc = "ready" => procs'[s].n < MaxReady
  BY DEF ProcessesFit, Fit
<1>2. TypeOK'
  BY <1>1 DEF TypeOK, NodeType, ObjectionType, ProcessType
<1> QED
  BY <1>1, <1>2 DEF Typed

(* A phase gets another state. *)
LEMMA StateSet ==
  ASSUME Typed, NEW p \in Phases,
         NEW st \in {Dormant, Scheduled, Syncing, Started, Executing, ReadyToEnd,
                     Ended, Cleanup, Done, Jumping},
         node' = [node EXCEPT ![p].st = st]
  PROVE  /\ node' \in [Phases -> NodeType] /\ State(p)' = st
         /\ node'[p].proc = node[p].proc /\ node'[p].jump = node[p].jump
         /\ node'[p].early = node[p].early
         /\ \A q \in Phases \ {p} : node'[q] = node[q]
<1> DEFINE r == [node[p] EXCEPT !.st = st]
<1>1. node \in [Phases -> NodeType]
  BY TypedMeans
<1>2. /\ r \in NodeType /\ r.st = st /\ r.proc = node[p].proc
      /\ r.jump = node[p].jump /\ r.early = node[p].early
  BY <1>1 DEF NodeType
<1>3. node' = [node EXCEPT ![p] = r]
  BY <1>1
<1> HIDE DEF r
<1> QED
  BY <1>1, <1>2, <1>3 DEF State

(* The steps that only move a process, or set the state of its phase. *)
LEMMA MovesTyped ==
  ASSUME Typed, ProcessesFit', UNCHANGED <<bodies, objn, queue, over, calls>>,
         node' \in [Phases -> NodeType],
         \A p \in Phases : node'[p].proc => node[p].proc
  PROVE  Typed'
BY TypedMeans, TypedAgain DEF Typed

LEMMA SetTyped ==
  ASSUME Typed, ProcessesFit', UNCHANGED <<bodies, objn, queue, over, calls>>,
         NEW p \in Phases,
         NEW st \in {Dormant, Scheduled, Syncing, Started, Executing, ReadyToEnd,
                     Ended, Cleanup, Done, Jumping},
         node' = [node EXCEPT ![p].st = st]
  PROVE  Typed'
<1>1. node' \in [Phases -> NodeType] /\ \A q \in Phases : node'[q].proc = node[q].proc
  BY StateSet
<1> QED
  BY <1>1, MovesTyped

(* The other moves. *)
LEMMA SyncMoves ==
  ASSUME Typed, NEW s \in Slots, Sync(s)
  PROVE  Becomes(s, "sync", SyncWith[procs[s].ph], procs[s].on, procs[s].again, procs[s].n)
<1>1. /\ procs[s].ph \in Phases /\ procs[s].pc # "free"
      /\ procs' = Loop(s, "sync", "zero", SyncWith[procs[s].ph])
  BY AtIs DEF Sync
<1>2. SyncWith[procs[s].ph] \in SUBSET Phases
  BY <1>1, GraphType
<1> QED
  BY <1>1, <1>2, LoopBecomes DEF Points

LEMMA StartMoves ==
  ASSUME Typed, NEW s \in Slots, Start(s)
  PROVE  Becomes(s, "execute", procs[s].todo, procs[s].on, procs[s].again, procs[s].n)
BY AtIs, GotoBecomes DEF Start, Points

LEMMA ExecuteMoves ==
  ASSUME Typed, NEW s \in Slots, Execute(s)
  PROVE  Becomes(s, IF Task(procs[s].ph) THEN "watch" ELSE "end", procs[s].todo,
                 procs[s].on, procs[s].again, procs[s].n)
<1>1. procs[s].pc # "free"
  BY AtIs DEF Execute
<1>2. CASE Task(procs[s].ph)
  <2>1. procs' = Goto(s, "watch", "nba")
    BY <1>2 DEF Execute
  <2> QED
    BY <1>1, <1>2, <2>1, GotoBecomes DEF Points
<1>3. CASE ~Task(procs[s].ph)
  <2>1. procs' = Goto(s, "end", "zero")
    BY <1>3 DEF Execute
  <2> QED
    BY <1>1, <1>3, <2>1, GotoBecomes DEF Points
<1> QED
  BY <1>2, <1>3

LEMMA EndMoves ==
  ASSUME Typed, NEW s \in Slots, End(s)
  PROVE  \/ /\ ~Task(procs[s].ph)
            /\ Becomes(s, "finish", {}, procs[s].on, procs[s].again, procs[s].n)
         \/ \E pc \in {"ended", "peers"}, todo \in SUBSET Phases :
              Becomes(s, pc, todo, procs[s].on, procs[s].again, procs[s].n)
<1> DEFINE p == procs[s].ph
<1>1. p \in Phases /\ procs[s].pc # "free"
  BY AtIs DEF End
<1>2. Peers[p] \in SUBSET Phases
  BY <1>1, GraphType
<1>3. CASE Kind[p] = "terminal"
  <2>1. procs' = Loop(s, "finish", "run", {}) /\ ~Task(p)
    BY <1>3 DEF End, Task
  <2> QED
    BY <1>1, <2>1, LoopBecomes DEF Points
<1>4. CASE Kind[p] # "terminal"
  <2>1. \E at \in {"zero", "run"}, pc \in {"ended", "peers"}, todo \in SUBSET Phases :
          procs' = Loop(s, pc, at, todo)
    BY <1>2, <1>4 DEF End
  <2> QED
    BY <1>1, <2>1, LoopBecomes DEF Points
<1> QED
  BY <1>3, <1>4

LEMMA PeersEndMoves ==
  ASSUME Typed, NEW s \in Slots, PeersEnd(s)
  PROVE  Becomes(s, "ended", procs[s].todo, procs[s].on, procs[s].again, procs[s].n)
BY AtIs, GotoBecomes DEF PeersEnd, Points

LEMMA EndedAtMoves ==
  ASSUME Typed, NEW s \in Slots, EndedAt(s)
  PROVE  Becomes(s, "cleanup", procs[s].todo, procs[s].on, procs[s].again, procs[s].n)
BY AtIs, GotoBecomes DEF EndedAt, Points

LEMMA CleanupAtMoves ==
  ASSUME Typed, NEW s \in Slots, CleanupAt(s)
  PROVE  Becomes(s, "finish", procs[s].todo, procs[s].on, procs[s].again, procs[s].n)
BY AtIs, GotoBecomes DEF CleanupAt, Points

LEMMA SuccessorMoves ==
  ASSUME Typed, NEW s \in Slots, Successor(s)
  PROVE  /\ NextOf(s) \in procs[s].todo /\ NextOf(s) \in Phases
         /\ \/ /\ State(NextOf(s)) < Scheduled
               /\ node' = [node EXCEPT ![NextOf(s)].st = Scheduled]
               /\ Becomes(s, "put", procs[s].todo, procs[s].on, procs[s].again, procs[s].n)
            \/ /\ ~(State(NextOf(s)) < Scheduled) /\ node' = node
               /\ Becomes(s, "succ", procs[s].todo \ {NextOf(s)},
                          procs[s].on, procs[s].again, procs[s].n)
<1>1. procs[s].pc = "succ" /\ procs[s].todo # {} /\ procs[s].todo \in SUBSET Phases
  BY AtIs DEF Successor
<1>2. NextOf(s) \in procs[s].todo /\ NextOf(s) \in Phases
  BY <1>1, NextIs
<1>3. CASE State(NextOf(s)) < Scheduled
  <2>1. procs' = Goto(s, "put", "zero")
    BY <1>3 DEF Successor
  <2>2. Becomes(s, "put", procs[s].todo, procs[s].on, procs[s].again, procs[s].n)
    BY <1>1, <2>1, GotoBecomes DEF Points
  <2> QED
    BY <1>2, <1>3, <2>2 DEF Successor
<1>4. CASE ~(State(NextOf(s)) < Scheduled)
  <2>1. procs' = [procs EXCEPT ![s].todo = procs[s].todo \ {NextOf(s)}]
    BY <1>4, TypedMeans DEF Successor
  <2>2. procs[s].todo \ {NextOf(s)} \in SUBSET Phases
    BY <1>1
  <2>3. Becomes(s, procs[s].pc, procs[s].todo \ {NextOf(s)},
                procs[s].on, procs[s].again, procs[s].n)
    BY <1>1, <2>1, <2>2, TurnBecomes
  <2> QED
    BY <1>1, <1>2, <1>4, <2>3 DEF Successor
<1> QED
  BY <1>3, <1>4

LEMMA PutMoves ==
  ASSUME Typed, NEW s \in Slots, Put(s)
  PROVE  /\ NextOf(s) \in procs[s].todo /\ NextOf(s) \in Phases
         /\ Becomes(s, "succ", procs[s].todo \ {NextOf(s)},
                    procs[s].on, procs[s].again, procs[s].n)
<1>1. procs[s].pc = "put" /\ procs[s].todo # {} /\ procs[s].todo \in SUBSET Phases
  BY AtIs DEF Put, Typed
<1>2. NextOf(s) \in procs[s].todo /\ NextOf(s) \in Phases
  BY <1>1, NextIs
<1>3. procs' = Loop(s, "succ", "run", procs[s].todo \ {NextOf(s)})
  BY DEF Put
<1>4. procs[s].todo \ {NextOf(s)} \in SUBSET Phases
  BY <1>1
<1> QED
  BY <1>1, <1>2, <1>3, <1>4, LoopBecomes DEF Points

LEMMA ExitMoves ==
  ASSUME Typed, NEW s \in Slots, Exit(s)
  PROVE  /\ ProcessesFit' /\ procs'[s] = Free
         /\ \A x \in Slots \ {s} : procs'[x] = procs[x]
<1>1. Free \in ProcessType /\ Free.pc = "free" /\ Free.ph = 0
  BY HopperAssumption DEF Free, Process, ProcessType, Points
<1>2. Fit(Free) /\ procs' = [procs EXCEPT ![s] = Free]
  BY <1>1 DEF Fit, Exit
<1> QED
  BY <1>2, Refit

LEMMA GetMoves ==
  ASSUME Typed, NEW s \in Slots, Get(s)
  PROVE  /\ queue # <<>> /\ Head(queue) \in Phases /\ Tail(queue) \in Seq(Phases)
         /\ ProcessesFit' /\ procs[s].pc = "free"
         /\ procs'[s] = Process(Head(queue), "preds", Pred[Head(queue)])
         /\ \A x \in Slots \ {s} : procs'[x] = procs[x]
<1> DEFINE q == Head(queue)
           r == Process(q, "preds", Pred[q])
<1>1. queue # <<>> /\ q \in Phases /\ Tail(queue) \in Seq(Phases)
  BY TypedMeans DEF Get
<1>2. Pred[q] \in SUBSET Phases /\ q # 0
  BY <1>1, GraphType
<1>3. r \in ProcessType /\ r.pc = "preds" /\ r.ph = q
  BY <1>1, <1>2, HopperAssumption DEF Process, ProcessType, Points
<1>4. procs' = [procs EXCEPT ![s] = r] /\ procs[s] = Free
  BY DEF Get
<1> HIDE DEF r
<1>5. Fit(r)
  BY <1>2, <1>3 DEF Fit
<1>6. ProcessesFit' /\ procs'[s] = r /\ \A x \in Slots \ {s} : procs'[x] = procs[x]
  BY <1>4, <1>5, Refit
<1>7. procs[s].pc = "free"
  BY <1>4 DEF Free, Process
<1> QED
  BY <1>1, <1>6, <1>7 DEF r

(* What steps do to the record of a phase. *)
LEMMA PhaseSet ==
  ASSUME Typed, NEW p \in Phases, NEW r \in NodeType, node' = [node EXCEPT ![p] = r]
  PROVE  /\ node' \in [Phases -> NodeType] /\ node'[p] = r
         /\ \A q \in Phases \ {p} : node'[q] = node[q]
BY TypedMeans

LEMMA ExecuteDoes ==
  ASSUME Typed, NEW s \in Slots, Execute(s), NEW p, p = procs[s].ph
  PROVE  /\ p \in Phases /\ node' \in [Phases -> NodeType] /\ bodies' \in [Phases -> Nat]
         /\ node'[p].st = Executing /\ node'[p].proc = Task(p) /\ node'[p].jump = node[p].jump
         /\ bodies'[p] = IF Task(p) THEN bodies[p] + 1 ELSE bodies[p]
         /\ \A q \in Phases \ {p} : node'[q] = node[q] /\ bodies'[q] = bodies[q]
<1> DEFINE r == [node[p] EXCEPT !.st = Executing, !.proc = Task(p)]
<1>1. p \in Phases
  BY AtIs DEF Execute
<1>2. node[p] \in NodeType /\ bodies[p] \in Nat
  BY <1>1, TypedMeans
<1>3. r \in NodeType /\ r.st = Executing /\ r.proc = Task(p) /\ r.jump = node[p].jump
  BY <1>2 DEF NodeType, Task
<1>4. node' = [node EXCEPT ![p] = r]
  BY TypedMeans DEF Execute
<1> HIDE DEF r
<1>5. /\ node' \in [Phases -> NodeType] /\ node'[p] = r
      /\ \A q \in Phases \ {p} : node'[q] = node[q]
  BY <1>1, <1>3, <1>4, PhaseSet
<1>6. bodies' = IF Task(p) THEN [bodies EXCEPT ![p] = bodies[p] + 1] ELSE bodies
  BY DEF Execute
<1>7. /\ bodies' \in [Phases -> Nat]
      /\ bodies'[p] = IF Task(p) THEN bodies[p] + 1 ELSE bodies[p]
      /\ \A q \in Phases \ {p} : bodies'[q] = bodies[q]
  BY <1>1, <1>2, <1>6, TypedMeans
<1> QED
  BY <1>1, <1>3, <1>5, <1>7

LEMMA CleanupAtDoes ==
  ASSUME Typed, NEW s \in Slots, CleanupAt(s), NEW p, p = procs[s].ph
  PROVE  /\ p \in Phases /\ node' \in [Phases -> NodeType] /\ bodies' \in [Phases -> Nat]
         /\ node'[p].st \in {Cleanup, Jumping} /\ node'[p].proc = FALSE
         /\ node'[p].jump = node[p].jump
         /\ bodies'[p] = IF node[p].proc THEN bodies[p] - 1 ELSE bodies[p]
         /\ \A q \in Phases \ {p} : node'[q] = node[q] /\ bodies'[q] = bodies[q]
<1> DEFINE st == IF node[p].early THEN Jumping ELSE Cleanup
           r == [node[p] EXCEPT !.st = st, !.proc = FALSE]
<1>1. p \in Phases
  BY AtIs DEF CleanupAt
<1>2. node[p] \in NodeType /\ bodies[p] \in Nat /\ (node[p].proc => bodies[p] > 0)
  BY <1>1, TypedMeans DEF Typed
<1>3. r \in NodeType /\ r.st \in {Cleanup, Jumping} /\ r.proc = FALSE /\ r.jump = node[p].jump
  BY <1>2 DEF NodeType
<1>4. node' = [node EXCEPT ![p] = r]
  BY TypedMeans DEF CleanupAt
<1> HIDE DEF r
<1>5. /\ node' \in [Phases -> NodeType] /\ node'[p] = r
      /\ \A q \in Phases \ {p} : node'[q] = node[q]
  BY <1>1, <1>3, <1>4, PhaseSet
<1>6. bodies' = IF node[p].proc THEN [bodies EXCEPT ![p] = bodies[p] - 1] ELSE bodies
  BY DEF CleanupAt
<1>7. CASE node[p].proc
  <2>1. bodies[p] - 1 \in Nat /\ bodies' = [bodies EXCEPT ![p] = bodies[p] - 1]
    BY <1>2, <1>6, <1>7
  <2>2. /\ bodies' \in [Phases -> Nat] /\ bodies'[p] = bodies[p] - 1
        /\ \A q \in Phases \ {p} : bodies'[q] = bodies[q]
    BY <1>1, <2>1, TypedMeans
  <2> QED
    BY <1>1, <1>3, <1>5, <1>7, <2>2
<1>8. CASE ~node[p].proc
  BY <1>1, <1>3, <1>5, <1>6, <1>8, TypedMeans
<1> QED
  BY <1>7, <1>8

(* Finishing a phase, or jumping, forgets threads and finds no others. *)
LEMMA FinishTyped ==
  ASSUME Typed, NEW s \in Slots, Finish(s)
  PROVE  /\ node' \in [Phases -> NodeType] /\ objn' \in [Phases -> ObjectionType]
         /\ \A q \in Phases : node'[q].proc => node[q].proc
<1> DEFINE p == procs[s].ph
           t == node[p].jump
<1>1. p \in Phases
  BY AtIs DEF Finish
<1>2. \A q \in Phases : node[q] \in NodeType
  BY TypedMeans
<1>3. ASSUME NEW r \in NodeType, NEW st \in {Dormant, Done}
      PROVE  Reset(st, r) \in NodeType /\ Reset(st, r).proc = FALSE
  BY <1>3 DEF Reset, NodeType
<1>4. ASSUME NEW r \in NodeType
      PROVE  LET l == [r EXCEPT !.jump = 0, !.fwd = FALSE, !.early = FALSE] IN
             l \in NodeType /\ l.proc = r.proc
  BY <1>4 DEF NodeType
<1>5. Silent \in ObjectionType
  BY DEF Silent, ObjectionType
<1>6. objn' = [q \in Phases |-> IF q \in Cleared(p, t) THEN Silent ELSE objn[q]]
  BY DEF Finish
<1>7. objn' \in [Phases -> ObjectionType]
  <2> HIDE DEF t
  <2> QED
    BY <1>5, <1>6, TypedMeans
<1>8. CASE t = 0
  <2>1. node' = [node EXCEPT ![p] = Reset(Done, node[p])]
    BY <1>8 DEF Finish
  <2>2. Reset(Done, node[p]) \in NodeType /\ Reset(Done, node[p]).proc = FALSE
    BY <1>1, <1>2, <1>3
  <2> QED
    BY <1>1, <1>7, <2>1, <2>2, PhaseSet
<1>9. CASE t # 0
  <2>1. node' = Landed(p, t)
    BY <1>9 DEF Finish
  <2>2. ASSUME NEW q \in Phases
        PROVE  node'[q] \in NodeType /\ (node'[q].proc => node[q].proc)
    <3> DEFINE r == IF q \in Downstream[t] THEN Reset(Dormant, node[q])
                    ELSE IF node[p].fwd /\ q \in Reach[p][t] THEN Reset(Done, node[q])
                    ELSE node[q]
    <3>1. r \in NodeType /\ (r.proc => node[q].proc)
      <4>1. \/ r = node[q] \/ r = Reset(Dormant, node[q]) \/ r = Reset(Done, node[q])
        OBVIOUS
      <4> HIDE DEF r
      <4> QED
        BY <1>2, <1>3, <4>1
    <3>2. node'[q] = IF q = p THEN [r EXCEPT !.jump = 0, !.fwd = FALSE, !.early = FALSE] ELSE r
      BY <2>1 DEF Landed
    <3> HIDE DEF r
    <3> QED
      BY <1>4, <3>1, <3>2
  <2>3. node' \in [Phases -> NodeType]
    <3>1. node' = [q \in Phases |-> node'[q]]
      BY <2>1 DEF Landed
    <3> HIDE DEF t
    <3> QED
      BY <2>2, <3>1
  <2> QED
    BY <1>7, <2>2, <2>3
<1> QED
  BY <1>8, <1>9

LEMMA ProcessStepTyped ==
  ASSUME Typed, NEW s \in Slots, ProcessStep(s)
  PROVE  Typed'
<1> DEFINE p == procs[s].ph
<1>0. /\ node \in [Phases -> NodeType] /\ bodies \in [Phases -> Nat]
      /\ objn \in [Phases -> ObjectionType] /\ queue \in Seq(Phases)
      /\ over \in BOOLEAN /\ calls \in 0 .. MaxCalls
      /\ \A q \in Phases : node[q].proc => bodies[q] > 0
  BY TypedMeans DEF Typed
<1>1. ASSUME Visit(s) \/ Watch(s) \/ End(s) \/ PeersEnd(s) PROVE Typed'
  <2>1. ProcessesFit'
    BY <1>1, VisitMoves, WatchMoves, EndMoves, PeersEndMoves DEF Becomes
  <2>2. UNCHANGED <<node, bodies, objn, queue, over, calls>>
    BY <1>1 DEF Visit, Watch, End, PeersEnd
  <2> QED
    BY <1>0, <2>1, <2>2, MovesTyped
<1>2. ASSUME EndEarly(s) PROVE Typed'
  <2>1. ProcessesFit'
    BY <1>2, EndEarlyMoves DEF Becomes
  <2>2. UNCHANGED <<node, bodies, objn, queue, over, calls>>
    BY <1>2 DEF EndEarly
  <2> QED
    BY <1>0, <2>1, <2>2, MovesTyped
<1>3. ASSUME Sync(s) \/ Start(s) \/ Ready(s) \/ EndedAt(s) PROVE Typed'
  <2>1. ProcessesFit'
    BY <1>3, SyncMoves, StartMoves, ReadyMoves, EndedAtMoves DEF Becomes
  <2>2. p \in Phases
    BY <1>3, AtIs DEF Sync, Start, Ready, EndedAt
  <2>3. /\ UNCHANGED <<bodies, objn, queue, over, calls>>
        /\ \E st \in {Syncing, Started, ReadyToEnd, Ended} : node' = [node EXCEPT ![p].st = st]
    BY <1>3 DEF Sync, Start, Ready, EndedAt
  <2> QED
    BY <2>1, <2>2, <2>3, SetTyped
<1>4. ASSUME Execute(s) PROVE Typed'
  <2>1. ProcessesFit'
    BY <1>4, ExecuteMoves DEF Becomes
  <2>2. UNCHANGED <<objn, queue, over, calls>>
    BY <1>4 DEF Execute
  <2>3. /\ node' \in [Phases -> NodeType] /\ bodies' \in [Phases -> Nat]
        /\ p \in Phases /\ (node'[p].proc => bodies'[p] > 0)
        /\ \A q \in Phases \ {p} : node'[q] = node[q] /\ bodies'[q] = bodies[q]
    <3>1. bodies[p] \in Nat
      BY <1>0, <1>4, ExecuteDoes
    <3> QED
      BY <1>4, <3>1, ExecuteDoes
  <2> QED
    BY <1>0, <2>1, <2>2, <2>3, TypedAgain
<1>5. ASSUME Pass(s) PROVE Typed'
  <2>1. ProcessesFit' /\ p \in Phases
    BY <1>5, PassMoves DEF Becomes, PassEnds, PassStops
  <2>2. UNCHANGED <<bodies, objn, queue, over, calls>>
    BY <1>5 DEF Pass
  <2>3. node' = node \/ node' = [node EXCEPT ![p].st = Executing]
    BY <1>5, PassMoves DEF PassEnds, PassStops
  <2>4. CASE node' = node
    BY <1>0, <2>1, <2>2, <2>4, MovesTyped
  <2>5. CASE node' = [node EXCEPT ![p].st = Executing]
    BY <2>1, <2>2, <2>5, SetTyped
  <2> QED
    BY <2>3, <2>4, <2>5
<1>6. ASSUME CleanupAt(s) PROVE Typed'
  <2>1. ProcessesFit'
    BY <1>6, CleanupAtMoves DEF Becomes
  <2>2. UNCHANGED <<objn, queue, over, calls>>
    BY <1>6 DEF CleanupAt
  <2> QED
    BY <1>0, <1>6, <2>1, <2>2, CleanupAtDoes, TypedAgain
<1>7. ASSUME Finish(s) PROVE Typed'
  <2>1. ProcessesFit'
    BY <1>7, FinishMoves DEF Becomes
  <2>2. UNCHANGED <<bodies, queue, over, calls>>
    BY <1>7 DEF Finish
  <2> QED
    BY <1>0, <1>7, <2>1, <2>2, FinishTyped, TypedAgain
<1>8. ASSUME Schedule(s) PROVE Typed'
  <2>1. ProcessesFit' /\ queue' \in Seq(Phases)
    <3>1. procs[s].on \in Phases \cup {0}
      BY TypedMeans DEF ProcessType
    <3>2. ProcessesFit'
      BY <1>8, ScheduleMoves
    <3>3. CASE procs[s].on # 0
      <4>1. procs[s].on \in Phases /\ queue' = Append(queue, procs[s].on)
        BY <1>8, <3>1, <3>3, ScheduleMoves
      <4> QED
        BY <1>0, <3>2, <4>1
    <3>4. CASE procs[s].on = 0
      BY <1>0, <1>8, <3>2, <3>4, ScheduleMoves
    <3> QED
      BY <3>3, <3>4
  <2>2. UNCHANGED <<node, bodies, over, calls>> /\ objn' = [objn EXCEPT ![p] = Silent]
    BY <1>8 DEF Schedule
  <2>3. objn' \in [Phases -> ObjectionType]
    <3>1. Silent \in ObjectionType
      BY DEF Silent, ObjectionType
    <3> QED
      BY <1>0, <2>2, <3>1
  <2> QED
    BY <1>0, <2>1, <2>2, <2>3, TypedAgain
<1>9. ASSUME Successor(s) PROVE Typed'
  <2>1. ProcessesFit' /\ NextOf(s) \in Phases
    BY <1>9, SuccessorMoves DEF Becomes
  <2>2. UNCHANGED <<bodies, objn, queue, over, calls>>
    BY <1>9 DEF Successor
  <2>3. CASE node' = node
    BY <1>0, <2>1, <2>2, <2>3, MovesTyped
  <2>4. CASE node' = [node EXCEPT ![NextOf(s)].st = Scheduled]
    BY <2>1, <2>2, <2>4, SetTyped
  <2> QED
    BY <1>9, <2>3, <2>4, SuccessorMoves
<1>10. ASSUME Put(s) PROVE Typed'
  <2>1. ProcessesFit' /\ NextOf(s) \in Phases
    BY <1>10, PutMoves DEF Becomes
  <2>2. UNCHANGED <<node, bodies, objn, over, calls>> /\ queue' = Append(queue, NextOf(s))
    BY <1>10 DEF Put
  <2>3. queue' \in Seq(Phases)
    BY <1>0, <2>1, <2>2
  <2> QED
    BY <1>0, <2>1, <2>2, <2>3, TypedAgain
<1>11. ASSUME Exit(s) PROVE Typed'
  <2>1. UNCHANGED <<node, bodies, objn, queue, over, calls>>
    BY <1>11 DEF Exit
  <2> QED
    BY <1>0, <1>11, <2>1, ExitMoves, MovesTyped
<1> QED
  BY <1>1, <1>2, <1>3, <1>4, <1>5, <1>6, <1>7, <1>8, <1>9, <1>10, <1>11 DEF ProcessStep

(* Time, the testbench and the end of the run. *)
LEMMA AdvanceMoves ==
  ASSUME Typed, Advance
  PROVE  /\ ProcessesFit'
         /\ \A x \in Slots : procs'[x] = procs[x] \/ procs'[x] = [procs[x] EXCEPT !.at = "run"]
<1>1. /\ procs \in [Slots -> ProcessType] /\ \A x \in Slots : Fit(procs[x])
  BY ProcessFits DEF ProcessesFit
<1>2. PICK S : procs' = [s \in Slots |-> IF s \in S THEN [procs[s] EXCEPT !.at = "run"]
                                         ELSE procs[s]]
  BY DEF Advance
<1>3. ASSUME NEW x \in Slots
      PROVE  /\ procs'[x] = procs[x] \/ procs'[x] = [procs[x] EXCEPT !.at = "run"]
             /\ Fit(procs'[x])
  <2>1. procs'[x] = procs[x] \/ procs'[x] = [procs[x] EXCEPT !.at = "run"]
    BY <1>2
  <2>2. procs[x] \in ProcessType /\ Fit(procs[x])
    BY <1>1
  <2> QED
    BY <2>1, <2>2 DEF Fit, ProcessType
<1>4. procs' \in [Slots -> ProcessType]
  BY <1>2, <1>3 DEF Fit
<1> QED
  BY <1>3, <1>4 DEF ProcessesFit, Fit

LEMMA DrainedMoves ==
  ASSUME Typed, NEW p \in Phases, Drained(p)
  PROVE  /\ ProcessesFit' /\ objn' \in [Phases -> ObjectionType]
         /\ \A x \in Slots : Same(x)
<1>1. procs \in [Slots -> ProcessType] /\ \A x \in Slots : Fit(procs[x])
  BY ProcessFits DEF ProcessesFit
<1>2. procs' = Woken(procs, {p}) /\ objn' = [objn EXCEPT ![p].drain = FALSE, ![p].all = TRUE]
  BY DEF Drained
<1>3. ProcessesFit' /\ \A x \in Slots : Same(x)
  BY <1>1, <1>2, WokenFits DEF Same
<1>4. objn' \in [Phases -> ObjectionType]
  BY <1>2, TypedMeans DEF ObjectionType
<1> QED
  BY <1>3, <1>4

LEMMA ObjectsTyped ==
  ASSUME Typed, NEW p \in Phases, Raise(p) \/ Drop(p)
  PROVE  objn' \in [Phases -> ObjectionType]
<1>1. objn[p] \in ObjectionType
  BY TypedMeans
<1>2. CASE Raise(p)
  <2>1. objn' = [objn EXCEPT ![p] = [raised |-> objn[p].raised + 1, drain |-> FALSE, all |-> FALSE]]
    BY <1>2, TypedMeans DEF Raise
  <2>2. [raised |-> objn[p].raised + 1, drain |-> FALSE, all |-> FALSE] \in ObjectionType
    BY <1>1 DEF ObjectionType
  <2> QED
    BY <2>1, <2>2, TypedMeans
<1>3. CASE Drop(p)
  <2> DEFINE d == objn[p].raised = 1
             o == [objn[p] EXCEPT !.raised = objn[p].raised - 1, !.drain = d]
  <2>1. objn' = [objn EXCEPT ![p] = o] /\ objn[p].raised > 0
    BY <1>3, TypedMeans DEF Drop
  <2>2. d \in BOOLEAN /\ objn[p].raised - 1 \in Nat
    BY <1>1, <2>1 DEF ObjectionType
  <2> HIDE DEF d
  <2>3. o \in ObjectionType
    BY <1>1, <2>2 DEF ObjectionType
  <2> HIDE DEF o
  <2> QED
    BY <2>1, <2>3, TypedMeans
<1> QED
  BY <1>2, <1>3

LEMMA BoundIs ==
  ASSUME Typed, NEW p \in Phases, NEW t \in Phases
  PROVE  /\ Bound(p, t) \in NodeType
         /\ Bound(p, t).proc = node[p].proc /\ Bound(p, t).st = node[p].st
<1> DEFINE f == node[p].fwd \/ (t \in Downstream[p] /\ t # p)
<1>1. node[p] \in NodeType
  BY TypedMeans
<1>2. f \in BOOLEAN
  BY <1>1 DEF NodeType
<1>3. Bound(p, t) = [node[p] EXCEPT !.jump = t, !.early = TRUE, !.fwd = f]
  BY DEF Bound
<1> HIDE DEF f
<1> QED
  BY <1>1, <1>2, <1>3 DEF NodeType

LEMMA EndPrematurelyDoes ==
  ASSUME Typed, NEW p \in Phases, EndPrematurely(p)
  PROVE  /\ node' \in [Phases -> NodeType] /\ calls' \in 0 .. MaxCalls
         /\ \A q \in Phases : /\ node'[q].st = node[q].st /\ node'[q].proc = node[q].proc
                              /\ node'[q].jump = node[q].jump
<1> DEFINE r == [node[p] EXCEPT !.early = TRUE]
<1>1. node[p] \in NodeType
  BY TypedMeans
<1>2. r \in NodeType /\ r.st = node[p].st /\ r.proc = node[p].proc /\ r.jump = node[p].jump
  BY <1>1 DEF NodeType
<1>3. node' = [node EXCEPT ![p] = r]
  BY TypedMeans DEF EndPrematurely
<1> HIDE DEF r
<1>4. /\ node' \in [Phases -> NodeType] /\ node'[p] = r
      /\ \A q \in Phases \ {p} : node'[q] = node[q]
  BY <1>2, <1>3, PhaseSet
<1>5. calls' = calls + 1 /\ calls < MaxCalls /\ calls \in Nat /\ MaxCalls \in Nat
  BY TypedMeans, HopperAssumption DEF EndPrematurely
<1> QED
  BY <1>2, <1>4, <1>5

LEMMA JumpsTyped ==
  ASSUME Typed, \/ \E j \in Jumps : Jump(j[1], j[2])
                \/ \E t \in AllJumps : JumpAll(t)
  PROVE  /\ node' \in [Phases -> NodeType] /\ calls' \in 0 .. MaxCalls
         /\ UNCHANGED <<bodies, objn, queue, procs, over>>
         /\ \A q \in Phases : node'[q].proc = node[q].proc /\ node'[q].st = node[q].st
<1>1. calls' = calls + 1 /\ calls < MaxCalls /\ UNCHANGED <<bodies, objn, queue, procs, over>>
  BY DEF Jump, JumpAll
<1>2. calls' \in 0 .. MaxCalls
  BY <1>1, TypedMeans, HopperAssumption
<1>3. CASE \E j \in Jumps : Jump(j[1], j[2])
  <2>1. PICK p \in Phases, t \in Phases : Jump(p, t)
    BY <1>3, HopperAssumption
  <2>2. /\ Bound(p, t) \in NodeType
        /\ Bound(p, t).proc = node[p].proc /\ Bound(p, t).st = node[p].st
    BY BoundIs
  <2>3. node' = [node EXCEPT ![p] = Bound(p, t)]
    BY <2>1 DEF Jump
  <2>4. /\ node' \in [Phases -> NodeType] /\ node'[p] = Bound(p, t)
        /\ \A q \in Phases \ {p} : node'[q] = node[q]
    BY <2>2, <2>3, PhaseSet
  <2> QED
    BY <1>1, <1>2, <2>2, <2>4
<1>4. CASE \E t \in AllJumps : JumpAll(t)
  <2>1. PICK t \in Phases : JumpAll(t)
    BY <1>4, HopperAssumption
  <2>2. PICK S : node' = [p \in Phases |-> IF p \in S THEN Bound(p, t) ELSE node[p]]
    BY <2>1 DEF JumpAll
  <2>3. ASSUME NEW p \in Phases
        PROVE  /\ node'[p] \in NodeType
               /\ node'[p].proc = node[p].proc /\ node'[p].st = node[p].st
    BY <2>2, BoundIs, TypedMeans
  <2>4. node' \in [Phases -> NodeType]
    BY <2>2, <2>3
  <2> QED
    BY <1>1, <1>2, <2>3, <2>4
<1> QED
  BY <1>3, <1>4

LEMMA NextTyped ==
  ASSUME Typed, [Next]_vars
  PROVE  Typed'
<1>0. /\ node \in [Phases -> NodeType] /\ bodies \in [Phases -> Nat]
      /\ objn \in [Phases -> ObjectionType] /\ queue \in Seq(Phases)
      /\ over \in BOOLEAN /\ calls \in 0 .. MaxCalls /\ ProcessesFit
      /\ \A q \in Phases : node[q].proc => bodies[q] > 0
  BY TypedMeans, ProcessFits DEF Typed
<1>1. ASSUME Advance PROVE Typed'
  <2>1. UNCHANGED <<node, bodies, objn, queue, over, calls>>
    BY <1>1 DEF Advance
  <2> QED
    BY <1>0, <1>1, <2>1, AdvanceMoves, MovesTyped
<1>2. ASSUME NEW s \in Slots, Get(s) PROVE Typed'
  <2>1. ProcessesFit' /\ queue' \in Seq(Phases)
    BY <1>2, GetMoves DEF Get
  <2>2. UNCHANGED <<node, bodies, objn, over, calls>>
    BY <1>2 DEF Get
  <2> QED
    BY <1>0, <2>1, <2>2, TypedAgain
<1>3. ASSUME AllDropped PROVE Typed'
  <2>1. UNCHANGED <<node, bodies, objn, queue, procs, calls>> /\ over' = TRUE
    BY <1>3 DEF AllDropped
  <2>2. ProcessesFit'
    BY <1>0, <2>1 DEF ProcessesFit, Fit
  <2>3. over' \in BOOLEAN
    BY <2>1
  <2> QED
    BY <1>0, <2>1, <2>2, <2>3, TypedAgain
<1>4. ASSUME NEW p \in Phases, Drained(p) PROVE Typed'
  <2>1. UNCHANGED <<node, bodies, queue, over, calls>>
    BY <1>4 DEF Drained
  <2> QED
    BY <1>0, <1>4, <2>1, DrainedMoves, TypedAgain
<1>5. ASSUME NEW p \in Phases, Raise(p) \/ Drop(p) PROVE Typed'
  <2>1. UNCHANGED <<node, bodies, queue, procs, over, calls>>
    BY <1>5 DEF Raise, Drop
  <2>2. ProcessesFit'
    BY <1>0, <2>1 DEF ProcessesFit, Fit
  <2> QED
    BY <1>0, <1>5, <2>1, <2>2, ObjectsTyped, TypedAgain
<1>6. ASSUME \/ \E j \in Jumps : Jump(j[1], j[2])
             \/ \E t \in AllJumps : JumpAll(t)
      PROVE  Typed'
  <2>1. /\ node' \in [Phases -> NodeType] /\ calls' \in 0 .. MaxCalls
        /\ UNCHANGED <<bodies, objn, queue, procs, over>>
        /\ \A q \in Phases : node'[q].proc = node[q].proc
    BY <1>6, JumpsTyped
  <2>2. ProcessesFit'
    BY <1>0, <2>1 DEF ProcessesFit, Fit
  <2> QED
    BY <1>0, <2>1, <2>2, TypedAgain
<1>7. ASSUME NEW p \in Phases, EndPrematurely(p) PROVE Typed'
  <2>1. UNCHANGED <<bodies, objn, queue, procs, over>>
    BY <1>7 DEF EndPrematurely
  <2>2. ProcessesFit'
    BY <1>0, <2>1 DEF ProcessesFit, Fit
  <2> QED
    BY <1>0, <1>7, <2>1, <2>2, EndPrematurelyDoes, TypedAgain
<1>8. ASSUME UNCHANGED vars PROVE Typed'
  BY <1>8 DEF vars, Typed, TypeOK
<1> QED
  BY <1>1, <1>2, <1>3, <1>4, <1>5, <1>6, <1>7, <1>8, ProcessStepTyped, HopperAssumption
     DEF Next, Testbench

(* Every value keeps its type, whatever is raised, ended early or jumped:  *)
(* the threads that a phase knows are never fewer than none, the rounds of *)
(* READY_TO_END never more than the limit.                                 *)
THEOREM HopperTyped == Spec => []TypeOK
<1>1. Init => Typed
  BY InitTyped
<1>2. Typed /\ [Next]_vars => Typed'
  BY NextTyped
<1>3. Typed => TypeOK
  BY DEF Typed
<1> QED
  BY <1>1, <1>2, <1>3, PTL DEF Spec

-----------------------------------------------------------------------------
(* Until a jump lands the state of a phase says where in the hopper it is, and  *)
(* a phase is in one place: it is dormant, then a process is about to      *)
(* queue it or it is queued, then a process leads it, then it is done.     *)

Ending == {"watch", "await", "sibs", "sibwait", "ready", "end", "peers", "ended"}

(* In the queue, or taken out of it and waiting for its predecessors. *)
Awaits(q) == State(q) = Scheduled \/ (q = First /\ State(q) = Dormant)

Putting(s) == procs[s].pc = "put"

(* The state of a phase that a process leads. *)
Stage(s) ==
  LET p == procs[s].ph
      pc == procs[s].pc IN
  /\ pc = "preds" => Awaits(p)
  /\ pc = "sync" => State(p) = Syncing
  /\ pc = "execute" => State(p) = Started
  /\ pc \in Ending => State(p) \in {Executing, ReadyToEnd}
  /\ pc = "cleanup" => State(p) = Ended
  /\ pc = "finish" => \/ State(p) \in {Cleanup, Jumping}
                      \/ ~Task(p) /\ State(p) \in {Executing, ReadyToEnd}
  /\ pc \in {"schedule", "succ", "put"} => State(p) = Done

(* What a process has behind it among the predecessors is done; what it    *)
(* has before it are successors, and the one it queues is scheduled.       *)
Handover(s) ==
  LET p == procs[s].ph
      pc == procs[s].pc
      todo == procs[s].todo IN
  /\ pc = "preds" => todo \subseteq Pred[p] /\ \A q \in Pred[p] \ todo : State(q) = Done
  /\ pc = "schedule" => procs[s].on = 0
  /\ pc \in {"succ", "put"} => todo \subseteq Succ[p]
  /\ pc = "put" => State(NextOf(s)) = Scheduled

(* A pass over the siblings: those behind it have begun, and from the      *)
(* second pass on all of them; one it waited for makes it start again.     *)
Pacing(s) ==
  LET p == procs[s].ph
      pc == procs[s].pc
      todo == procs[s].todo IN
  /\ pc \in {"preds", "sync", "execute", "watch", "await"} => procs[s].n = 0
  /\ pc = "ready" => \A q \in Siblings(p) : Begun(q)
  /\ pc = "await" => procs[s].on = p
  /\ pc = "sibwait" => procs[s].again /\ procs[s].on # 0 /\ Begun(procs[s].on)
  /\ pc \in {"sibs", "sibwait"} =>
       /\ todo \subseteq Siblings(p) /\ \A q \in Siblings(p) \ todo : Begun(q)
       /\ procs[s].n > 0 => /\ procs[s].again \/ todo = Siblings(p)
                            /\ \A q \in Siblings(p) : Begun(q)

QueueWaits == \A i \in DOMAIN queue : Awaits(queue[i])

(* What is about to be queued is nowhere else. *)
PutOnce ==
  \A s \in Slots : Putting(s) =>
    /\ NextOf(s) # First
    /\ \A x \in Slots : /\ procs[x].ph # NextOf(s)
                        /\ Putting(x) /\ NextOf(x) = NextOf(s) => x = s
    /\ \A i \in DOMAIN queue : queue[i] # NextOf(s)

(* A phase on its way is not lost, *)
InHopper(p) ==
  \/ \E i \in DOMAIN queue : queue[i] = p
  \/ \E s \in Slots : procs[s].ph = p \/ (Putting(s) /\ NextOf(s) = p)

Kept ==
  \A p \in Phases : State(p) \notin {Dormant, Done} \/ (p = First /\ State(p) = Dormant)
                      => InHopper(p)

(* and what is done has handed over, or is about to. *)
Passing(s, p, q) ==
  /\ procs[s].ph = p
  /\ procs[s].pc = "schedule" \/ (procs[s].pc \in {"succ", "put"} /\ q \in procs[s].todo)

Passed ==
  \A p \in Phases : \A q \in Succ[p] :
    State(p) = Done /\ State(q) = Dormant => \E s \in Slots : Passing(s, p, q)

(* A phase knows its threads from the start of its execution to their end. *)
ThreadsOf(p) ==
  /\ bodies[p] = IF node[p].proc THEN 1 ELSE 0
  /\ node[p].proc => Task(p) /\ State(p) \in {Executing, ReadyToEnd, Ended}

Led == \A s \in Slots : Stage(s) /\ Handover(s) /\ Pacing(s)

Known == \A p \in Phases : ThreadsOf(p)

Placed == InHopperOnce /\ QueueWaits /\ PutOnce /\ Kept

PInv == Typed /\ Placed /\ Led /\ Passed /\ Known

(* A process that stays with its phase and neither begins nor ceases to    *)
(* queue one.                                                              *)
Steady(x) ==
  /\ procs'[x].ph = procs[x].ph
  /\ procs'[x].pc = "put" <=> procs[x].pc = "put"
  /\ procs[x].pc = "put" => procs'[x].todo = procs[x].todo

LEMMA SameIsSteady ==
  ASSUME Typed, NEW x \in Slots, Same(x)
  PROVE  Steady(x)
<1>1. procs[x] \in ProcessType
  BY TypedMeans
<1>2. CASE procs'[x] = procs[x]
  BY <1>2 DEF Steady
<1>3. CASE Woke(procs[x], procs'[x])
  BY <1>1, <1>3, WokeMeans DEF Steady
<1> QED
  BY <1>2, <1>3 DEF Same

(* Places change only where phases are queued and taken out. *)
LEMMA PlacesKept ==
  ASSUME PInv, queue' = queue, \A x \in Slots : Steady(x),
         \A q \in Phases : node'[q].st = node[q].st \/ \E x \in Slots : procs[x].ph = q
  PROVE  Placed'
<1>1. /\ \A x \in Slots : /\ procs'[x].ph = procs[x].ph
                          /\ Putting(x)' <=> Putting(x)
                          /\ Putting(x) => NextOf(x)' = NextOf(x)
  BY DEF Steady, Putting, NextOf
<1>2. InHopperOnce' /\ PutOnce'
  BY <1>1 DEF PInv, Placed, InHopperOnce, PutOnce
<1>3. QueueWaits'
  <2> SUFFICES ASSUME NEW i \in DOMAIN queue PROVE Awaits(queue[i])'
    BY DEF QueueWaits
  <2>1. queue[i] \in Phases /\ Awaits(queue[i])
    BY TypedMeans DEF PInv, Placed, QueueWaits
  <2>2. \A x \in Slots : procs[x].ph # queue[i]
    BY DEF PInv, Placed, InHopperOnce
  <2> QED
    BY <2>1, <2>2 DEF Awaits, State
<1>4. Kept'
  <2> SUFFICES ASSUME NEW p \in Phases,
                      State(p)' \notin {Dormant, Done} \/ (p = First /\ State(p)' = Dormant)
               PROVE  InHopper(p)'
    BY DEF Kept
  <2>1. CASE \E x \in Slots : procs[x].ph = p
    BY <2>1, <1>1 DEF InHopper
  <2>2. CASE ~\E x \in Slots : procs[x].ph = p
    <3>1. InHopper(p)
      BY <2>2 DEF PInv, Placed, Kept, State
    <3> QED
      BY <3>1, <1>1 DEF InHopper
  <2> QED
    BY <2>1, <2>2
<1> QED
  BY <1>2, <1>3, <1>4 DEF Placed

(* What has begun stays begun, and what is done stays done. *)
Onward ==
  \A q \in Phases : /\ State(q) = Done => State(q)' = Done
                    /\ Begun(q) => Begun(q)'

(* Who stays where it was, with the states of its phases, stays led. *)
LEMMA OthersLed ==
  ASSUME PInv, Onward, NEW x \in Slots, Same(x),
         procs[x].ph \in Phases => node'[procs[x].ph].st = node[procs[x].ph].st,
         Putting(x) => node'[NextOf(x)].st = node[NextOf(x)].st
  PROVE  Stage(x)' /\ Handover(x)' /\ Pacing(x)'
<1> DEFINE a == procs[x]
           b == procs'[x]
<1>1. /\ a \in ProcessType /\ Stage(x) /\ Handover(x) /\ Pacing(x)
      /\ a.pc = "free" <=> a.ph = 0
  BY TypedMeans DEF PInv, Led, Typed
<1>2. CASE a.pc = "free"
  <2>1. b = a
    BY <1>2 DEF Same, Woke
  <2> QED
    BY <1>2, <2>1 DEF Stage, Handover, Pacing, Ending
<1>3. CASE a.pc # "free"
  <2>1. a.ph \in Phases /\ node'[a.ph].st = node[a.ph].st
    BY <1>1, <1>3 DEF ProcessType
  <2>2. Pred[a.ph] \in SUBSET Phases /\ Siblings(a.ph) \in SUBSET Phases
    BY <2>1, GraphType
  <2>3. CASE b = a
    <3>1. Stage(x)'
      BY <1>1, <2>1, <2>3 DEF Stage, State, Awaits, Task
    <3>2. Handover(x)'
      BY <1>1, <2>1, <2>2, <2>3 DEF Handover, State, Onward, Putting, NextOf
    <3>3. Pacing(x)'
      BY <1>1, <2>1, <2>2, <2>3 DEF Pacing, Onward, Begun, Siblings, ProcessType
    <3> QED
      BY <3>1, <3>2, <3>3
  <2>4. CASE Woke(a, b)
    <3>0. /\ a.pc \in {"await", "sibwait"} /\ a.on \in Phases
          /\ b.ph = a.ph /\ b.pc = "sibs" /\ b.again = a.again /\ b.n = a.n
          /\ b.todo = IF a.pc = "await" THEN Siblings(a.on) ELSE a.todo \ {a.on}
      BY <1>1, <2>4, WokeMeans
    <3>1. Stage(x)'
      BY <1>1, <2>1, <3>0 DEF Stage, State, Ending
    <3>2. Handover(x)'
      BY <3>0 DEF Handover
    <3>3. Pacing(x)'
      <4>1. CASE a.pc = "await"
        <5>1. a.n = 0 /\ b.todo = Siblings(b.ph)
          BY <1>1, <3>0, <4>1 DEF Pacing
        <5> QED
          BY <3>0, <5>1 DEF Pacing
      <4>2. CASE a.pc = "sibwait"
        <5>1. /\ a.again /\ Begun(a.on) /\ a.todo \subseteq Siblings(a.ph)
              /\ \A q \in Siblings(a.ph) \ a.todo : Begun(q)
              /\ a.n > 0 => \A q \in Siblings(a.ph) : Begun(q)
          BY <1>1, <4>2 DEF Pacing
        <5>2. b.todo = a.todo \ {a.on}
          BY <3>0, <4>2
        <5>3. \A q \in Siblings(a.ph) \ b.todo : Begun(q)
          BY <5>1, <5>2
        <5>4. /\ \A q \in Siblings(b.ph) \ b.todo : Begun(q)'
              /\ b.n > 0 => \A q \in Siblings(b.ph) : Begun(q)'
          BY <2>2, <3>0, <5>1, <5>3 DEF Onward
        <5>5. b.pc = "sibs" /\ b.again /\ b.todo \subseteq Siblings(b.ph)
          BY <3>0, <5>1, <5>2
        <5> QED
          BY <5>4, <5>5 DEF Pacing
      <4> QED
        BY <3>0, <4>1, <4>2
    <3> QED
      BY <3>1, <3>2, <3>3
  <2> QED
    BY <2>3, <2>4 DEF Same
<1> QED
  BY <1>2, <1>3

(* A process that hands over does so until it takes a step. *)
LEMMA PassingKept ==
  ASSUME PInv, NEW x \in Slots, Same(x), NEW p, NEW q, Passing(x, p, q)
  PROVE  Passing(x, p, q)'
<1>1. procs[x].pc \notin {"await", "sibwait"}
  BY DEF Passing
<1>2. procs'[x] = procs[x]
  BY <1>1 DEF Same, Woke
<1> QED
  BY <1>2 DEF Passing

(* A step that moves no phase: of an objection, of time, of the testbench. *)
LEMMA RestKept ==
  ASSUME PInv, queue' = queue, bodies' = bodies, \A x \in Slots : Same(x),
         \A q \in Phases : node'[q].st = node[q].st /\ node'[q].proc = node[q].proc
  PROVE  (Placed /\ Led /\ Passed /\ Known)'
<1>1. Typed
  BY DEF PInv
<1>2. Placed'
  BY <1>1, SameIsSteady, PlacesKept
<1>3. Onward
  BY DEF Onward, State, Begun
<1>4. Led'
  <2> SUFFICES ASSUME NEW x \in Slots PROVE Stage(x)' /\ Handover(x)' /\ Pacing(x)'
    BY DEF Led
  <2>1. Putting(x) => NextOf(x) \in Phases
    BY <1>1, NextIs DEF Typed, Putting
  <2> QED
    BY <1>3, <2>1, OthersLed
<1>5. Passed'
  <2> SUFFICES ASSUME NEW p \in Phases, NEW q \in Succ[p],
                      State(p)' = Done, State(q)' = Dormant
               PROVE  \E x \in Slots : Passing(x, p, q)'
    BY DEF Passed
  <2>1. q \in Phases
    BY GraphType
  <2>2. \E x \in Slots : Passing(x, p, q)
    BY <2>1 DEF PInv, Passed, State
  <2> QED
    BY <2>2, PassingKept
<1>6. Known'
  BY DEF PInv, Known, ThreadsOf, State, Task
<1> QED
  BY <1>2, <1>4, <1>5, <1>6

(* A step of a process that stays with its phase: it remains to look at    *)
(* this process and this phase.                                            *)
LEMMA Frame ==
  ASSUME PInv, NEW s \in Slots, NEW p \in Phases, procs[s].ph = p, queue' = queue,
         Steady(s), ~Putting(s), \A x \in Slots \ {s} : Same(x),
         \A q \in Phases \ {p} : node'[q] = node[q] /\ bodies'[q] = bodies[q],
         State(p) = Done => State(p)' = Done,
         Begun(p) => Begun(p)',
         State(p)' = Dormant => State(p) = Dormant,
         Stage(s)', Handover(s)', Pacing(s)', ThreadsOf(p)',
         \A q \in Succ[p] :
           State(p)' = Done /\ State(q)' = Dormant => Passing(s, p, q)'
  PROVE  (Placed /\ Led /\ Passed /\ Known)'
<1>1. Typed
  BY DEF PInv
<1>2. Placed'
  <2>1. \A x \in Slots : Steady(x)
    BY <1>1, SameIsSteady
  <2>2. \A q \in Phases : node'[q].st = node[q].st \/ \E x \in Slots : procs[x].ph = q
    OBVIOUS
  <2> QED
    BY <2>1, <2>2, PlacesKept
<1>3. Onward
  BY DEF Onward, State, Begun
<1>4. Led'
  <2> SUFFICES ASSUME NEW x \in Slots \ {s} PROVE Stage(x)' /\ Handover(x)' /\ Pacing(x)'
    BY DEF Led
  <2>1. procs[x].ph # p
    <3>1. procs[s].ph # 0
      BY GraphType
    <3> QED
      BY <3>1 DEF PInv, Placed, InHopperOnce
  <2>2. Putting(x) => NextOf(x) \in Phases
    BY <1>1, NextIs DEF Typed, Putting
  <2>3. Putting(x) => NextOf(x) # p
    BY DEF PInv, Placed, PutOnce
  <2> QED
    BY <1>3, <2>1, <2>2, <2>3, OthersLed
<1>5. Passed'
  <2> SUFFICES ASSUME NEW r \in Phases, NEW q \in Succ[r],
                      State(r)' = Done, State(q)' = Dormant
               PROVE  \E x \in Slots : Passing(x, r, q)'
    BY DEF Passed
  <2>1. CASE r = p
    BY <2>1
  <2>2. CASE r # p
    <3>1. State(r) = Done /\ State(q) = Dormant
      BY <2>2, GraphType DEF State
    <3>2. PICK x \in Slots : Passing(x, r, q)
      BY <3>1 DEF PInv, Passed
    <3>3. x # s
      BY <2>2, <3>2 DEF Passing
    <3> QED
      BY <3>2, <3>3, PassingKept
  <2> QED
    BY <2>1, <2>2
<1>6. Known'
  BY DEF PInv, Known, ThreadsOf, State, Task
<1> QED
  BY <1>2, <1>4, <1>5, <1>6

(* What a process leads it has to itself, and stages tell. *)
LEMMA LedMeans ==
  ASSUME PInv, NEW s \in Slots, procs[s].pc # "free"
  PROVE  /\ Typed /\ procs[s].ph \in Phases /\ procs[s] \in ProcessType
         /\ Stage(s) /\ Handover(s) /\ Pacing(s) /\ ThreadsOf(procs[s].ph)
         /\ State(procs[s].ph) \in Nat
<1>1. Typed /\ procs[s].ph \in Phases
  BY TypedMeans DEF PInv
<1> QED
  BY <1>1, TypedMeans, StatesAre DEF PInv, Led, Known

LEMMA MoveFrame ==
  ASSUME PInv, NEW s \in Slots, NEW p, p = procs[s].ph, procs[s].pc \notin {"free", "put"},
         NEW pc, NEW todo, NEW on, NEW again, NEW n,
         Becomes(s, pc, todo, on, again, n), pc # "put", queue' = queue,
         \A q \in Phases \ {p} : node'[q] = node[q] /\ bodies'[q] = bodies[q],
         State(p) = Done => node'[p].st = Done,
         Begun(p) => node'[p].st >= Executing,
         node'[p].st = Dormant => State(p) = Dormant,
         Stage(s)', Handover(s)', Pacing(s)', ThreadsOf(p)',
         \A q \in Succ[p] :
           node'[p].st = Done /\ node'[q].st = Dormant =>
             pc = "schedule" \/ (pc \in {"succ", "put"} /\ q \in todo)
  PROVE  (Placed /\ Led /\ Passed /\ Known)'
<1>1. p \in Phases
  BY LedMeans
<1>2. Steady(s) /\ ~Putting(s) /\ \A x \in Slots \ {s} : Same(x)
  BY DEF Becomes, Steady, Putting
<1>3. /\ State(p) = Done => State(p)' = Done
      /\ Begun(p) => Begun(p)'
      /\ State(p)' = Dormant => State(p) = Dormant
  BY DEF State, Begun
<1>4. \A q \in Succ[p] :
        State(p)' = Done /\ State(q)' = Dormant => Passing(s, p, q)'
  BY DEF Becomes, Passing, State
<1> QED
  BY <1>1, <1>2, <1>3, <1>4, Frame

(* The same for a step that leaves every phase in its state. *)
LEMMA StillFrame ==
  ASSUME PInv, NEW s \in Slots, procs[s].pc \notin {"free", "put"},
         procs[s].pc \notin {"schedule", "succ"},
         NEW pc, NEW todo, NEW on, NEW again, NEW n,
         Becomes(s, pc, todo, on, again, n), pc # "put", queue' = queue,
         node' = node, bodies' = bodies,
         Stage(s)', Handover(s)', Pacing(s)'
  PROVE  (Placed /\ Led /\ Passed /\ Known)'
<1>0. PICK p : p = procs[s].ph
  OBVIOUS
<1>1. p \in Phases /\ ThreadsOf(p) /\ Stage(s)
  BY <1>0, LedMeans
<1>2. ThreadsOf(p)'
  BY <1>1 DEF ThreadsOf, State, Task
<1>3. State(p) # Done
  <2>1. procs[s].pc \in {"preds", "sync", "execute", "cleanup", "finish"} \cup Ending
    <3>1. procs[s].pc \in Points
      BY LedMeans DEF ProcessType
    <3> QED
      BY <3>1 DEF Points, Ending
  <2> QED
    BY <1>0, <1>1, <2>1
       DEF Stage, Awaits, Dormant, Scheduled, Syncing, Started, Executing, ReadyToEnd,
           Ended, Cleanup, Done, Jumping
<1>4. /\ \A q \in Phases \ {p} : node'[q] = node[q] /\ bodies'[q] = bodies[q]
      /\ State(p) = Done => node'[p].st = Done
      /\ Begun(p) => node'[p].st >= Executing
      /\ node'[p].st = Dormant => State(p) = Dormant
      /\ node'[p].st # Done
  BY <1>3 DEF State, Begun
<1> QED
  BY <1>0, <1>2, <1>4, MoveFrame

LEMMA VisitKeeps ==
  ASSUME PInv, NEW s \in Slots, Visit(s)
  PROVE  (Placed /\ Led /\ Passed /\ Known)'
<1> DEFINE p == procs[s].ph
           pc == procs[s].pc
           todo == procs[s].todo
<1>1. /\ pc \in {"preds", "sync", "peers"} /\ todo # {} /\ Reached(pc, NextOf(s))
      /\ UNCHANGED <<node, bodies, queue>>
  BY DEF Visit, At
<1>2. /\ Typed /\ p \in Phases /\ procs[s] \in ProcessType
      /\ Stage(s) /\ Handover(s) /\ Pacing(s)
  BY <1>1, LedMeans
<1>3. Becomes(s, pc, todo \ {NextOf(s)}, procs[s].on, procs[s].again, procs[s].n)
  BY <1>2, VisitMoves
<1>4. /\ procs'[s].ph = p /\ procs'[s].pc = pc /\ procs'[s].todo = todo \ {NextOf(s)}
      /\ procs'[s].n = procs[s].n
  BY <1>3 DEF Becomes
<1>5. Stage(s)'
  BY <1>1, <1>2, <1>4 DEF Stage, State, Awaits, Ending
<1>6. Handover(s)'
  <2>1. pc = "preds" => State(NextOf(s)) = Done
    BY <1>1 DEF Reached
  <2> QED
    BY <1>1, <1>2, <1>4, <2>1 DEF Handover, State
<1>7. Pacing(s)'
  BY <1>1, <1>2, <1>4 DEF Pacing
<1> QED
  BY <1>1, <1>3, <1>5, <1>6, <1>7, StillFrame

(* Waiting for peers, and ending. *)
LEMMA EndKeeps ==
  ASSUME PInv, NEW s \in Slots, End(s) \/ PeersEnd(s) \/ EndEarly(s)
  PROVE  (Placed /\ Led /\ Passed /\ Known)'
<1> DEFINE p == procs[s].ph
<1>1. procs[s].pc \in Ending /\ UNCHANGED <<node, bodies, queue>>
  BY DEF End, PeersEnd, EndEarly, Interruptible, At, Ending
<1>2. Typed /\ p \in Phases /\ State(p) \in {Executing, ReadyToEnd}
  BY <1>1, LedMeans DEF Stage, Ending
<1>3. \E pc \in {"end", "ended", "peers", "finish"}, todo \in SUBSET Phases :
        /\ \E on, again, n : Becomes(s, pc, todo, on, again, n)
        /\ pc = "finish" => ~Task(p)
  <2>1. CASE End(s)
    BY <1>2, <2>1, EndMoves
  <2>2. CASE PeersEnd(s)
    <3>1. procs[s].todo \in SUBSET Phases
      BY <1>2, TypedMeans DEF ProcessType
    <3>2. Becomes(s, "ended", procs[s].todo, procs[s].on, procs[s].again, procs[s].n)
      BY <1>2, <2>2, PeersEndMoves
    <3> QED
      BY <3>1, <3>2
  <2>3. CASE EndEarly(s)
    <3>1. Becomes(s, "end", {}, 0, FALSE, 0)
      BY <1>2, <2>3, EndEarlyMoves
    <3>2. \E on, again, n : Becomes(s, "end", {}, on, again, n)
      BY <3>1, Zenon
    <3> QED
      BY <3>2
  <2> QED
    BY <2>1, <2>2, <2>3
<1>4. PICK pc \in {"end", "ended", "peers", "finish"}, todo \in SUBSET Phases :
        /\ \E on, again, n : Becomes(s, pc, todo, on, again, n)
        /\ pc = "finish" => ~Task(p)
  BY <1>3
<1>5. PICK on, again, n : Becomes(s, pc, todo, on, again, n)
  BY <1>4
<1>6. procs'[s].ph = p /\ procs'[s].pc = pc
  BY <1>5 DEF Becomes
<1>7. Stage(s)'
  BY <1>1, <1>2, <1>4, <1>6 DEF Stage, State, Task, Ending
<1>8. Handover(s)' /\ Pacing(s)'
  BY <1>4, <1>6 DEF Handover, Pacing
<1>9. procs[s].pc \notin {"free", "put", "schedule", "succ"}
  BY <1>1 DEF Ending
<1> QED
  BY <1>1, <1>5, <1>6, <1>7, <1>8, <1>9, StillFrame

LEMMA WatchKeeps ==
  ASSUME PInv, NEW s \in Slots, Watch(s)
  PROVE  (Placed /\ Led /\ Passed /\ Known)'
<1> DEFINE p == procs[s].ph
<1>1. procs[s].pc = "watch" /\ UNCHANGED <<node, bodies, queue>>
  BY DEF Watch, At
<1>2. /\ Typed /\ p \in Phases /\ State(p) \in {Executing, ReadyToEnd}
      /\ procs[s].n = 0
  BY <1>1, LedMeans DEF Stage, Ending, Pacing
<1>3. CASE Becomes(s, "await", {}, p, procs[s].again, procs[s].n)
  <2>1. procs'[s].ph = p /\ procs'[s].pc = "await" /\ procs'[s].on = p /\ procs'[s].n = 0
    BY <1>2, <1>3 DEF Becomes
  <2>2. Stage(s)' /\ Handover(s)' /\ Pacing(s)'
    BY <1>1, <1>2, <2>1 DEF Stage, State, Ending, Handover, Pacing
  <2> QED
    BY <1>1, <1>3, <2>2, StillFrame
<1>4. CASE Becomes(s, "sibs", Siblings(p), procs[s].on, procs[s].again, procs[s].n)
  <2>1. /\ procs'[s].ph = p /\ procs'[s].pc = "sibs" /\ procs'[s].todo = Siblings(p)
        /\ procs'[s].n = 0
    BY <1>2, <1>4 DEF Becomes
  <2>2. Stage(s)' /\ Handover(s)' /\ Pacing(s)'
    BY <1>1, <1>2, <2>1 DEF Stage, State, Ending, Handover, Pacing
  <2> QED
    BY <1>1, <1>4, <2>2, StillFrame
<1> QED
  BY <1>2, <1>3, <1>4, WatchMoves

(* A process gives its phase the next state. *)
LEMMA SetFrame ==
  ASSUME PInv, NEW s \in Slots, NEW p, p = procs[s].ph,
         procs[s].pc \notin {"free", "put", "schedule", "succ"},
         NEW pc, NEW todo, NEW on, NEW again, NEW n,
         Becomes(s, pc, todo, on, again, n), pc # "put", queue' = queue, bodies' = bodies,
         NEW st \in {Syncing, Started, Executing, ReadyToEnd, Ended},
         node' = [node EXCEPT ![p].st = st],
         Begun(p) => st >= Executing,
         node[p].proc => st \in {Executing, ReadyToEnd, Ended},
         State(p) # Done,
         Stage(s)', Handover(s)', Pacing(s)'
  PROVE  (Placed /\ Led /\ Passed /\ Known)'
<1>1. p \in Phases /\ ThreadsOf(p) /\ Typed
  BY LedMeans
<1>2. /\ node'[p].st = st /\ node'[p].proc = node[p].proc /\ node'[p].jump = node[p].jump
      /\ \A q \in Phases \ {p} : node'[q] = node[q]
  BY <1>1, StateSet DEF State
<1>3. ThreadsOf(p)'
  BY <1>1, <1>2 DEF ThreadsOf, State, Task
<1>4. st # Done /\ st # Dormant
  BY DEF Syncing, Started, Executing, ReadyToEnd, Ended, Done, Dormant
<1> QED
  BY <1>2, <1>3, <1>4, MoveFrame

LEMMA SyncKeeps ==
  ASSUME PInv, NEW s \in Slots, Sync(s)
  PROVE  /\ (Placed /\ Led /\ Passed /\ Known)'
         /\ \A q \in Pred[procs[s].ph] : State(q) = Done
<1> PICK p : p = procs[s].ph
  OBVIOUS
<1>1. /\ procs[s].pc = "preds" /\ UNCHANGED <<bodies, queue>> /\ procs[s].todo = {}
      /\ node' = [node EXCEPT ![p].st = Syncing]
  BY DEF Sync, At
<1>2. /\ Typed /\ p \in Phases /\ ThreadsOf(p) /\ Awaits(p) /\ procs[s].n = 0
      /\ \A q \in Pred[p] : State(q) = Done
  BY <1>1, LedMeans DEF Stage, Pacing, Handover
<1>3. Becomes(s, "sync", SyncWith[p], procs[s].on, procs[s].again, procs[s].n)
  BY <1>2, SyncMoves
<1>4. procs'[s].ph = p /\ procs'[s].pc = "sync" /\ procs'[s].n = 0
  BY <1>2, <1>3 DEF Becomes
<1>5. node'[p].st = Syncing
  BY <1>1, <1>2, StateSet DEF State
<1>6. Stage(s)' /\ Handover(s)' /\ Pacing(s)'
  BY <1>4, <1>5 DEF Stage, State, Ending, Handover, Pacing
<1>7. /\ ~Begun(p) /\ State(p) # Done /\ ~node[p].proc
  BY <1>2 DEF Begun, Awaits, ThreadsOf, Executing, Scheduled, Dormant, Done, ReadyToEnd, Ended
<1> QED
  BY <1>1, <1>2, <1>3, <1>6, <1>7, SetFrame

LEMMA StartKeeps ==
  ASSUME PInv, NEW s \in Slots, Start(s)
  PROVE  (Placed /\ Led /\ Passed /\ Known)'
<1> PICK p : p = procs[s].ph
  OBVIOUS
<1>1. /\ procs[s].pc = "sync" /\ UNCHANGED <<bodies, queue>>
      /\ node' = [node EXCEPT ![p].st = Started]
  BY DEF Start, At
<1>2. /\ Typed /\ p \in Phases /\ ThreadsOf(p) /\ State(p) = Syncing /\ procs[s].n = 0
  BY <1>1, LedMeans DEF Stage, Pacing
<1>3. Becomes(s, "execute", procs[s].todo, procs[s].on, procs[s].again, procs[s].n)
  BY <1>2, StartMoves
<1>4. procs'[s].ph = p /\ procs'[s].pc = "execute" /\ procs'[s].n = 0
  BY <1>2, <1>3 DEF Becomes
<1>5. node'[p].st = Started
  BY <1>1, <1>2, StateSet DEF State
<1>6. Stage(s)' /\ Handover(s)' /\ Pacing(s)'
  BY <1>4, <1>5 DEF Stage, State, Ending, Handover, Pacing
<1>7. ~Begun(p) /\ State(p) # Done /\ ~node[p].proc
  BY <1>2 DEF Begun, ThreadsOf, Executing, Syncing, Done, ReadyToEnd, Ended
<1> QED
  BY <1>1, <1>3, <1>6, <1>7, SetFrame

LEMMA ReadyKeeps ==
  ASSUME PInv, NEW s \in Slots, Ready(s)
  PROVE  (Placed /\ Led /\ Passed /\ Known)'
<1> PICK p : p = procs[s].ph
  OBVIOUS
<1>1. /\ procs[s].pc = "ready" /\ UNCHANGED <<bodies, queue>>
      /\ node' = [node EXCEPT ![p].st = ReadyToEnd]
  BY DEF Ready, At
<1>2. /\ Typed /\ p \in Phases /\ ThreadsOf(p) /\ State(p) \in {Executing, ReadyToEnd}
      /\ \A q \in Siblings(p) : Begun(q)
  BY <1>1, LedMeans DEF Stage, Pacing, Ending
<1>3. Becomes(s, "sibs", Siblings(p), procs[s].on, procs[s].again, procs[s].n + 1)
  BY <1>2, ReadyMoves
<1>4. procs'[s].ph = p /\ procs'[s].pc = "sibs" /\ procs'[s].todo = Siblings(p)
  BY <1>2, <1>3 DEF Becomes
<1>5. /\ node'[p].st = ReadyToEnd
      /\ \A q \in Phases \ {p} : node'[q] = node[q]
  BY <1>1, <1>2, StateSet DEF State
<1>6. \A q \in Siblings(p) : node'[q].st >= Executing
  <2>1. Siblings(p) \in SUBSET Phases
    BY <1>2, GraphType
  <2> QED
    BY <1>2, <1>5, <2>1 DEF Begun, State, Executing, ReadyToEnd
<1>7. Stage(s)' /\ Handover(s)'
  BY <1>4, <1>5 DEF Stage, State, Ending, Handover
<1>8. Pacing(s)'
  BY <1>4, <1>6 DEF Pacing, Begun, State
<1>9. State(p) # Done
  BY <1>2 DEF Executing, Done, ReadyToEnd
<1>10. ReadyToEnd >= Executing
  BY DEF Executing, ReadyToEnd
<1> QED
  BY <1>1, <1>3, <1>7, <1>8, <1>9, <1>10, SetFrame

LEMMA EndedAtKeeps ==
  ASSUME PInv, NEW s \in Slots, EndedAt(s)
  PROVE  (Placed /\ Led /\ Passed /\ Known)'
<1> PICK p : p = procs[s].ph
  OBVIOUS
<1>1. /\ procs[s].pc = "ended" /\ UNCHANGED <<bodies, queue>>
      /\ node' = [node EXCEPT ![p].st = Ended]
  BY DEF EndedAt, At
<1>2. /\ Typed /\ p \in Phases /\ ThreadsOf(p) /\ State(p) \in {Executing, ReadyToEnd}
  BY <1>1, LedMeans DEF Stage, Ending
<1>3. Becomes(s, "cleanup", procs[s].todo, procs[s].on, procs[s].again, procs[s].n)
  BY <1>2, EndedAtMoves
<1>4. procs'[s].ph = p /\ procs'[s].pc = "cleanup"
  BY <1>2, <1>3 DEF Becomes
<1>5. node'[p].st = Ended
  BY <1>1, <1>2, StateSet DEF State
<1>6. Stage(s)' /\ Handover(s)' /\ Pacing(s)'
  BY <1>4, <1>5 DEF Stage, State, Ending, Handover, Pacing
<1>7. State(p) # Done /\ Ended >= Executing
  BY <1>2 DEF Executing, Done, ReadyToEnd, Ended
<1> QED
  BY <1>1, <1>3, <1>6, <1>7, SetFrame

(* The threads of a phase begin and end with its execution. *)
LEMMA ExecuteKeeps ==
  ASSUME PInv, NEW s \in Slots, Execute(s)
  PROVE  (Placed /\ Led /\ Passed /\ Known)'
<1> PICK p : p = procs[s].ph
  OBVIOUS
<1> DEFINE pc == IF Task(p) THEN "watch" ELSE "end"
<1>1. procs[s].pc = "execute" /\ UNCHANGED queue
  BY DEF Execute, At
<1>2. /\ Typed /\ p \in Phases /\ ThreadsOf(p) /\ State(p) = Started /\ procs[s].n = 0
  BY <1>1, LedMeans DEF Stage, Pacing
<1>3. Becomes(s, pc, procs[s].todo, procs[s].on, procs[s].again, procs[s].n)
  BY <1>2, ExecuteMoves
<1>4. procs'[s].ph = p /\ procs'[s].pc = pc /\ procs'[s].n = 0
  BY <1>2, <1>3 DEF Becomes
<1>5. /\ node'[p].st = Executing /\ node'[p].proc = Task(p) /\ node'[p].jump = node[p].jump
      /\ bodies'[p] = IF Task(p) THEN bodies[p] + 1 ELSE bodies[p]
      /\ \A q \in Phases \ {p} : node'[q] = node[q] /\ bodies'[q] = bodies[q]
  BY <1>2, ExecuteDoes
<1>6. Stage(s)' /\ Handover(s)' /\ Pacing(s)'
  BY <1>4, <1>5 DEF Stage, State, Ending, Handover, Pacing
<1>7. State(p) # Done /\ Executing >= Executing /\ Executing # Done /\ Executing # Dormant
      /\ ~node[p].proc
  BY <1>2 DEF Executing, Started, Done, Dormant, ThreadsOf, ReadyToEnd, Ended
<1>8. ThreadsOf(p)'
  <2>1. bodies[p] = 0
    BY <1>2, <1>7 DEF ThreadsOf
  <2>2. CASE Task(p)
    <3>1. node'[p].proc /\ bodies'[p] = 1
      BY <1>5, <2>1, <2>2
    <3> QED
      BY <1>5, <2>2, <3>1 DEF ThreadsOf, State, Task
  <2>3. CASE ~Task(p)
    <3>1. ~node'[p].proc /\ bodies'[p] = 0
      BY <1>5, <2>1, <2>3
    <3> QED
      BY <3>1 DEF ThreadsOf
  <2> QED
    BY <2>2, <2>3
<1>9. pc # "put"
  OBVIOUS
<1> HIDE DEF pc
<1> QED
  BY <1>1, <1>3, <1>5, <1>6, <1>7, <1>8, <1>9, MoveFrame

LEMMA CleanupAtKeeps ==
  ASSUME PInv, NEW s \in Slots, CleanupAt(s)
  PROVE  (Placed /\ Led /\ Passed /\ Known)'
<1> PICK p : p = procs[s].ph
  OBVIOUS
<1>1. procs[s].pc = "cleanup" /\ UNCHANGED queue
  BY DEF CleanupAt, At
<1>2. Typed /\ p \in Phases /\ ThreadsOf(p) /\ State(p) = Ended
  BY <1>1, LedMeans DEF Stage
<1>3. Becomes(s, "finish", procs[s].todo, procs[s].on, procs[s].again, procs[s].n)
  BY <1>2, CleanupAtMoves
<1>4. procs'[s].ph = p /\ procs'[s].pc = "finish"
  BY <1>2, <1>3 DEF Becomes
<1>5. /\ node'[p].st \in {Cleanup, Jumping} /\ node'[p].proc = FALSE
      /\ node'[p].jump = node[p].jump
      /\ bodies'[p] = IF node[p].proc THEN bodies[p] - 1 ELSE bodies[p]
      /\ \A q \in Phases \ {p} : node'[q] = node[q] /\ bodies'[q] = bodies[q]
  BY <1>2, CleanupAtDoes
<1>6. Stage(s)' /\ Handover(s)' /\ Pacing(s)'
  BY <1>4, <1>5 DEF Stage, State, Ending, Handover, Pacing
<1>7. /\ State(p) # Done /\ node'[p].st # Done /\ node'[p].st # Dormant
      /\ node'[p].st >= Executing
  BY <1>2, <1>5 DEF Executing, Ended, Done, Dormant, Cleanup, Jumping
<1>8. ThreadsOf(p)'
  <2>1. bodies[p] = IF node[p].proc THEN 1 ELSE 0
    BY <1>2 DEF ThreadsOf
  <2>2. bodies'[p] = 0
    BY <1>5, <2>1
  <2> QED
    BY <1>5, <2>1, <2>2 DEF ThreadsOf
<1> QED
  BY <1>1, <1>3, <1>5, <1>6, <1>7, <1>8, MoveFrame

LEMMA PassKeeps ==
  ASSUME PInv, NEW s \in Slots, Pass(s)
  PROVE  /\ (Placed /\ Led /\ Passed /\ Known)'
         /\ procs'[s].pc = "end" =>
              \A q \in Siblings(procs[s].ph) : objn[q].raised = 0
<1> PICK p : p = procs[s].ph
  OBVIOUS
<1> DEFINE todo == procs[s].todo
           n == procs[s].n
<1>1. UNCHANGED <<bodies, queue>>
  BY DEF Pass
<1>2. /\ procs[s].pc = "sibs" /\ p \in Phases
      /\ PassEnds(s) \/ \E q \in Phases : PassStops(s, q)
  BY PassMoves DEF PInv
<1>3. /\ Typed /\ ThreadsOf(p) /\ State(p) \in {Executing, ReadyToEnd}
      /\ todo \subseteq Siblings(p) /\ \A q \in Siblings(p) \ todo : Begun(q)
      /\ n > 0 => /\ procs[s].again \/ todo = Siblings(p)
                  /\ \A q \in Siblings(p) : Begun(q)
  BY <1>2, LedMeans DEF Stage, Ending, Pacing
<1>4. Siblings(p) \in SUBSET Phases /\ \A q \in Siblings(p) : State(q) \in Nat
  BY <1>2, <1>3, GraphType, StatesAre
<1>5. Round(s) = Siblings(p) \/ (Round(s) = todo /\ ~Repeats(s))
  BY DEF Round
<1>6. ASSUME NEW q \in Siblings(p), q \notin Stops(Round(s)), q \in Round(s)
      PROVE  Begun(q) /\ objn[q].raised = 0
  BY <1>4, <1>6 DEF Stops, Begun, Executing
<1>7. Round(s) \subseteq Siblings(p) /\ \A q \in Siblings(p) \ Round(s) : Begun(q)
  BY <1>3, <1>5
<1> HIDE DEF todo, n
<1>8. CASE PassEnds(s)
  <2>1. Stops(Round(s)) = {} /\ node' = node
    BY <1>8 DEF PassEnds
  <2>2. \A q \in Siblings(p) : Begun(q)
    BY <1>6, <1>7, <2>1
  <2>3. n > 0 => \A q \in Siblings(p) : objn[q].raised = 0
    <3> SUFFICES ASSUME n > 0 PROVE Round(s) = Siblings(p)
      BY <1>6, <2>1
    <3>1. CASE Round(s) = todo /\ ~Repeats(s)
      <4>1. ~procs[s].again
        BY <2>1, <3>1 DEF Repeats, todo
      <4> QED
        BY <1>3, <3>1, <4>1
    <3> QED
      BY <1>5, <3>1
  <2>4. CASE Becomes(s, "ready", {}, procs[s].on, FALSE, n)
    <3>1. procs'[s].ph = p /\ procs'[s].pc = "ready"
      BY <2>4 DEF Becomes
    <3>2. Stage(s)' /\ Handover(s)'
      BY <1>3, <2>1, <3>1 DEF Stage, State, Ending, Handover
    <3>3. Pacing(s)'
      BY <2>1, <2>2, <3>1 DEF Pacing, Begun, State
    <3> QED
      BY <1>1, <1>2, <2>1, <2>4, <3>1, <3>2, <3>3, StillFrame
  <2>5. CASE Becomes(s, "end", {}, procs[s].on, FALSE, n) /\ n > 0
    <3>1. procs'[s].ph = p /\ procs'[s].pc = "end"
      BY <2>5 DEF Becomes
    <3>2. Stage(s)' /\ Handover(s)' /\ Pacing(s)'
      BY <1>3, <2>1, <3>1 DEF Stage, State, Ending, Handover, Pacing
    <3> QED
      BY <1>1, <1>2, <2>1, <2>3, <2>5, <3>1, <3>2, StillFrame
  <2> QED
    BY <1>8, <2>4, <2>5 DEF PassEnds, n
<1>9. ASSUME NEW q \in Phases, PassStops(s, q)
      PROVE  (Placed /\ Led /\ Passed /\ Known)' /\ procs'[s].pc # "end"
  <2> DEFINE R == Rest(s, q)
  <2>1. R \subseteq Siblings(p) /\ \A x \in Siblings(p) \ R : Begun(x)
    <3>1. q \in Round(s) /\ \A x \in Round(s) \ R : x \notin Stops(Round(s))
      <4>1. \A x \in Stops(Round(s)) : q <= x
        BY <1>9 DEF PassStops
      <4>2. q \in Nat /\ Round(s) \in SUBSET Nat
        BY <1>4, <1>7, GraphType
      <4> QED
        BY <1>9, <4>1, <4>2 DEF PassStops, Rest, Stops
    <3>2. R \subseteq Round(s)
      BY DEF Rest
    <3> QED
      BY <1>6, <1>7, <3>1, <3>2
  <2> HIDE DEF R
  <2>2. CASE /\ ~Begun(q) /\ node' = node
             /\ Becomes(s, "sibs", R, procs[s].on, procs[s].again /\ ~Repeats(s), n)
    <3>1. /\ procs'[s].ph = p /\ procs'[s].pc = "sibs" /\ procs'[s].todo = R
          /\ procs'[s].n = n
      BY <2>2 DEF Becomes
    <3>2. Stage(s)' /\ Handover(s)'
      BY <1>3, <2>2, <3>1 DEF Stage, State, Ending, Handover
    <3>3. ~(n > 0)
      <4>1. q \in Siblings(p)
        BY <1>7, <1>9 DEF PassStops, Stops
      <4> QED
        BY <1>3, <2>2, <4>1
    <3>4. Pacing(s)'
      BY <2>1, <2>2, <3>1, <3>3 DEF Pacing, Begun, State
    <3> QED
      BY <1>1, <1>2, <2>2, <3>1, <3>2, <3>4, StillFrame
  <2>3. CASE /\ Begun(q) /\ node' = [node EXCEPT ![p].st = Executing]
             /\ Becomes(s, "sibwait", R, q, TRUE, n)
    <3>1. /\ procs'[s].ph = p /\ procs'[s].pc = "sibwait" /\ procs'[s].todo = R
          /\ procs'[s].n = n /\ procs'[s].on = q /\ procs'[s].again
      BY <2>3 DEF Becomes
    <3>2. /\ node'[p].st = Executing
          /\ \A x \in Phases \ {p} : node'[x] = node[x]
      BY <1>2, <1>3, <2>3, StateSet DEF State
    <3>3. Stage(s)' /\ Handover(s)'
      BY <3>1, <3>2 DEF Stage, State, Ending, Handover
    <3>4. \A x \in Phases : Begun(x) => node'[x].st >= Executing
      BY <3>2 DEF Begun, State, Executing
    <3>5. Pacing(s)'
      <4>1. q # 0
        BY GraphType
      <4> QED
        BY <1>3, <1>4, <2>1, <2>3, <3>1, <3>4, <4>1 DEF Pacing, Begun, State
    <3>6. State(p) # Done /\ Executing >= Executing
      BY <1>3 DEF Executing, ReadyToEnd, Done
    <3> QED
      BY <1>1, <1>2, <2>3, <3>1, <3>3, <3>5, <3>6, SetFrame
  <2> QED
    BY <1>9, <2>2, <2>3 DEF PassStops, R, n
<1> QED
  BY <1>2, <1>8, <1>9

LEMMA FinishKeeps ==
  ASSUME PInv, NEW s \in Slots, Finish(s), node[procs[s].ph].jump = 0
  PROVE  (Placed /\ Led /\ Passed /\ Known)'
<1> PICK p : p = procs[s].ph
  OBVIOUS
<1>1. procs[s].pc = "finish" /\ UNCHANGED <<bodies, queue>>
  BY DEF Finish, At
<1>2. /\ Typed /\ p \in Phases /\ ThreadsOf(p) /\ node[p].jump = 0 /\ node[p] \in NodeType
      /\ \/ State(p) \in {Cleanup, Jumping}
         \/ ~Task(p) /\ State(p) \in {Executing, ReadyToEnd}
  BY <1>1, LedMeans, TypedMeans DEF Stage, ThreadsOf
<1>3. Becomes(s, "schedule", procs[s].todo, 0, procs[s].again, procs[s].n)
  BY <1>2, FinishMoves
<1>4. procs'[s].ph = p /\ procs'[s].pc = "schedule" /\ procs'[s].on = 0
  BY <1>2, <1>3 DEF Becomes
<1>5. /\ node'[p].st = Done /\ node'[p].proc = FALSE
      /\ \A q \in Phases \ {p} : node'[q] = node[q]
  <2> DEFINE r == Reset(Done, node[p])
  <2>1. node' = [node EXCEPT ![p] = r]
    BY <1>2 DEF Finish
  <2>2. r \in NodeType /\ r.st = Done /\ r.proc = FALSE
    BY <1>2 DEF Reset, NodeType
  <2> HIDE DEF r
  <2> QED
    BY <1>2, <2>1, <2>2, PhaseSet
<1>6. Stage(s)' /\ Handover(s)' /\ Pacing(s)'
  BY <1>4, <1>5 DEF Stage, State, Ending, Handover, Pacing
<1>7. ThreadsOf(p)'
  <2>1. ~node[p].proc
    BY <1>2 DEF ThreadsOf, Cleanup, Jumping, Executing, ReadyToEnd, Ended
  <2>2. bodies'[p] = 0
    BY <1>1, <1>2, <2>1 DEF ThreadsOf
  <2> QED
    BY <1>5, <2>2 DEF ThreadsOf
<1>8. Done >= Executing /\ Done # Dormant
  BY DEF Done, Executing, Dormant
<1> QED
  BY <1>1, <1>3, <1>5, <1>6, <1>7, <1>8, MoveFrame

(* Only the process that leads a phase hands over for it. *)
LEMMA PassingIs ==
  ASSUME PInv, NEW s \in Slots, procs[s].pc # "free", NEW q \in Succ[procs[s].ph],
         State(procs[s].ph) = Done, State(q) = Dormant
  PROVE  Passing(s, procs[s].ph, q)
<1>1. procs[s].ph \in Phases
  BY LedMeans
<1>2. PICK x \in Slots : Passing(x, procs[s].ph, q)
  BY <1>1 DEF PInv, Passed
<1>3. x = s
  <2>1. procs[x].ph = procs[s].ph /\ procs[s].ph # 0
    BY <1>1, <1>2, GraphType DEF Passing
  <2> QED
    BY <2>1 DEF PInv, Placed, InHopperOnce
<1> QED
  BY <1>2, <1>3

LEMMA ScheduleKeeps ==
  ASSUME PInv, NEW s \in Slots, Schedule(s)
  PROVE  (Placed /\ Led /\ Passed /\ Known)'
<1> PICK p : p = procs[s].ph
  OBVIOUS
<1>1. procs[s].pc = "schedule" /\ UNCHANGED <<node, bodies>>
  BY DEF Schedule, At
<1>2. /\ Typed /\ p \in Phases /\ ThreadsOf(p) /\ State(p) = Done /\ procs[s].on = 0
  BY <1>1, LedMeans DEF Stage, Handover
<1>3. Becomes(s, "succ", Succ[p], 0, procs[s].again, procs[s].n) /\ queue' = queue
  BY <1>2, ScheduleMoves
<1>4. procs'[s].ph = p /\ procs'[s].pc = "succ" /\ procs'[s].todo = Succ[p]
  BY <1>2, <1>3 DEF Becomes
<1>5. Stage(s)' /\ Handover(s)' /\ Pacing(s)'
  BY <1>1, <1>2, <1>4 DEF Stage, State, Ending, Handover, Pacing
<1>6. ThreadsOf(p)'
  BY <1>1, <1>2 DEF ThreadsOf, State, Task
<1>7. /\ State(p) = Done => node'[p].st = Done
      /\ Begun(p) => node'[p].st >= Executing
      /\ node'[p].st = Dormant => State(p) = Dormant
  BY <1>1 DEF State, Begun
<1> QED
  BY <1>1, <1>3, <1>5, <1>6, <1>7, MoveFrame

(* A successor that is on its way already is passed by. *)
LEMMA SkipKeeps ==
  ASSUME PInv, NEW s \in Slots, procs[s].pc = "succ", UNCHANGED <<node, bodies, queue>>,
         NEW q \in Phases, ~(State(q) < Scheduled),
         Becomes(s, "succ", procs[s].todo \ {q}, procs[s].on, procs[s].again, procs[s].n)
  PROVE  (Placed /\ Led /\ Passed /\ Known)'
<1> PICK p : p = procs[s].ph
  OBVIOUS
<1>1. /\ Typed /\ p \in Phases /\ ThreadsOf(p) /\ State(p) = Done
      /\ procs[s].todo \subseteq Succ[p]
  BY LedMeans DEF Stage, Handover
<1>2. procs'[s].ph = p /\ procs'[s].pc = "succ" /\ procs'[s].todo = procs[s].todo \ {q}
  BY <1>1 DEF Becomes
<1>3. Stage(s)' /\ Handover(s)' /\ Pacing(s)'
  BY <1>1, <1>2 DEF Stage, State, Ending, Handover, Pacing
<1>4. ThreadsOf(p)'
  BY <1>1 DEF ThreadsOf, State, Task
<1>5. /\ State(p) = Done => node'[p].st = Done
      /\ Begun(p) => node'[p].st >= Executing
      /\ node'[p].st = Dormant => State(p) = Dormant
  BY DEF State, Begun
<1>6. \A x \in Succ[p] : node'[x].st = Dormant => x \in procs[s].todo \ {q}
  <2> SUFFICES ASSUME NEW x \in Succ[p], State(x) = Dormant
               PROVE  x \in procs[s].todo \ {q}
    BY DEF State
  <2>1. Passing(s, p, x)
    BY <1>1, PassingIs
  <2>2. x # q
    BY DEF Dormant, Scheduled
  <2> QED
    BY <2>1, <2>2 DEF Passing
<1> QED
  BY <1>3, <1>4, <1>5, <1>6, MoveFrame

(* A phase that is dormant, and not the first, is nowhere. *)
LEMMA DormantNowhere ==
  ASSUME PInv, NEW q \in Phases, State(q) = Dormant, q # First
  PROVE  /\ \A i \in DOMAIN queue : queue[i] # q
         /\ \A x \in Slots : procs[x].ph # q /\ (Putting(x) => NextOf(x) # q)
<1>1. ~Awaits(q)
  BY DEF Awaits, Dormant, Scheduled
<1>2. \A i \in DOMAIN queue : queue[i] # q
  BY <1>1 DEF PInv, Placed, QueueWaits
<1>3. ASSUME NEW x \in Slots, procs[x].ph = q PROVE FALSE
  <2>1. procs[x].pc # "free" /\ procs[x].pc \in Points
    BY <1>3, TypedMeans, GraphType DEF PInv, Typed, ProcessType
  <2>2. Stage(x)
    BY DEF PInv, Led
  <2> QED
    BY <1>1, <1>3, <2>1, <2>2
       DEF Stage, Points, Ending, Dormant, Syncing, Started, Executing, ReadyToEnd,
           Ended, Cleanup, Done, Jumping
<1>4. ASSUME NEW x \in Slots, Putting(x), NextOf(x) = q PROVE FALSE
  <2>1. State(q) = Scheduled
    BY <1>4 DEF PInv, Led, Handover, Putting
  <2> QED
    BY <2>1 DEF Dormant, Scheduled
<1> QED
  BY <1>2, <1>3, <1>4

LEMMA SuccessorKeeps ==
  ASSUME PInv, NEW s \in Slots, Successor(s)
  PROVE  /\ (Placed /\ Led /\ Passed /\ Known)'
         /\ \/ node' = node
            \/ \E q \in Phases : State(q) = Dormant /\ node' = [node EXCEPT ![q].st = Scheduled]
<1> PICK q : q = NextOf(s)
  OBVIOUS
<1> PICK p : p = procs[s].ph
  OBVIOUS
<1>1. procs[s].pc = "succ" /\ UNCHANGED <<bodies, queue>>
  BY DEF Successor, At
<1>2. /\ Typed /\ p \in Phases /\ ThreadsOf(p) /\ State(p) = Done
      /\ procs[s].todo \subseteq Succ[p] /\ Pacing(s)
  BY <1>1, LedMeans DEF Stage, Handover
<1>3. /\ q \in procs[s].todo /\ q \in Phases
      /\ \/ /\ State(q) < Scheduled /\ node' = [node EXCEPT ![q].st = Scheduled]
            /\ Becomes(s, "put", procs[s].todo, procs[s].on, procs[s].again, procs[s].n)
         \/ /\ ~(State(q) < Scheduled) /\ node' = node
            /\ Becomes(s, "succ", procs[s].todo \ {q}, procs[s].on, procs[s].again, procs[s].n)
  BY <1>2, SuccessorMoves
<1>4. CASE /\ ~(State(q) < Scheduled) /\ node' = node
           /\ Becomes(s, "succ", procs[s].todo \ {q}, procs[s].on, procs[s].again, procs[s].n)
  BY <1>1, <1>3, <1>4, SkipKeeps
<1>5. CASE /\ State(q) < Scheduled /\ node' = [node EXCEPT ![q].st = Scheduled]
           /\ Becomes(s, "put", procs[s].todo, procs[s].on, procs[s].again, procs[s].n)
  <2>1. State(q) = Dormant
    BY <1>2, <1>3, <1>5, StatesAre
       DEF Dormant, Scheduled, Syncing, Started, Executing, ReadyToEnd,
           Ended, Cleanup, Done, Jumping
  <2>2. q # First
    BY <1>2, <1>3, GraphType, RootAssumption
  <2>3. /\ \A i \in DOMAIN queue : queue[i] # q
        /\ \A x \in Slots : procs[x].ph # q /\ (Putting(x) => NextOf(x) # q)
    BY <1>3, <2>1, <2>2, DormantNowhere
  <2>4. /\ node'[q].st = Scheduled /\ node'[q].proc = node[q].proc /\ node'[q].jump = node[q].jump
        /\ \A x \in Phases \ {q} : node'[x] = node[x]
    BY <1>2, <1>3, <1>5, StateSet DEF State
  <2>5. /\ procs'[s].ph = p /\ procs'[s].pc = "put" /\ procs'[s].todo = procs[s].todo
        /\ \A x \in Slots \ {s} : Same(x)
    BY <1>2, <1>5 DEF Becomes
  <2>6. \A x \in Slots \ {s} : /\ procs'[x].ph = procs[x].ph
                               /\ Putting(x)' <=> Putting(x)
                               /\ Putting(x) => NextOf(x)' = NextOf(x)
    BY <1>2, <2>5, SameIsSteady DEF Steady, Putting, NextOf
  <2>7. Putting(s)' /\ NextOf(s)' = q /\ ~Putting(s) /\ procs'[s].ph = procs[s].ph
    BY <1>1, <2>5 DEF Putting, NextOf
  <2>8. InHopperOnce'
    BY <1>1, <2>6, <2>7 DEF PInv, Placed, InHopperOnce
  <2>9. PutOnce'
    BY <1>1, <2>2, <2>3, <2>6, <2>7 DEF PInv, Placed, PutOnce
  <2>10. QueueWaits'
    <3> SUFFICES ASSUME NEW i \in DOMAIN queue PROVE Awaits(queue[i])'
      BY <1>1 DEF QueueWaits
    <3>1. queue[i] \in Phases \ {q} /\ Awaits(queue[i])
      BY <2>3, TypedMeans DEF PInv, Placed, QueueWaits
    <3> QED
      BY <1>1, <2>4, <3>1 DEF Awaits, State
  <2>11. Kept'
    <3> SUFFICES ASSUME NEW x \in Phases,
                        State(x)' \notin {Dormant, Done} \/ (x = First /\ State(x)' = Dormant)
                 PROVE  InHopper(x)'
      BY DEF Kept
    <3>1. CASE x = q
      BY <2>7, <3>1 DEF InHopper
    <3>2. CASE x # q
      <4>1. InHopper(x)
        BY <2>4, <3>2 DEF PInv, Placed, Kept, State
      <4> QED
        BY <1>1, <2>6, <2>7, <4>1 DEF InHopper
    <3> QED
      BY <3>1, <3>2
  <2>12. Onward
    BY <2>1, <2>4 DEF Onward, State, Begun, Dormant, Scheduled, Done, Executing
  <2>13. Led'
    <3>1. Stage(s)' /\ Handover(s)' /\ Pacing(s)'
      <4>1. State(p)' = Done /\ State(q)' = Scheduled
        <5>1. p # q
          BY <1>2, <2>1 DEF Dormant, Done
        <5> QED
          BY <1>2, <2>4, <5>1 DEF State
      <4>2. State(NextOf(s))' = Scheduled
        BY <2>7, <2>4 DEF State
      <4> QED
        BY <1>2, <2>5, <4>1, <4>2 DEF Stage, Handover, Pacing, Ending
    <3>2. ASSUME NEW x \in Slots \ {s} PROVE Stage(x)' /\ Handover(x)' /\ Pacing(x)'
      <4>1. Putting(x) => NextOf(x) \in Phases
        BY <1>2, NextIs DEF Typed, Putting
      <4> QED
        BY <2>3, <2>4, <2>5, <2>12, <4>1, OthersLed
    <3> QED
      BY <3>1, <3>2 DEF Led
  <2>14. Passed'
    <3> SUFFICES ASSUME NEW r \in Phases, NEW x \in Succ[r],
                        State(r)' = Done, State(x)' = Dormant
                 PROVE  \E y \in Slots : Passing(y, r, x)'
      BY DEF Passed
    <3>1. x \in Phases /\ State(r) = Done /\ State(x) = Dormant
      <4>1. x \in Phases
        BY GraphType
      <4>2. node'[r].st = Done /\ node'[x].st = Dormant
        BY DEF State
      <4>3. r # q /\ x # q
        BY <2>4, <4>2 DEF Done, Dormant, Scheduled
      <4> QED
        BY <2>4, <4>1, <4>2, <4>3 DEF State
    <3>2. PICK y \in Slots : Passing(y, r, x)
      BY <3>1 DEF PInv, Passed
    <3>3. CASE y = s
      BY <1>1, <2>5, <2>7, <3>2, <3>3 DEF Passing
    <3>4. CASE y # s
      BY <2>5, <3>2, <3>4, PassingKept
    <3> QED
      BY <3>3, <3>4
  <2>15. Known'
    <3> SUFFICES ASSUME NEW x \in Phases PROVE ThreadsOf(x)'
      BY DEF Known
    <3>1. ThreadsOf(x)
      BY DEF PInv, Known
    <3>2. CASE x = q
      <4>1. ~node[q].proc
        BY <2>1, <3>1, <3>2 DEF ThreadsOf, Dormant, Executing, ReadyToEnd, Ended
      <4> QED
        BY <1>1, <2>4, <3>1, <3>2, <4>1 DEF ThreadsOf
    <3>3. CASE x # q
      BY <1>1, <2>4, <3>1, <3>3 DEF ThreadsOf, State, Task
    <3> QED
      BY <3>2, <3>3
  <2> QED
    BY <1>3, <1>5, <2>1, <2>8, <2>9, <2>10, <2>11, <2>13, <2>14, <2>15 DEF Placed
<1> QED
  BY <1>3, <1>4, <1>5

LEMMA PutKeeps ==
  ASSUME PInv, NEW s \in Slots, Put(s)
  PROVE  (Placed /\ Led /\ Passed /\ Known)'
<1> PICK q : q = NextOf(s)
  OBVIOUS
<1> PICK p : p = procs[s].ph
  OBVIOUS
<1>1. procs[s].pc = "put" /\ UNCHANGED <<node, bodies>> /\ queue' = Append(queue, q)
  BY DEF Put, At
<1>2. /\ Typed /\ p \in Phases /\ State(p) = Done /\ procs[s].todo \subseteq Succ[p]
      /\ State(q) = Scheduled /\ Pacing(s)
  BY <1>1, LedMeans DEF Stage, Handover
<1>3. /\ q \in procs[s].todo /\ q \in Phases
      /\ Becomes(s, "succ", procs[s].todo \ {q}, procs[s].on, procs[s].again, procs[s].n)
  BY <1>2, PutMoves
<1>4. /\ procs'[s].ph = p /\ procs'[s].pc = "succ" /\ procs'[s].todo = procs[s].todo \ {q}
      /\ \A x \in Slots \ {s} : Same(x)
  BY <1>2, <1>3 DEF Becomes
<1>5. /\ \A i \in DOMAIN queue : queue[i] # q
      /\ \A x \in Slots : procs[x].ph # q
      /\ \A x \in Slots \ {s} : Putting(x) => NextOf(x) # q
  BY <1>1 DEF PInv, Placed, PutOnce, Putting
<1>6. \A x \in Slots \ {s} : /\ procs'[x].ph = procs[x].ph
                             /\ Putting(x)' <=> Putting(x)
                             /\ Putting(x) => NextOf(x)' = NextOf(x)
  BY <1>2, <1>4, SameIsSteady DEF Steady, Putting, NextOf
<1>7. ~Putting(s)' /\ procs'[s].ph = procs[s].ph
  BY <1>4 DEF Putting
<1>8. /\ DOMAIN queue' = DOMAIN queue \cup {Len(queue) + 1} /\ Len(queue) + 1 \notin DOMAIN queue
      /\ queue'[Len(queue) + 1] = q
      /\ \A i \in DOMAIN queue : queue'[i] = queue[i]
  BY <1>1, <1>2, <1>3, TypedMeans
<1>9. InHopperOnce'
  BY <1>5, <1>6, <1>7, <1>8 DEF PInv, Placed, InHopperOnce
<1>10. PutOnce'
  BY <1>5, <1>6, <1>7, <1>8 DEF PInv, Placed, PutOnce
<1>11. QueueWaits'
  <2>1. Awaits(q) /\ \A i \in DOMAIN queue : Awaits(queue[i])
    BY <1>2 DEF PInv, Placed, QueueWaits, Awaits
  <2> QED
    BY <1>1, <1>8, <2>1 DEF QueueWaits, Awaits, State
<1>12. Kept'
  <2> SUFFICES ASSUME NEW x \in Phases, InHopper(x) PROVE InHopper(x)'
    BY <1>1 DEF PInv, Placed, Kept, State
  <2>1. CASE x = q
    BY <1>8, <2>1 DEF InHopper
  <2>2. CASE x # q
    BY <1>6, <1>7, <1>8, <2>2 DEF InHopper
  <2> QED
    BY <2>1, <2>2
<1>13. Led'
  <2>1. Stage(s)' /\ Handover(s)' /\ Pacing(s)'
    BY <1>1, <1>2, <1>4 DEF Stage, State, Handover, Pacing, Ending
  <2>2. ASSUME NEW x \in Slots \ {s} PROVE Stage(x)' /\ Handover(x)' /\ Pacing(x)'
    <3>1. Onward
      BY <1>1 DEF Onward, State, Begun
    <3> QED
      BY <1>1, <1>4, <3>1, OthersLed
  <2> QED
    BY <2>1, <2>2 DEF Led
<1>14. Passed'
  <2> SUFFICES ASSUME NEW r \in Phases, NEW x \in Succ[r], State(r) = Done, State(x) = Dormant
               PROVE  \E y \in Slots : Passing(y, r, x)'
    BY <1>1 DEF Passed, State
  <2>1. PICK y \in Slots : Passing(y, r, x)
    BY DEF PInv, Passed
  <2>2. x # q
    BY <1>2 DEF Dormant, Scheduled
  <2>3. CASE y = s
    BY <1>1, <1>4, <1>7, <2>1, <2>2, <2>3 DEF Passing
  <2>4. CASE y # s
    BY <1>4, <2>1, <2>4, PassingKept
  <2> QED
    BY <2>3, <2>4
<1>15. Known'
  BY <1>1 DEF PInv, Known, ThreadsOf, State, Task
<1> QED
  BY <1>9, <1>10, <1>11, <1>12, <1>13, <1>14, <1>15 DEF Placed

LEMMA ExitKeeps ==
  ASSUME PInv, NEW s \in Slots, Exit(s)
  PROVE  (Placed /\ Led /\ Passed /\ Known)'
<1> PICK p : p = procs[s].ph
  OBVIOUS
<1>1. procs[s].pc = "succ" /\ procs[s].todo = {} /\ UNCHANGED <<node, bodies, queue>>
  BY DEF Exit, At
<1>2. Typed /\ p \in Phases /\ State(p) = Done
  BY <1>1, LedMeans DEF Stage
<1>3. procs'[s] = Free /\ \A x \in Slots \ {s} : procs'[x] = procs[x]
  BY <1>2, ExitMoves
<1>4. procs'[s].ph = 0 /\ procs'[s].pc = "free"
  BY <1>3 DEF Free, Process
<1>5. /\ ~Putting(s) /\ ~Putting(s)'
      /\ \A x \in Slots \ {s} : /\ procs'[x].ph = procs[x].ph
                                /\ Putting(x)' <=> Putting(x)
                                /\ NextOf(x)' = NextOf(x)
  BY <1>1, <1>3, <1>4 DEF Putting, NextOf
<1>6. \A i \in DOMAIN queue : queue[i] # 0
  BY <1>2, TypedMeans, GraphType
<1>7. InHopperOnce'
  BY <1>1, <1>4, <1>5, <1>6 DEF PInv, Placed, InHopperOnce
<1>8. PutOnce'
  <2>1. \A x \in Slots : Putting(x) => NextOf(x) # 0
    <3>1. \A x \in Slots : Putting(x) => NextOf(x) \in Phases
      BY <1>2, NextIs DEF Typed, Putting
    <3> QED
      BY <3>1, GraphType
  <2> QED
    BY <1>1, <1>4, <1>5, <2>1 DEF PInv, Placed, PutOnce
<1>9. QueueWaits'
  BY <1>1 DEF PInv, Placed, QueueWaits, Awaits, State
<1>10. Kept'
  <2> SUFFICES ASSUME NEW x \in Phases,
                      State(x) \notin {Dormant, Done} \/ (x = First /\ State(x) = Dormant)
               PROVE  InHopper(x)'
    BY <1>1 DEF Kept, State
  <2>1. InHopper(x) /\ x # p
    BY <1>2 DEF PInv, Placed, Kept, Done, Dormant
  <2> QED
    BY <1>1, <1>5, <2>1 DEF InHopper
<1>11. Led'
  <2>1. Stage(s)' /\ Handover(s)' /\ Pacing(s)'
    BY <1>4 DEF Stage, Handover, Pacing, Ending
  <2>2. ASSUME NEW x \in Slots \ {s} PROVE Stage(x)' /\ Handover(x)' /\ Pacing(x)'
    <3>1. Onward /\ Same(x)
      BY <1>1, <1>3 DEF Onward, State, Begun, Same
    <3> QED
      BY <1>1, <3>1, OthersLed
  <2> QED
    BY <2>1, <2>2 DEF Led
<1>12. Passed'
  <2> SUFFICES ASSUME NEW r \in Phases, NEW x \in Succ[r], State(r) = Done, State(x) = Dormant
               PROVE  \E y \in Slots : Passing(y, r, x)'
    BY <1>1 DEF Passed, State
  <2>1. PICK y \in Slots : Passing(y, r, x)
    BY DEF PInv, Passed
  <2>2. y # s
    BY <1>1, <2>1 DEF Passing
  <2> QED
    BY <1>3, <2>1, <2>2 DEF Passing
<1>13. Known'
  BY <1>1 DEF PInv, Known, ThreadsOf, State, Task
<1> QED
  BY <1>7, <1>8, <1>9, <1>10, <1>11, <1>12, <1>13 DEF Placed

LEMMA GetKeeps ==
  ASSUME PInv, NEW s \in Slots, Get(s)
  PROVE  (Placed /\ Led /\ Passed /\ Known)'
<1> PICK h : h = Head(queue)
  OBVIOUS
<1>1. UNCHANGED <<node, bodies>> /\ queue' = Tail(queue)
  BY DEF Get
<1>2. /\ Typed /\ queue # <<>> /\ h \in Phases /\ procs[s].pc = "free"
      /\ procs'[s] = Process(h, "preds", Pred[h])
      /\ \A x \in Slots \ {s} : procs'[x] = procs[x]
  BY GetMoves DEF PInv
<1>3. /\ procs'[s].ph = h /\ procs'[s].pc = "preds" /\ procs'[s].todo = Pred[h]
      /\ procs'[s].n = 0
  BY <1>2 DEF Process
<1>4. procs[s].ph = 0 /\ h # 0
  BY <1>2, GraphType DEF Typed
<1>5. /\ ~Putting(s) /\ ~Putting(s)'
      /\ \A x \in Slots \ {s} : /\ procs'[x].ph = procs[x].ph
                                /\ Putting(x)' <=> Putting(x)
                                /\ NextOf(x)' = NextOf(x)
  BY <1>2, <1>3 DEF Putting, NextOf
<1>6. /\ 1 \in DOMAIN queue /\ queue[1] = h
      /\ \A i \in DOMAIN queue' : i + 1 \in DOMAIN queue /\ queue'[i] = queue[i + 1] /\ i + 1 # 1
      /\ \A i \in DOMAIN queue \ {1} : i - 1 \in DOMAIN queue' /\ queue'[i - 1] = queue[i]
      /\ DOMAIN queue' \subseteq Nat
  BY <1>1, <1>2, TypedMeans
<1>7. /\ Awaits(h) /\ \A i \in DOMAIN queue' : queue'[i] # h
      /\ \A x \in Slots : procs[x].ph # h /\ (Putting(x) => NextOf(x) # h)
  BY <1>6 DEF PInv, Placed, InHopperOnce, QueueWaits, PutOnce
<1>8. InHopperOnce'
  <2>1. \A i, j \in DOMAIN queue' : queue'[i] = queue'[j] => i = j
    <3> SUFFICES ASSUME NEW i \in DOMAIN queue', NEW j \in DOMAIN queue', queue'[i] = queue'[j]
                 PROVE  i = j
      OBVIOUS
    <3>1. i + 1 = j + 1
      BY <1>6 DEF PInv, Placed, InHopperOnce
    <3> QED
      BY <1>6, <3>1
  <2>2. \A i \in DOMAIN queue', x \in Slots : procs'[x].ph # queue'[i]
    BY <1>3, <1>5, <1>6, <1>7 DEF PInv, Placed, InHopperOnce
  <2> QED
    BY <1>3, <1>5, <1>7, <2>1, <2>2 DEF PInv, Placed, InHopperOnce
<1>9. PutOnce'
  <2>1. \A i \in DOMAIN queue' : \E j \in DOMAIN queue : queue'[i] = queue[j]
    BY <1>6
  <2> HIDE <1>6
  <2> QED
    BY <1>3, <1>5, <1>7, <2>1 DEF PInv, Placed, PutOnce
<1>10. QueueWaits'
  <2>1. \A i \in DOMAIN queue' : Awaits(queue'[i])
    BY <1>6 DEF PInv, Placed, QueueWaits
  <2> QED
    BY <1>1, <2>1 DEF QueueWaits, Awaits, State
<1>11. Kept'
  <2> SUFFICES ASSUME NEW x \in Phases, InHopper(x) PROVE InHopper(x)'
    BY <1>1 DEF PInv, Placed, Kept, State
  <2>1. CASE x = h
    BY <1>3, <2>1 DEF InHopper
  <2>2. CASE x # h
    <3>1. CASE \E i \in DOMAIN queue : queue[i] = x
      BY <1>6, <2>2, <3>1 DEF InHopper
    <3>2. CASE \E y \in Slots : procs[y].ph = x \/ (Putting(y) /\ NextOf(y) = x)
      <4>1. x # 0
        BY GraphType
      <4> QED
        BY <1>4, <1>5, <3>2, <4>1 DEF InHopper
    <3> QED
      BY <3>1, <3>2 DEF InHopper
  <2> QED
    BY <2>1, <2>2
<1>12. Led'
  <2>1. Stage(s)' /\ Handover(s)' /\ Pacing(s)'
    BY <1>1, <1>3, <1>7 DEF Stage, Awaits, State, Handover, Pacing, Ending
  <2>2. ASSUME NEW x \in Slots \ {s} PROVE Stage(x)' /\ Handover(x)' /\ Pacing(x)'
    <3>1. Onward /\ Same(x)
      BY <1>1, <1>2 DEF Onward, State, Begun, Same
    <3> QED
      BY <1>1, <3>1, OthersLed
  <2> QED
    BY <2>1, <2>2 DEF Led
<1>13. Passed'
  <2> SUFFICES ASSUME NEW r \in Phases, NEW x \in Succ[r], State(r) = Done, State(x) = Dormant
               PROVE  \E y \in Slots : Passing(y, r, x)'
    BY <1>1 DEF Passed, State
  <2>1. PICK y \in Slots : Passing(y, r, x)
    BY DEF PInv, Passed
  <2>2. y # s
    BY <1>2, <2>1 DEF Passing
  <2> QED
    BY <1>2, <2>1, <2>2 DEF Passing
<1>14. Known'
  BY <1>1 DEF PInv, Known, ThreadsOf, State, Task
<1> QED
  BY <1>8, <1>9, <1>10, <1>11, <1>12, <1>13, <1>14 DEF Placed

-----------------------------------------------------------------------------
(* Jumps are recorded at any time; one lands when its phase has finished. *)
Landing == \E s \in Slots : Finish(s) /\ node[procs[s].ph].jump # 0

(* A run in which no jump lands: any run, up to the first that does. *)
NoneLands == [][~Landing]_vars

LEMMA InitPlaced == Init => PInv
<1> SUFFICES ASSUME Init PROVE PInv
  OBVIOUS
<1>1. /\ Typed /\ queue = <<First>> /\ First \in Phases
      /\ \A p \in Phases : State(p) = Dormant /\ ~node[p].proc /\ bodies[p] = 0
      /\ \A s \in Slots : procs[s].ph = 0 /\ procs[s].pc = "free"
  BY InitTyped, GraphAssumption DEF Init, State, Free, Process
<1>2. /\ DOMAIN queue = {1} /\ queue[1] = First /\ First # 0
  BY <1>1, GraphType
<1>3. InHopperOnce /\ PutOnce
  BY <1>1, <1>2 DEF InHopperOnce, PutOnce, Putting
<1>4. QueueWaits /\ Kept
  BY <1>1, <1>2 DEF QueueWaits, Awaits, Kept, InHopper
<1>5. Led
  BY <1>1 DEF Led, Stage, Handover, Pacing, Ending
<1>6. Passed
  BY <1>1 DEF Passed, Dormant, Done
<1>7. Known
  BY <1>1 DEF Known, ThreadsOf
<1> QED
  BY <1>1, <1>3, <1>4, <1>5, <1>6, <1>7 DEF PInv, Placed

(* The steps of time, of the objections, and of who ends a phase early or  *)
(* has it jump.                                                            *)
Jumped == (\E j \in Jumps : Jump(j[1], j[2])) \/ \E t \in AllJumps : JumpAll(t)

Outside ==
  \/ Advance \/ AllDropped \/ UNCHANGED vars \/ Jumped
  \/ \E p \in Phases : Drained(p) \/ Raise(p) \/ Drop(p) \/ EndPrematurely(p)

Places ==
  UNCHANGED <<queue, bodies>> /\ \A q \in Phases : /\ node'[q].st = node[q].st
                                                   /\ node'[q].proc = node[q].proc

LEMMA OutsideStays ==
  ASSUME Typed, Outside
  PROVE  Places
<1>1. CASE Advance \/ AllDropped \/ UNCHANGED vars
  BY <1>1 DEF Advance, AllDropped, vars, Places
<1>2. CASE \E p \in Phases : Drained(p) \/ Raise(p) \/ Drop(p)
  BY <1>2 DEF Drained, Raise, Drop, Places
<1>3. CASE \E p \in Phases : EndPrematurely(p)
  BY <1>3, EndPrematurelyDoes DEF EndPrematurely, Places
<1>4. CASE Jumped
  BY <1>4, JumpsTyped DEF Jumped, Places
<1> QED
  BY <1>1, <1>2, <1>3, <1>4 DEF Outside

(* Time that passes moves nobody, it only lets processes run. *)
LEMMA AdvanceKeeps ==
  ASSUME PInv, Advance
  PROVE  (Placed /\ Led /\ Passed /\ Known)'
<1>1. /\ Typed /\ UNCHANGED <<node, bodies, queue>>
      /\ \A x \in Slots : procs'[x] = procs[x] \/ procs'[x] = [procs[x] EXCEPT !.at = "run"]
  BY AdvanceMoves DEF PInv, Advance
<1>2. \A x \in Slots : /\ procs'[x].ph = procs[x].ph /\ procs'[x].pc = procs[x].pc
                       /\ procs'[x].todo = procs[x].todo /\ procs'[x].on = procs[x].on
                       /\ procs'[x].again = procs[x].again /\ procs'[x].n = procs[x].n
  <2> SUFFICES ASSUME NEW x \in Slots
               PROVE  /\ procs'[x].ph = procs[x].ph /\ procs'[x].pc = procs[x].pc
                      /\ procs'[x].todo = procs[x].todo /\ procs'[x].on = procs[x].on
                      /\ procs'[x].again = procs[x].again /\ procs'[x].n = procs[x].n
    OBVIOUS
  <2>1. procs[x] \in ProcessType
    BY <1>1, TypedMeans
  <2> QED
    BY <1>1, <2>1 DEF ProcessType
<1>3. Placed'
  BY <1>1, <1>2, PlacesKept DEF Steady
<1>4. Led'
  <2> SUFFICES ASSUME NEW x \in Slots PROVE Stage(x)' /\ Handover(x)' /\ Pacing(x)'
    BY DEF Led
  <2>1. Stage(x) /\ Handover(x) /\ Pacing(x)
    BY DEF PInv, Led
  <2>2. Stage(x)'
    BY <1>1, <1>2, <2>1 DEF Stage, Awaits, State, Task
  <2>3. Handover(x)'
    BY <1>1, <1>2, <2>1 DEF Handover, State, NextOf
  <2>4. Pacing(x)'
    BY <1>1, <1>2, <2>1 DEF Pacing, Begun, State
  <2> QED
    BY <2>2, <2>3, <2>4
<1>5. Passed'
  BY <1>1, <1>2 DEF PInv, Passed, Passing, State
<1>6. Known'
  BY <1>1 DEF PInv, Known, ThreadsOf, State, Task
<1> QED
  BY <1>3, <1>4, <1>5, <1>6

LEMMA OutsideKeeps ==
  ASSUME PInv, Outside
  PROVE  (Placed /\ Led /\ Passed /\ Known)'
<1>1. Typed /\ Places
  BY OutsideStays DEF PInv
<1>2. CASE Advance
  BY <1>2, AdvanceKeeps
<1>3. CASE ~Advance
  <2>1. \A x \in Slots : Same(x)
    BY <1>1, <1>3, DrainedMoves, JumpsTyped
       DEF Outside, AllDropped, vars, Raise, Drop, EndPrematurely, Jumped, Same
  <2> QED
    BY <1>1, <2>1, RestKept DEF Places
<1> QED
  BY <1>2, <1>3

LEMMA StepIs ==
  ASSUME [Next]_vars
  PROVE  Outside \/ \E s \in Slots : Get(s) \/ ProcessStep(s)
<1>1. Testbench => Outside
  BY HopperAssumption DEF Testbench, Outside, Jumped
<1> QED
  BY <1>1 DEF Next, Outside

LEMMA ProcessStepKeeps ==
  ASSUME PInv, NEW s \in Slots, Get(s) \/ ProcessStep(s), ~Landing
  PROVE  (Placed /\ Led /\ Passed /\ Known)'
BY GetKeeps, VisitKeeps, SyncKeeps, StartKeeps, ExecuteKeeps, WatchKeeps, PassKeeps,
   ReadyKeeps, EndKeeps, EndedAtKeeps, CleanupAtKeeps, FinishKeeps, ScheduleKeeps,
   SuccessorKeeps, PutKeeps, ExitKeeps DEF ProcessStep, Landing

LEMMA NextKeeps ==
  ASSUME PInv, [Next]_vars, [~Landing]_vars
  PROVE  PInv'
<1>1. Typed'
  BY NextTyped DEF PInv
<1>2. (Placed /\ Led /\ Passed /\ Known)'
  <2>1. CASE UNCHANGED vars
    BY <2>1, OutsideKeeps DEF Outside
  <2>2. CASE ~Landing
    BY <2>2, StepIs, OutsideKeeps, ProcessStepKeeps
  <2> QED
    BY <2>1, <2>2
<1> QED
  BY <1>1, <1>2 DEF PInv

LEMMA AlwaysPlaced == Spec /\ NoneLands => []PInv
<1>1. Init => PInv
  BY InitPlaced
<1>2. PInv /\ [Next]_vars /\ [~Landing]_vars => PInv'
  BY NextKeeps
<1> QED
  BY <1>1, <1>2, PTL DEF Spec, NoneLands

(* Until a jump lands, whatever ends early or is asked to jump: a phase is *)
(* in the hopper at most once, queued or in one process; no two processes  *)
(* run its bodies.                                                         *)
THEOREM HopperOnce == Spec /\ NoneLands => []InHopperOnce
<1>1. PInv => InHopperOnce
  BY DEF PInv, Placed
<1> QED
  BY <1>1, AlwaysPlaced, PTL

(* Until a jump lands, threads of a phase live only while it executes or   *)
(* ends, and the phase can kill them.                                      *)
THEOREM BodiesKnown == Spec /\ NoneLands => []BodiesBelong
<1>1. PInv => BodiesBelong
  BY DEF PInv, Known, ThreadsOf, BodiesBelong
<1> QED
  BY <1>1, AlwaysPlaced, PTL

(* A step of a process moves no other, except that it wakes some. *)
LEMMA OthersSame ==
  ASSUME PInv, NEW s \in Slots, Get(s) \/ ProcessStep(s), NEW x \in Slots \ {s}
  PROVE  Same(x)
<1>1. Typed
  BY DEF PInv
<1>2. CASE Get(s) \/ Exit(s)
  BY <1>1, <1>2, GetMoves, ExitMoves DEF Same
<1>3. CASE Visit(s) \/ Sync(s) \/ Start(s) \/ Execute(s)
  BY <1>1, <1>3, VisitMoves, SyncMoves, StartMoves, ExecuteMoves DEF Becomes
<1>4. CASE Watch(s) \/ Pass(s) \/ Ready(s) \/ EndEarly(s)
  BY <1>1, <1>4, WatchMoves, PassMoves, ReadyMoves, EndEarlyMoves
     DEF Becomes, PassEnds, PassStops
<1>5. CASE End(s) \/ PeersEnd(s) \/ EndedAt(s) \/ CleanupAt(s) \/ Finish(s)
  BY <1>1, <1>5, EndMoves, PeersEndMoves, EndedAtMoves, CleanupAtMoves, FinishMoves DEF Becomes
<1>6. CASE Schedule(s)
  <2>1. procs[s].on = 0
    BY <1>6, LedMeans DEF Schedule, At, Handover
  <2> QED
    BY <1>1, <1>6, <2>1, ScheduleMoves DEF Becomes
<1>7. CASE Successor(s) \/ Put(s)
  BY <1>1, <1>7, SuccessorMoves, PutMoves DEF Becomes
<1> QED
  BY <1>2, <1>3, <1>4, <1>5, <1>6, <1>7 DEF ProcessStep

LEMMA PassUnopposed ==
  ASSUME PInv, [Next]_vars, NEW s \in Slots,
         procs[s].pc = "sibs", procs'[s].pc = "end", ~node[procs[s].ph].early
  PROVE  \A q \in Siblings(procs[s].ph) : objn[q].raised = 0
<1>1. CASE Outside
  <2>1. CASE Advance
    <3>1. procs'[s] = procs[s] \/ procs'[s] = [procs[s] EXCEPT !.at = "run"]
      BY <2>1, AdvanceMoves DEF PInv
    <3>2. procs[s] \in ProcessType
      BY TypedMeans DEF PInv
    <3>3. procs'[s].pc = procs[s].pc
      BY <3>1, <3>2 DEF ProcessType
    <3> QED
      BY <3>3
  <2>2. CASE ~Advance
    <3>1. Same(s)
      BY <1>1, <2>2, DrainedMoves, JumpsTyped
         DEF PInv, Outside, AllDropped, vars, Raise, Drop, EndPrematurely, Jumped, Same
    <3> QED
      BY <3>1 DEF Same, Woke
  <2> QED
    BY <2>1, <2>2
<1>2. ASSUME NEW x \in Slots, Get(x) \/ ProcessStep(x)
      PROVE  \A q \in Siblings(procs[s].ph) : objn[q].raised = 0
  <2>1. CASE x # s
    <3>1. Same(s)
      BY <1>2, <2>1, OthersSame
    <3> QED
      BY <3>1 DEF Same, Woke
  <2>2. CASE x = s
    <3>1. ~EndEarly(s)
      BY DEF EndEarly
    <3>2. ~Get(s)
      BY GetMoves DEF PInv
    <3>3. Pass(s)
      BY <1>2, <2>2, <3>1, <3>2
         DEF ProcessStep, At, Visit, Sync, Start, Execute, Watch, Ready, End, PeersEnd,
             EndedAt, CleanupAt, Finish, Schedule, Successor, Put, Exit
    <3> QED
      BY <3>3, PassKeeps
  <2> QED
    BY <2>1, <2>2
<1> QED
  BY <1>1, <1>2, StepIs

(* Until a jump lands, a phase that is not cut short ends when neither it  *)
(* nor any phase that ends with it objects, however often a sibling raised *)
(* and dropped its objections while others were waited for.                *)
THEOREM PhasesEndUnopposed == Spec /\ NoneLands => EndsUnopposed
<1> DEFINE A == \A s \in Slots :
                  /\ procs[s].pc = "sibs" /\ procs'[s].pc = "end"
                  /\ ~node[procs[s].ph].early
                  => LET p == procs[s].ph IN
                     \A q \in Peers[p] \cup SyncWith[p] \cup {p} : objn[q].raised = 0
<1>1. PInv /\ [Next]_vars => A
  <2> SUFFICES ASSUME PInv, [Next]_vars PROVE A
    OBVIOUS
  <2> QED
    BY PassUnopposed DEF Siblings
<1>2. PInv /\ [Next]_vars => [A]_vars
  BY <1>1
<1>3. EndsUnopposed <=> [][A]_vars
  BY DEF EndsUnopposed
<1> HIDE DEF A
<1>4. Spec /\ NoneLands => [][A]_vars
  BY <1>2, AlwaysPlaced, PTL DEF Spec
<1> QED
  BY <1>3, <1>4

-----------------------------------------------------------------------------
(* The hopper implements PhaseOrder. *)

LEMMA StatusIs ==
  ASSUME Typed, NEW p \in Phases
  PROVE  /\ Status(p) = "waiting" <=> State(p) \in {Dormant, Scheduled}
         /\ Status(p) = "done" <=> State(p) = Done
         /\ Status(p) = "running" <=> State(p) \notin {Dormant, Scheduled, Done}
         /\ Status(p) \in {"waiting", "running", "done"}
BY StatesAre DEF Status, Dormant, Scheduled, Syncing, Started, Executing, ReadyToEnd,
                 Ended, Cleanup, Done, Jumping

(* What the order sees of a step: one phase changes its status, or none. *)
StatusOf == [p \in Phases |-> Status(p)]

Stays == StatusOf' = StatusOf /\ over' = over

LEMMA StaysMaps ==
  ASSUME Stays
  PROVE  UNCHANGED Order!vars
BY DEF Stays, StatusOf, Order!vars

LEMMA NoneChanges ==
  ASSUME Typed, Typed', over' = over,
         \A q \in Phases : State(q)' = State(q)
                           \/ (State(q) \notin {Dormant, Scheduled, Done}
                               /\ State(q)' \notin {Dormant, Scheduled, Done})
                           \/ (State(q) = Dormant /\ State(q)' = Scheduled)
  PROVE  Stays
<1>1. ASSUME NEW q \in Phases PROVE Status(q)' = Status(q)
  <2>1. /\ Status(q) = "waiting" <=> State(q) \in {Dormant, Scheduled}
        /\ Status(q) = "done" <=> State(q) = Done
        /\ Status(q) = "running" <=> State(q) \notin {Dormant, Scheduled, Done}
        /\ Status(q) \in {"waiting", "running", "done"}
    BY StatusIs
  <2>2. /\ Status(q)' = "waiting" <=> State(q)' \in {Dormant, Scheduled}
        /\ Status(q)' = "done" <=> State(q)' = Done
        /\ Status(q)' = "running" <=> State(q)' \notin {Dormant, Scheduled, Done}
        /\ Status(q)' \in {"waiting", "running", "done"}
    <3>1. node'[q].st \in {Dormant, Scheduled, Syncing, Started, Executing, ReadyToEnd,
                           Ended, Cleanup, Done, Jumping}
      BY DEF Typed, TypeOK
    <3> QED
      BY <3>1 DEF Status, State, Dormant, Scheduled, Syncing, Started, Executing, ReadyToEnd,
                  Ended, Cleanup, Done, Jumping
  <2> QED
    BY <2>1, <2>2
<1> QED
  BY <1>1 DEF Stays, StatusOf

(* A step of a process that gives only the phase it leads another state. *)
LEMMA OneChanges ==
  ASSUME Typed, Typed', NEW p \in Phases, over' = over,
         \A q \in Phases \ {p} : node'[q] = node[q]
  PROVE  StatusOf' = [StatusOf EXCEPT ![p] = StatusOf'[p]]
BY DEF StatusOf, Status, State

LEMMA SyncBegins ==
  ASSUME PInv, Typed', NEW s \in Slots, Sync(s)
  PROVE  \E p \in Phases : Order!Begin(p)
<1> PICK p : p = procs[s].ph
  OBVIOUS
<1>1. procs[s].pc = "preds" /\ node' = [node EXCEPT ![p].st = Syncing] /\ over' = over
  BY DEF Sync, At
<1>2. Typed /\ p \in Phases /\ Awaits(p) /\ \A q \in Pred[p] : State(q) = Done
  BY <1>1, LedMeans, SyncKeeps DEF Stage
<1>3. node'[p].st = Syncing /\ \A q \in Phases \ {p} : node'[q] = node[q]
  BY <1>1, <1>2, StateSet DEF State
<1>4. StatusOf' = [StatusOf EXCEPT ![p] = StatusOf'[p]]
  BY <1>1, <1>2, <1>3, OneChanges
<1>5. StatusOf'[p] = "running"
  BY <1>2, <1>3 DEF StatusOf, Status, State, Syncing, Scheduled, Done
<1>6. StatusOf[p] = "waiting"
  BY <1>2, StatusIs DEF StatusOf, Awaits
<1>7. \A q \in Pred[p] : StatusOf[q] = "done"
  BY <1>2, GraphType, StatusIs DEF StatusOf
<1>8. Order!Pred = Pred
  BY DEF Order!Pred, Pred
<1>9. \A q \in Order!Pred[p] : StatusOf[q] = "done"
  BY <1>7, <1>8
<1>10. StatusOf' = [StatusOf EXCEPT ![p] = "running"]
  BY <1>4, <1>5
<1>11. Order!Begin(p)
  BY <1>1, <1>6, <1>9, <1>10 DEF Order!Begin, StatusOf
<1> QED
  BY <1>2, <1>11

LEMMA FinishFinishes ==
  ASSUME PInv, Typed', NEW s \in Slots, Finish(s), node[procs[s].ph].jump = 0
  PROVE  \E p \in Phases : Order!Finish(p)
<1> PICK p : p = procs[s].ph
  OBVIOUS
<1>1. procs[s].pc = "finish" /\ over' = over
  BY DEF Finish, At
<1>2. /\ Typed /\ p \in Phases /\ node[p].jump = 0 /\ node[p] \in NodeType
      /\ State(p) \in {Cleanup, Jumping, Executing, ReadyToEnd}
  BY <1>1, LedMeans, TypedMeans DEF Stage, ThreadsOf
<1>3. node'[p].st = Done /\ \A q \in Phases \ {p} : node'[q] = node[q]
  <2> DEFINE r == Reset(Done, node[p])
  <2>1. node' = [node EXCEPT ![p] = r]
    BY <1>2 DEF Finish
  <2>2. r \in NodeType /\ r.st = Done
    BY <1>2 DEF Reset, NodeType
  <2> HIDE DEF r
  <2> QED
    BY <1>2, <2>1, <2>2, PhaseSet
<1>4. StatusOf' = [StatusOf EXCEPT ![p] = StatusOf'[p]]
  BY <1>1, <1>2, <1>3, OneChanges
<1>5. StatusOf'[p] = "done"
  BY <1>2, <1>3 DEF StatusOf, Status, State, Scheduled, Done
<1>6. StatusOf[p] = "running"
  BY <1>2, StatusIs
     DEF StatusOf, Cleanup, Jumping, Executing, ReadyToEnd, Dormant, Scheduled, Done
<1>7. Order!Finish(p)
  BY <1>1, <1>4, <1>5, <1>6 DEF Order!Finish, StatusOf
<1> QED
  BY <1>2, <1>7

(* The states between the beginning and the end of a phase. *)
LEMMA RunningStays ==
  ASSUME PInv, Typed', NEW s \in Slots, over' = over, NEW p \in Phases,
         p = procs[s].ph, procs[s].pc \in {"sync", "execute", "cleanup"} \cup Ending,
         node'[p].st \notin {Dormant, Scheduled, Done},
         \A q \in Phases \ {p} : node'[q] = node[q]
  PROVE  Stays
<1>1. Typed /\ Stage(s)
  BY DEF PInv, Led
<1>2. State(p) \notin {Dormant, Scheduled, Done}
  BY <1>1 DEF Stage, Syncing, Started, Executing, ReadyToEnd, Ended, Dormant, Scheduled, Done
<1> QED
  BY <1>1, <1>2, NoneChanges DEF State

LEMMA ProcessStepMaps ==
  ASSUME PInv, Typed', NEW s \in Slots, Get(s) \/ ProcessStep(s), ~Landing
  PROVE  Stays \/ \E p \in Phases : Order!Begin(p) \/ Order!Finish(p)
<1> PICK p : p = procs[s].ph
  OBVIOUS
<1>0. Typed
  BY DEF PInv
<1>1. CASE Sync(s)
  BY <1>1, SyncBegins
<1>2. CASE Finish(s)
  BY <1>2, FinishFinishes DEF Landing
<1>3. CASE \/ Get(s) \/ Visit(s) \/ Watch(s) \/ EndEarly(s) \/ End(s) \/ PeersEnd(s)
           \/ Schedule(s) \/ Put(s) \/ Exit(s)
  <2>1. node' = node /\ over' = over
    BY <1>3 DEF Get, Visit, Watch, EndEarly, End, PeersEnd, Schedule, Put, Exit
  <2> QED
    BY <1>0, <2>1, NoneChanges DEF State
<1>4. CASE Start(s) \/ Ready(s) \/ EndedAt(s) \/ Execute(s) \/ CleanupAt(s)
  <2>1. /\ over' = over /\ procs[s].pc \in {"sync", "execute", "cleanup"} \cup Ending
        /\ procs[s].pc # "free"
    BY <1>4 DEF Start, Ready, EndedAt, Execute, CleanupAt, At, Ending
  <2>2. p \in Phases
    BY <2>1, LedMeans
  <2>3. /\ node'[p].st \in {Started, ReadyToEnd, Ended, Executing, Cleanup, Jumping}
        /\ \A q \in Phases \ {p} : node'[q] = node[q]
    <3>1. CASE Start(s) \/ Ready(s) \/ EndedAt(s)
      <4>1. \E st \in {Started, ReadyToEnd, Ended} : node' = [node EXCEPT ![p].st = st]
        BY <3>1 DEF Start, Ready, EndedAt
      <4> QED
        BY <1>0, <2>2, <4>1, StateSet DEF State
    <3>2. CASE Execute(s)
      BY <1>0, <3>2, ExecuteDoes
    <3>3. CASE CleanupAt(s)
      BY <1>0, <3>3, CleanupAtDoes
    <3> QED
      BY <1>4, <3>1, <3>2, <3>3
  <2>4. node'[p].st \notin {Dormant, Scheduled, Done}
    BY <2>3 DEF Started, Executing, ReadyToEnd, Ended, Cleanup, Jumping, Dormant, Scheduled, Done
  <2> QED
    BY <2>1, <2>2, <2>3, <2>4, RunningStays
<1>5. CASE Pass(s)
  <2>1. over' = over /\ procs[s].pc \in Ending /\ p \in Phases
        /\ (node' = node \/ node' = [node EXCEPT ![p].st = Executing])
    BY <1>0, <1>5, PassMoves DEF Pass, PassEnds, PassStops, Ending
  <2>2. CASE node' = node
    BY <1>0, <2>1, <2>2, NoneChanges DEF State
  <2>3. CASE node' = [node EXCEPT ![p].st = Executing]
    <3>1. node'[p].st = Executing /\ \A q \in Phases \ {p} : node'[q] = node[q]
      BY <1>0, <2>1, <2>3, StateSet DEF State
    <3>2. node'[p].st \notin {Dormant, Scheduled, Done}
      BY <3>1 DEF Executing, Dormant, Scheduled, Done
    <3> QED
      BY <2>1, <3>1, <3>2, RunningStays
  <2> QED
    BY <2>1, <2>2, <2>3
<1>6. CASE Successor(s)
  <2>1. over' = over
    BY <1>6 DEF Successor
  <2>2. CASE node' = node
    BY <1>0, <2>1, <2>2, NoneChanges DEF State
  <2>3. ASSUME NEW q \in Phases, State(q) = Dormant, node' = [node EXCEPT ![q].st = Scheduled]
        PROVE  Stays
    <3>1. node'[q].st = Scheduled /\ \A x \in Phases \ {q} : node'[x] = node[x]
      BY <1>0, <2>3, StateSet DEF State
    <3> QED
      BY <1>0, <2>1, <2>3, <3>1, NoneChanges DEF State
  <2> QED
    BY <1>6, <2>2, <2>3, SuccessorKeeps
<1> QED
  BY <1>1, <1>2, <1>3, <1>4, <1>5, <1>6 DEF ProcessStep

(* When nothing is left in the hopper, everything behind the first phase   *)
(* is done, and that is all there is.                                      *)
LEMMA AllDone ==
  ASSUME PInv, queue = <<>>, \A s \in Slots : procs[s] = Free
  PROVE  \A p \in Phases : State(p) = Done
<1>1. \A s \in Slots : procs[s].ph = 0 /\ procs[s].pc = "free"
  BY DEF Free, Process
<1>2. \A p \in Phases : ~InHopper(p)
  BY <1>1, GraphType DEF InHopper, Putting
<1>3. \A p \in Phases : State(p) \in {Dormant, Done} /\ ~(p = First /\ State(p) = Dormant)
  BY <1>2 DEF PInv, Placed, Kept
<1> DEFINE D == {p \in Phases : State(p) = Done}
<1>4. First \in D /\ D \in SUBSET Phases
  BY <1>3, GraphAssumption
<1>5. \A x \in D \ {0} : Succ[x] \subseteq D
  <2> SUFFICES ASSUME NEW x \in D, NEW q \in Succ[x] PROVE State(q) = Done
    BY GraphType
  <2>1. x \in Phases /\ q \in Phases /\ State(x) = Done
    BY GraphType
  <2>2. State(q) # Dormant
    BY <1>1, <2>1 DEF PInv, Passed, Passing
  <2> QED
    BY <1>3, <2>1, <2>2
<1>6. Phases = Reach[First][0]
  BY RootAssumption, GraphAssumption DEF Downstream
<1>7. Reach[First][0] = {q \in Phases : \A S \in SUBSET Phases :
                           First \in S /\ (\A x \in S \ {0} : Succ[x] \subseteq S) => q \in S}
  BY GraphAssumption DEF Reach
<1> HIDE DEF D
<1>8. \A q \in Phases : q \in D
  BY <1>4, <1>5, <1>6, <1>7
<1> QED
  BY <1>8 DEF D

LEMMA InitMaps == Init => Order!Init
<1> SUFFICES ASSUME Init PROVE Order!Init
  OBVIOUS
<1>1. \A p \in Phases : Status(p) = "waiting"
  BY DEF Init, Status, State, Dormant, Scheduled
<1> QED
  BY <1>1 DEF Init, Order!Init

LEMMA NextMaps ==
  ASSUME PInv, [Next]_vars, [~Landing]_vars
  PROVE  [Order!Next]_(Order!vars)
<1>1. Typed /\ Typed'
  BY NextTyped DEF PInv
<1>2. CASE AllDropped
  <2>1. \A p \in Phases : State(p) = Done
    BY <1>2, AllDone DEF AllDropped
  <2>2. StatusOf' = StatusOf /\ over' = TRUE
    BY <1>2 DEF AllDropped, StatusOf, Status, State
  <2>3. \A p \in Phases : Status(p) = "done"
    BY <1>1, <2>1, StatusIs
  <2>4. Order!Stop
    BY <2>2, <2>3 DEF Order!Stop, StatusOf
  <2> QED
    BY <2>4 DEF Order!Next
<1>3. CASE Outside /\ ~AllDropped
  <2>1. over' = over /\ \A q \in Phases : State(q)' = State(q)
    BY <1>1, <1>3, OutsideStays, JumpsTyped
       DEF Outside, Advance, vars, Drained, Raise, Drop, EndPrematurely, Jumped, Places, State
  <2>2. Stays
    BY <1>1, <2>1, NoneChanges
  <2> QED
    BY <2>2, StaysMaps
<1>4. ASSUME NEW s \in Slots, Get(s) \/ ProcessStep(s), ~Landing
      PROVE  [Order!Next]_(Order!vars)
  <2>1. CASE Stays
    BY <2>1, StaysMaps
  <2>2. CASE \E p \in Phases : Order!Begin(p) \/ Order!Finish(p)
    BY <2>2 DEF Order!Next
  <2> QED
    BY <1>1, <1>4, <2>1, <2>2, ProcessStepMaps
<1>5. UNCHANGED vars => Outside
  BY DEF Outside
<1> QED
  BY <1>2, <1>3, <1>4, <1>5, StepIs

(* Until a jump lands, the hopper keeps the order of the graph: a phase    *)
(* begins when all its predecessors are done, is done once, and the run is *)
(* over when every phase is done, not before.                              *)
THEOREM HopperKeepsOrder == Spec /\ NoneLands => OrderSpec
<1>1. Init => Order!Init
  BY InitMaps
<1>2. PInv /\ [Next]_vars /\ [~Landing]_vars => [Order!Next]_(Order!vars)
  BY NextMaps
<1> QED
  BY <1>1, <1>2, AlwaysPlaced, PTL DEF Spec, NoneLands, OrderSpec, Order!Spec
=============================================================================
