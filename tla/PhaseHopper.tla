----------------------------- MODULE PhaseHopper -----------------------------
(***************************************************************************)
(* uvm_phase_hopper: run_phases takes phases out of a queue and gives each *)
(* a process of its own (a slot), which leads the phase through its states *)
(* and queues the successors.                                              *)
(*                                                                         *)
(* Processes interleave, and the code depends on regions of a time step:   *)
(* "#0" lets everything that can run go first, uvm_wait_for_nba_region     *)
(* also everything behind a "#0" (Advance).  Components and tests raise    *)
(* and drop the objections of task phases, end phases prematurely and      *)
(* jump; of an objection the hopper sees the total of the top, whether the *)
(* top drains, and the events of the top.                                  *)
(***************************************************************************)
EXTENDS PhaseGraph, Sequences, FiniteSetsExt

CONSTANTS
  Slots,     \* processes of run_phases
  Jumps,     \* pairs of a phase and the phase it jumps to
  AllJumps,  \* phases that uvm_domain::jump_all() is called with
  Enders,    \* phases that end_prematurely() is called for
  MaxReady,  \* get_max_ready_to_end_iterations()
  MaxRaise,  \* a bound of the model: the total of one objection
  MaxCalls   \* a bound of the model: jumps and early ends

ASSUME HopperAssumption ==
  /\ Slots \subseteq Nat \ {0} /\ IsFiniteSet(Slots)
  /\ Jumps \subseteq Phases \X Phases /\ AllJumps \subseteq Phases /\ Enders \subseteq Phases
  /\ MaxReady \in Nat \ {0} /\ MaxRaise \in Nat /\ MaxCalls \in Nat

VARIABLES
  node,   \* of a phase: st: m_state, jump: m_jump_phase or 0, fwd: m_jump_fwd,
          \* early: m_premature_end, proc: m_phase_proc is set
  bodies, \* of a phase: threads of its components that are alive
  objn,   \* of a phase: raised: total of the top, drain: the top drains,
          \* all: m_top_all_dropped
  queue,  \* m_queue
  procs,  \* of a slot: the phase it processes, and where
  over,   \* run_phases has returned
  calls   \* jumps and early ends so far

vars == <<node, bodies, objn, queue, procs, over, calls>>

Dormant == 1
Scheduled == 2
Syncing == 4
Started == 8
Executing == 16
ReadyToEnd == 32
Ended == 64
Cleanup == 128
Done == 256
Jumping == 512

Silent == [raised |-> 0, drain |-> FALSE, all |-> FALSE]

(* A process: the phase, the next thing it does, the region that is after, *)
(* what its loop has yet to visit, and the locals of execute_phase.        *)
Process(p, pc, todo) ==
  [ph |-> p, pc |-> pc, at |-> "run", todo |-> todo, on |-> 0, again |-> FALSE, n |-> 0]
Free == Process(0, "free", {})

Init ==
  /\ node = [p \in Phases |->
               [st |-> Dormant, jump |-> 0, fwd |-> FALSE, early |-> FALSE, proc |-> FALSE]]
  /\ bodies = [p \in Phases |-> 0]
  /\ objn = [p \in Phases |-> Silent]
  /\ queue = <<First>>
  /\ procs = [s \in Slots |-> Free]
  /\ over = FALSE
  /\ calls = 0

Task(p) == Kind[p] = "task"
State(p) == node[p].st

-----------------------------------------------------------------------------
(* Regions. *)

At(s, pc) == ~over /\ procs[s].pc = pc /\ procs[s].at = "run"

(* The next phase of a foreach loop. *)
NextOf(s) == Min(procs[s].todo)

(* What a loop that visits phases waits for at each, wait_for_state(). *)
Reached(pc, p) ==
  CASE pc = "preds" -> State(p) = Done
    [] pc = "sync" -> State(p) >= Syncing
    [] pc = "sibs" -> State(p) >= Executing
    [] pc = "peers" -> State(p) >= ReadyToEnd
    [] OTHER -> TRUE

Interruptible(s) ==
  \/ At(s, "watch")
  \/ ~over /\ procs[s].pc \in {"await", "sibs", "sibwait", "ready"}

Runnable(s) ==
  \/ /\ procs[s].at = "run" /\ procs[s].pc \notin {"free", "await", "sibwait"}
     /\ procs[s].todo = {} \/ Reached(procs[s].pc, NextOf(s))
  \/ Interruptible(s) /\ node[procs[s].ph].early

Quiet == queue = <<>> /\ \A s \in Slots : ~Runnable(s)

Waiting(region) == {s \in Slots : procs[s].at = region}

(* Nothing can run: what is behind a #0 goes on, or else what waits for    *)
(* the NBA region.                                                         *)
Advance ==
  /\ ~over /\ Quiet
  /\ \E region \in {"zero", "nba"} :
       /\ Waiting(region) # {}
       /\ region = "nba" => Waiting("zero") = {}
       /\ procs' = [s \in Slots |-> IF s \in Waiting(region)
                                    THEN [procs[s] EXCEPT !.at = "run"] ELSE procs[s]]
  /\ UNCHANGED <<node, bodies, objn, queue, over, calls>>

(* The phase looks at its own objection only. *)
SiblingsSelf(p) == {p}

Siblings(p) == Peers[p] \cup SyncWith[p] \cup {p}

(* The event all_dropped of the top wakes whoever waits for it. *)
Woken(pr, S) ==
  [s \in Slots |->
     IF pr[s].pc = "await" /\ pr[s].on \in S
       THEN [pr[s] EXCEPT !.pc = "sibs", !.on = 0, !.todo = Siblings(pr[s].on)]
     ELSE IF pr[s].pc = "sibwait" /\ pr[s].on \in S
       THEN [pr[s] EXCEPT !.pc = "sibs", !.on = 0, !.todo = @ \ {pr[s].on}]
     ELSE pr[s]]

Goto(s, pc, at) == [procs EXCEPT ![s].pc = pc, ![s].at = at]
Loop(s, pc, at, todo) == [procs EXCEPT ![s].pc = pc, ![s].at = at, ![s].todo = todo]

-----------------------------------------------------------------------------
(* run_phases and sync_phase. *)

Get(s) ==
  /\ ~over /\ queue # <<>>
  /\ procs[s] = Free /\ \A x \in Slots : x < s => procs[x] # Free
  /\ queue' = Tail(queue)
  /\ procs' = [procs EXCEPT ![s] = Process(Head(queue), "preds", Pred[Head(queue)])]
  /\ UNCHANGED <<node, bodies, objn, over, calls>>

(* One turn of a loop that only waits. *)
Visit(s) ==
  /\ \E pc \in {"preds", "sync", "peers"} : At(s, pc)
  /\ procs[s].todo # {}
  /\ Reached(procs[s].pc, NextOf(s))
  /\ procs' = [procs EXCEPT ![s].todo = @ \ {NextOf(s)}]
  /\ UNCHANGED <<node, bodies, objn, queue, over, calls>>

(* Predecessors are not waited for. *)
SyncEarly(s) ==
  /\ At(s, "preds")
  /\ node' = [node EXCEPT ![procs[s].ph].st = Syncing]
  /\ procs' = Loop(s, "sync", "zero", SyncWith[procs[s].ph])
  /\ UNCHANGED <<bodies, objn, queue, over, calls>>

Sync(s) ==
  /\ At(s, "preds") /\ procs[s].todo = {}
  /\ node' = [node EXCEPT ![procs[s].ph].st = Syncing]
  /\ procs' = Loop(s, "sync", "zero", SyncWith[procs[s].ph])
  /\ UNCHANGED <<bodies, objn, queue, over, calls>>

Start(s) ==
  /\ At(s, "sync") /\ procs[s].todo = {}
  /\ node' = [node EXCEPT ![procs[s].ph].st = Started]
  /\ procs' = Goto(s, "execute", "zero")
  /\ UNCHANGED <<bodies, objn, queue, over, calls>>

-----------------------------------------------------------------------------
(* execute_phase. *)

(* Threads of a task phase are forked; a function phase calls its bodies   *)
(* after another #0.                                                       *)
Execute(s) ==
  LET p == procs[s].ph IN
  /\ At(s, "execute")
  /\ node' = [node EXCEPT ![p].st = Executing, ![p].proc = Task(p)]
  /\ bodies' = IF Task(p) THEN [bodies EXCEPT ![p] = @ + 1] ELSE bodies
  /\ procs' = IF Task(p) THEN Goto(s, "watch", "nba") ELSE Goto(s, "end", "zero")
  /\ UNCHANGED <<objn, queue, over, calls>>

(* Objections that were raised are waited for. *)
Watch(s) ==
  LET p == procs[s].ph IN
  /\ At(s, "watch")
  /\ procs' = IF objn[p].raised > 0 /\ ~objn[p].all
              THEN [Loop(s, "await", "run", {}) EXCEPT ![s].on = p]
              ELSE Loop(s, "sibs", "run", Siblings(p))
  /\ UNCHANGED <<node, bodies, objn, queue, over, calls>>

(* wait_for_self_and_siblings_to_drop runs until a sibling does not execute *)
(* yet or objects.  A pass that had to wait for a drop is repeated; so is   *)
(* READY_TO_END if an objection was raised meanwhile.                       *)
Stops(S) == {q \in S : State(q) < Executing \/ objn[q].raised # 0}

AfterPass(s) ==
  IF procs[s].n = 0 \/ (State(procs[s].ph) = Executing /\ procs[s].n < MaxReady)
  THEN Loop(s, "ready", "nba", {})
  ELSE Loop(s, "end", "run", {})

Pass(s) ==
  LET p == procs[s].ph
      left == procs[s].todo
      repeat == procs[s].again /\ Stops(left) = {}
      round == IF repeat THEN Siblings(p) ELSE left
      q == Min(Stops(round))
      rest == {x \in round : x >= q} IN
  /\ At(s, "sibs")
  /\ left # {} => Reached("sibs", NextOf(s))
  /\ \/ /\ Stops(round) = {}
        /\ procs' = [AfterPass(s) EXCEPT ![s].again = FALSE]
        /\ UNCHANGED node
     \/ /\ Stops(round) # {} /\ State(q) < Executing
        /\ procs' = [Loop(s, "sibs", "run", rest) EXCEPT ![s].again = @ /\ ~repeat]
        /\ UNCHANGED node
     \/ /\ Stops(round) # {} /\ State(q) >= Executing
        /\ procs' = [Loop(s, "sibwait", "run", rest) EXCEPT ![s].on = q, ![s].again = TRUE]
        /\ node' = [node EXCEPT ![p].st = Executing]
  /\ UNCHANGED <<bodies, objn, queue, over, calls>>

Ready(s) ==
  /\ At(s, "ready")
  /\ node' = [node EXCEPT ![procs[s].ph].st = ReadyToEnd]
  /\ procs' = [Loop(s, "sibs", "nba", Siblings(procs[s].ph)) EXCEPT ![s].n = @ + 1]
  /\ UNCHANGED <<bodies, objn, queue, over, calls>>

(* m_premature_end cuts the wait for objections short, wherever it is. *)
EndEarly(s) ==
  /\ Interruptible(s)
  /\ node[procs[s].ph].early
  /\ procs' = [procs EXCEPT ![s] = Process(procs[s].ph, "end", {})]
  /\ UNCHANGED <<node, bodies, objn, queue, over, calls>>

-----------------------------------------------------------------------------
(* end_phase, cleanup_phase and finish_phase. *)

(* A function phase waits for its peers, a phase that is cut short for a   *)
(* #0; a terminal has no end of its own.                                   *)
End(s) ==
  LET p == procs[s].ph IN
  /\ At(s, "end")
  /\ procs' = IF Kind[p] = "terminal" THEN Loop(s, "finish", "run", {})
              ELSE IF node[p].early THEN Loop(s, "ended", "zero", {})
              ELSE IF Task(p) THEN Loop(s, "ended", "run", {})
              ELSE Loop(s, "peers", "run", Peers[p])
  /\ UNCHANGED <<node, bodies, objn, queue, over, calls>>

PeersEnd(s) ==
  /\ At(s, "peers") /\ procs[s].todo = {}
  /\ procs' = Goto(s, "ended", "zero")
  /\ UNCHANGED <<node, bodies, objn, queue, over, calls>>

EndedAt(s) ==
  /\ At(s, "ended")
  /\ node' = [node EXCEPT ![procs[s].ph].st = Ended]
  /\ procs' = Goto(s, "cleanup", "zero")
  /\ UNCHANGED <<bodies, objn, queue, over, calls>>

(* The threads are forgotten, not killed. *)
CleanupKeeps(s) ==
  LET p == procs[s].ph IN
  /\ At(s, "cleanup")
  /\ node' = [node EXCEPT ![p].st = IF node[p].early THEN Jumping ELSE Cleanup,
                          ![p].proc = FALSE]
  /\ procs' = Goto(s, "finish", "zero")
  /\ UNCHANGED <<bodies, objn, queue, over, calls>>

CleanupAt(s) ==
  LET p == procs[s].ph IN
  /\ At(s, "cleanup")
  /\ node' = [node EXCEPT ![p].st = IF node[p].early THEN Jumping ELSE Cleanup,
                          ![p].proc = FALSE]
  /\ bodies' = IF node[p].proc THEN [bodies EXCEPT ![p] = @ - 1] ELSE bodies
  /\ procs' = Goto(s, "finish", "zero")
  /\ UNCHANGED <<objn, queue, over, calls>>

(* clear_successors gives a phase a state and forgets its threads, jumps   *)
(* excepted.                                                               *)
Reset(st, r) == [r EXCEPT !.st = st, !.proc = FALSE]

(* What a jump skips is not done. *)
LandedSkipped(p, t) ==
  [q \in Phases |->
     LET r == IF q \in Downstream[t] \cup Reach[p][t] THEN Reset(Dormant, node[q])
              ELSE node[q]
     IN  IF q = p THEN [r EXCEPT !.jump = 0, !.fwd = FALSE, !.early = FALSE] ELSE r]

(* Without a jump the phase is done.  With one, everything behind the      *)
(* target starts over, and a jump forward counts what lies between as done.*)
Landed(p, t) ==
  [q \in Phases |->
     LET r == IF q \in Downstream[t] THEN Reset(Dormant, node[q])
              ELSE IF node[p].fwd /\ q \in Reach[p][t] THEN Reset(Done, node[q])
              ELSE node[q]
     IN  IF q = p THEN [r EXCEPT !.jump = 0, !.fwd = FALSE, !.early = FALSE] ELSE r]

Cleared(p, t) ==
  {p} \cup IF t = 0 THEN {}
           ELSE Downstream[t] \cup IF node[p].fwd THEN Reach[p][t] \ {t} ELSE {}

Finish(s) ==
  LET p == procs[s].ph
      t == node[p].jump IN
  /\ At(s, "finish")
  /\ node' = IF t = 0 THEN [node EXCEPT ![p] = Reset(Done, @)] ELSE Landed(p, t)
  /\ objn' = [q \in Phases |-> IF q \in Cleared(p, t) THEN Silent ELSE objn[q]]
  /\ procs' = [Woken(procs, Cleared(p, t)) EXCEPT
                 ![s].pc = "schedule", ![s].at = "zero", ![s].on = t]
  /\ UNCHANGED <<bodies, queue, over, calls>>

(* After a jump its target is queued, else the successors, one by one. *)
Schedule(s) ==
  LET p == procs[s].ph
      t == procs[s].on IN
  /\ At(s, "schedule")
  /\ objn' = [objn EXCEPT ![p] = Silent]
  /\ IF t # 0
     THEN /\ queue' = Append(queue, t)
          /\ procs' = Woken([procs EXCEPT ![s] = Free], {p})
     ELSE /\ procs' = Woken([Loop(s, "succ", "run", Succ[p]) EXCEPT ![s].on = 0], {p})
          /\ UNCHANGED queue
  /\ UNCHANGED <<node, bodies, over, calls>>

(* Whoever is done queues its successors. *)
SuccessorAlways(s) ==
  /\ At(s, "succ") /\ procs[s].todo # {}
  /\ node' = [node EXCEPT ![NextOf(s)].st = Scheduled]
  /\ procs' = Goto(s, "put", "zero")
  /\ UNCHANGED <<bodies, objn, queue, over, calls>>

Successor(s) ==
  LET q == NextOf(s) IN
  /\ At(s, "succ") /\ procs[s].todo # {}
  /\ IF State(q) < Scheduled
     THEN /\ node' = [node EXCEPT ![q].st = Scheduled]
          /\ procs' = Goto(s, "put", "zero")
     ELSE /\ procs' = [procs EXCEPT ![s].todo = @ \ {q}]
          /\ UNCHANGED node
  /\ UNCHANGED <<bodies, objn, queue, over, calls>>

Put(s) ==
  /\ At(s, "put")
  /\ queue' = Append(queue, NextOf(s))
  /\ procs' = Loop(s, "succ", "run", procs[s].todo \ {NextOf(s)})
  /\ UNCHANGED <<node, bodies, objn, over, calls>>

(* The process ends and drops what try_put raised for its phase. *)
Exit(s) ==
  /\ At(s, "succ") /\ procs[s].todo = {}
  /\ procs' = [procs EXCEPT ![s] = Free]
  /\ UNCHANGED <<node, bodies, objn, queue, over, calls>>

(* Every objection of the hopper is dropped: run_phases returns. *)
AllDropped ==
  /\ ~over /\ queue = <<>>
  /\ \A s \in Slots : procs[s] = Free
  /\ over' = TRUE
  /\ UNCHANGED <<node, bodies, objn, queue, procs, calls>>

-----------------------------------------------------------------------------
(* Components and tests. *)

Objecting(p) ==
  /\ ~over /\ Task(p)
  /\ bodies[p] > 0 \/ State(p) \in {Started, Executing, ReadyToEnd}

Raise(p) ==
  /\ Objecting(p) /\ objn[p].raised < MaxRaise
  /\ objn' = [objn EXCEPT ![p] = [raised |-> @.raised + 1, drain |-> FALSE, all |-> FALSE]]
  /\ UNCHANGED <<node, bodies, queue, procs, over, calls>>

Drop(p) ==
  /\ ~over /\ objn[p].raised > 0
  /\ objn' = [objn EXCEPT ![p].raised = @ - 1, ![p].drain = objn[p].raised = 1]
  /\ UNCHANGED <<node, bodies, queue, procs, over, calls>>

Drained(p) ==
  /\ ~over /\ objn[p].drain
  /\ objn' = [objn EXCEPT ![p].drain = FALSE, ![p].all = TRUE]
  /\ procs' = Woken(procs, {p})
  /\ UNCHANGED <<node, bodies, queue, over, calls>>

Active == {p \in Phases : Started <= State(p) /\ State(p) <= Cleanup}

(* jump(), as it is recorded at p. *)
Bound(p, t) ==
  [node[p] EXCEPT !.jump = t, !.early = TRUE,
                  !.fwd = @ \/ (t \in Downstream[p] /\ t # p)]

Jump(p, t) ==
  /\ ~over /\ calls < MaxCalls /\ p \in Active
  /\ node' = [node EXCEPT ![p] = Bound(p, t)]
  /\ calls' = calls + 1
  /\ UNCHANGED <<bodies, objn, queue, procs, over>>

(* uvm_domain::jump for every domain: whatever is active and before or     *)
(* after the target jumps.                                                 *)
JumpAll(t) ==
  LET S == {p \in Active \ {t} : t \in Downstream[p] \/ p \in Downstream[t]} IN
  /\ ~over /\ calls < MaxCalls /\ S # {}
  /\ node' = [p \in Phases |-> IF p \in S THEN Bound(p, t) ELSE node[p]]
  /\ calls' = calls + 1
  /\ UNCHANGED <<bodies, objn, queue, procs, over>>

EndPrematurely(p) ==
  /\ ~over /\ calls < MaxCalls
  /\ State(p) \in {Started, Executing, ReadyToEnd}
  /\ node' = [node EXCEPT ![p].early = TRUE]
  /\ calls' = calls + 1
  /\ UNCHANGED <<bodies, objn, queue, procs, over>>

-----------------------------------------------------------------------------
ProcessStep(s) ==
  \/ Visit(s) \/ Sync(s) \/ Start(s)
  \/ Execute(s) \/ Watch(s) \/ Pass(s) \/ Ready(s)
  \/ EndEarly(s) \/ End(s) \/ PeersEnd(s) \/ EndedAt(s) \/ CleanupAt(s)
  \/ Finish(s) \/ Schedule(s) \/ Successor(s) \/ Put(s) \/ Exit(s)

Testbench ==
  \/ \E p \in Phases : Raise(p) \/ Drop(p)
  \/ \E j \in Jumps : Jump(j[1], j[2])
  \/ \E t \in AllJumps : JumpAll(t)
  \/ \E p \in Enders : EndPrematurely(p)

Next ==
  \/ Advance
  \/ \E s \in Slots : Get(s) \/ ProcessStep(s)
  \/ AllDropped
  \/ \E p \in Phases : Drained(p)
  \/ Testbench

Spec == Init /\ [][Next]_vars

(* The simulator runs every process that can run, and drain times pass.    *)
Fairness ==
  /\ WF_vars(Advance) /\ WF_vars(AllDropped)
  /\ \A s \in Slots : WF_vars(Get(s)) /\ WF_vars(ProcessStep(s))
  /\ \A p \in Phases : WF_vars(Drained(p))

FairSpec == Spec /\ Fairness

-----------------------------------------------------------------------------
Points ==
  {"free", "preds", "sync", "execute", "watch", "await", "sibs", "sibwait",
   "ready", "end", "peers", "ended", "cleanup", "finish", "schedule", "succ", "put"}

TypeOK ==
  /\ node \in [Phases -> [st : {Dormant, Scheduled, Syncing, Started, Executing, ReadyToEnd,
                                Ended, Cleanup, Done, Jumping},
                          jump : Phases \cup {0}, fwd : BOOLEAN, early : BOOLEAN,
                          proc : BOOLEAN]]
  /\ bodies \in [Phases -> Nat]
  /\ objn \in [Phases -> [raised : Nat, drain : BOOLEAN, all : BOOLEAN]]
  /\ queue \in Seq(Phases)
  /\ procs \in [Slots -> [ph : Phases \cup {0}, pc : Points, at : {"run", "zero", "nba"},
                          todo : SUBSET Phases, on : Phases \cup {0},
                          again : BOOLEAN, n : 0 .. MaxReady]]
  /\ over \in BOOLEAN
  /\ calls \in 0 .. MaxCalls

(* A phase is in the hopper at most once, queued or in a process: two      *)
(* processes of one phase would run its bodies twice.                      *)
InHopperOnce ==
  /\ \A s, x \in Slots : procs[s].ph # 0 /\ procs[s].ph = procs[x].ph => s = x
  /\ \A i, j \in DOMAIN queue : queue[i] = queue[j] => i = j
  /\ \A i \in DOMAIN queue, s \in Slots : procs[s].ph # queue[i]

(* Threads of a phase live only while the phase executes or ends, and the  *)
(* phase still knows them, so that it can kill them.                       *)
BodiesBelong ==
  \A p \in Phases :
    /\ bodies[p] <= 1
    /\ bodies[p] = 1 => node[p].proc /\ State(p) \in {Executing, ReadyToEnd, Ended}

(* A phase that is not cut short ends when neither it nor any phase that   *)
(* ends with it objects: wait_for_self_and_siblings_to_drop.               *)
EndsUnopposed ==
  [][\A s \in Slots :
       /\ procs[s].pc = "sibs" /\ procs'[s].pc = "end"
       /\ ~node[procs[s].ph].early
       => LET p == procs[s].ph IN
          \A q \in Peers[p] \cup SyncWith[p] \cup {p} : objn[q].raised = 0]_vars

(* "The drain time is the amount of time to wait once all objections have  *)
(* been dropped": a phase that is not cut short ends after its drain.      *)
DrainIsAwaited ==
  [][\A s \in Slots :
       /\ procs[s].pc = "sibs" /\ procs'[s].pc = "end"
       /\ ~node[procs[s].ph].early
       => ~objn[procs[s].ph].drain]_vars

(* The order of phases is the one of the graph (PhaseOrder). *)
Status(p) ==
  IF State(p) <= Scheduled THEN "waiting" ELSE IF State(p) = Done THEN "done" ELSE "running"
Order == INSTANCE PhaseOrder WITH status <- [p \in Phases |-> Status(p)]
OrderSpec == Order!Spec

(* If from some time on nobody objects, run_phases returns. *)
RunEnds == (<>[](\A p \in Phases : objn[p].raised = 0)) => <>over
=============================================================================
