------------------------------ MODULE Objection ------------------------------
(***************************************************************************)
(* One uvm_objection: counts raised and dropped in a hierarchy of objects, *)
(* and the drain that runs at every level whose total has come down to     *)
(* zero before the drop goes on to the parent.                             *)
(*                                                                         *)
(* raise_objection and drop_objection are functions, so nothing else runs  *)
(* while they climb the hierarchy; the climb is cut into one step per      *)
(* level (call).  A drain is three activities of its own: the background   *)
(* process forks a guard for a scheduled context, the guard picks up the   *)
(* oldest forked context, waits its drain time and runs the all_dropped    *)
(* callbacks, which may take time, and then drops at the parent.           *)
(***************************************************************************)
EXTENDS Queues, Integers, FiniteSetsExt

CONSTANTS
  Objs,       \* components and sequences
  Top,        \* uvm_root
  Parent,     \* the parent component, or the sequencer of a sequence
  Movers,     \* sequences that get their sequencer only in start()
  Callers,    \* the objects on whose behalf objections are raised
  PropModes,  \* the values set_propagate_mode() is called with
  Clears,     \* whether clear() is called
  StaleDrops, \* whether a caller drops what it raised before a clear()
  MaxStep,    \* the largest count of one call
  MaxCount,   \* a bound of the model: what one caller has raised
  MaxForks,   \* a bound of the model: guards that have not started
  None        \* no call

ASSUME ObjAssumption ==
  /\ Top \in Objs /\ IsFiniteSet(Objs) /\ None \notin [o : Objs, n : Int]
  /\ Parent \in [Objs -> Objs] /\ Parent[Top] = Top
  /\ \A S \in SUBSET Objs :   \* every object is below the top
       Top \in S /\ (\A o \in Objs : Parent[o] \in S => o \in S) => S = Objs
  /\ Movers \subseteq Objs \ {Top} /\ Callers \subseteq Objs
  /\ PropModes \subseteq BOOLEAN /\ Clears \in BOOLEAN /\ StaleDrops \in BOOLEAN
  /\ MaxStep \in Nat \ {0} /\ MaxCount \in Nat /\ MaxForks \in Nat

VARIABLES
  obj,      \* src: m_source_count, srcs: its keys, total: m_total_count,
            \* tots: its keys
  ctx,      \* sched: m_scheduled_list, forked: m_forked_list, guards: forked
            \* guards that have not run, drain: m_forked_contexts
  call,     \* the level a raise or drop has climbed to, and the count it adds
  flags,    \* prop: m_prop_mode, top: m_top_all_dropped, cleared: m_cleared
  at,       \* the parent m_get_parent() answers now
  held,     \* what each caller has raised and will still drop
  fatal     \* OBJTN_ZERO has been reported

vars == <<obj, ctx, call, flags, at, held, fatal>>

Context == [o : Objs, n : Nat \ {0}]
Drain == [o : Objs, n : Nat \ {0}, pc : {"delay", "callback"}]

-----------------------------------------------------------------------------
Init ==
  /\ obj = [src |-> [o \in Objs |-> 0], srcs |-> {},
            total |-> [o \in Objs |-> 0], tots |-> {}]
  /\ ctx = [sched |-> <<>>, forked |-> <<>>, guards |-> 0, drain |-> {}]
  /\ call = None
  /\ flags = [prop |-> TRUE, top |-> FALSE, cleared |-> FALSE]
  /\ at = [o \in Objs |-> IF o \in Movers THEN Top ELSE Parent[o]]
  /\ held = [o \in Objs |-> 0]
  /\ fatal = FALSE

Idle == call = None /\ ~fatal

(* The contexts of drains, wherever they stand. *)
Contexts(c) == Held(c.sched) \cup Held(c.forked) \cup c.drain
Draining(c, o) == {x \in Contexts(c) : x.o = o}

(* The count that waits for the drain of o, 0 without a drain. *)
Pending(c, o) ==
  IF Draining(c, o) = {} THEN 0 ELSE (CHOOSE x \in Draining(c, o) : TRUE).n

Others(q, o) == Kept(q, {i \in DOMAIN q : q[i].o # o})

(* The list of scheduled drains is not searched; a running drain lives on. *)
WithoutScheduled(c, o) ==
  [c EXCEPT !.forked = Others(@, o), !.drain = {x \in @ : x.o # o}]
WithoutKill(c, o) == [c EXCEPT !.sched = Others(@, o), !.forked = Others(@, o)]

(* A raise takes back the context of its object, wherever the drain stands: *)
(* scheduled, forked, or running in a process that is killed.  An object    *)
(* has at most one (DrainIsIdle), so the three searches are one.            *)
Without(c, o) ==
  [c EXCEPT !.sched = Others(@, o), !.forked = Others(@, o),
            !.drain = {x \in @ : x.o # o}]

(* Where the call goes on after o, with the count that is left. *)
Climb(o, n) ==
  IF o = Top \/ n = 0 THEN None
  ELSE [o |-> IF flags.prop THEN at[o] ELSE Top, n |-> n]

(* The whole count goes on. *)
RaiseAtAll(b, o, n) ==
  /\ obj' = [b EXCEPT !.total[o] = @ + n, !.tots = @ \cup {o}]
  /\ ctx' = Without(ctx, o)
  /\ call' = Climb(o, n)
  /\ UNCHANGED fatal

(* m_raise at o: only the difference to what was pending goes on, and a    *)
(* negative difference goes on as a drop.                                  *)
RaiseAt(b, o, n) ==
  /\ obj' = [b EXCEPT !.total[o] = @ + n, !.tots = @ \cup {o}]
  /\ ctx' = Without(ctx, o)
  /\ call' = Climb(o, n - Pending(ctx, o))
  /\ UNCHANGED fatal

(* The total at zero drains and passes the drop on at once. *)
DropAtTwice(b, o, n, enough) ==
  IF o \notin obj.tots \/ n > obj.total[o] \/ ~enough
  THEN call' = None /\ fatal' = ~flags.cleared /\ UNCHANGED <<obj, ctx>>
  ELSE /\ obj' = [b EXCEPT !.total[o] = @ - n]
       /\ ctx' = IF obj.total[o] = n
                 THEN [ctx EXCEPT !.sched = Append(@, [o |-> o, n |-> n])] ELSE ctx
       /\ call' = Climb(o, -n)
       /\ UNCHANGED fatal

(* m_drop at o: below zero it is ignored after a clear, and fatal else; at *)
(* zero a drain is scheduled.                                              *)
DropAt(b, o, n, enough) ==
  IF o \notin obj.tots \/ n > obj.total[o] \/ ~enough
  THEN /\ call' = None
       /\ fatal' = ~flags.cleared
       /\ UNCHANGED <<obj, ctx>>
  ELSE /\ obj' = [b EXCEPT !.total[o] = @ - n]
       /\ IF obj.total[o] = n
          THEN /\ ctx' = [ctx EXCEPT !.sched = Append(@, [o |-> o, n |-> n])]
               /\ call' = None
          ELSE call' = Climb(o, -n) /\ UNCHANGED ctx
       /\ UNCHANGED fatal

Raise(o, n) ==
  /\ Idle
  /\ held[o] + n <= MaxCount
  /\ flags' = [flags EXCEPT !.cleared = FALSE, !.top = FALSE]
  /\ RaiseAt([obj EXCEPT !.src[o] = @ + n, !.srcs = @ \cup {o}], o, n)
  /\ held' = [held EXCEPT ![o] = @ + n]
  /\ UNCHANGED at

Drop(o, n) ==
  /\ Idle
  /\ held[o] >= n
  /\ DropAt([obj EXCEPT !.src[o] = @ - n], o, n, o \in obj.srcs /\ n <= obj.src[o])
  /\ held' = [held EXCEPT ![o] = @ - n]
  /\ UNCHANGED <<flags, at>>

(* One more level of m_propagate. *)
Propagate ==
  /\ call # None
  /\ IF call.n > 0 THEN RaiseAt(obj, call.o, call.n)
                   ELSE DropAt(obj, call.o, -call.n, TRUE)
  /\ UNCHANGED <<flags, at, held>>

-----------------------------------------------------------------------------
(* m_execute_scheduled_forks: one turn of its loop. *)
Fork ==
  /\ Idle
  /\ ctx.sched # <<>>
  /\ ctx.guards < MaxForks
  /\ ctx' = [ctx EXCEPT !.sched = Tail(@),
                        !.forked = Append(@, Head(ctx.sched)),
                        !.guards = @ + 1]
  /\ UNCHANGED <<obj, call, flags, at, held, fatal>>

(* A guard starts: it takes the oldest forked context, which need not be   *)
(* the one it was forked for, or ends if a raise has emptied the list.     *)
StartDrain ==
  /\ Idle
  /\ ctx.guards > 0
  /\ IF ctx.forked = <<>>
     THEN ctx' = [ctx EXCEPT !.guards = @ - 1]
     ELSE ctx' = [ctx EXCEPT
                    !.guards = @ - 1, !.forked = Tail(@),
                    !.drain = @ \cup {[o |-> Head(ctx.forked).o,
                                       n |-> Head(ctx.forked).n,
                                       pc |-> "delay"]}]
  /\ UNCHANGED <<obj, call, flags, at, held, fatal>>

(* The drain time is over and the callbacks start. *)
DelayOver(d) ==
  /\ Idle
  /\ d.pc = "delay"
  /\ ctx' = [ctx EXCEPT !.drain = (@ \ {d}) \cup {[d EXCEPT !.pc = "callback"]}]
  /\ UNCHANGED <<obj, call, flags, at, held, fatal>>

(* Every level ends the phase, and the drop is not passed on. *)
AllDroppedAny(d) ==
  /\ Idle /\ d.pc = "callback"
  /\ ctx' = [ctx EXCEPT !.drain = @ \ {d}]
  /\ flags' = [flags EXCEPT !.top = TRUE]
  /\ call' = Climb(d.o, -d.n)
  /\ UNCHANGED <<obj, at, held, fatal>>

(* The drop is not passed on. *)
AllDroppedStops(d) ==
  /\ Idle /\ d.pc = "callback"
  /\ ctx' = [ctx EXCEPT !.drain = @ \ {d}]
  /\ UNCHANGED <<obj, call, flags, at, held, fatal>>

(* The callbacks of all_dropped have returned: the entries that are zero   *)
(* are deleted and the drop goes on to the parent.                         *)
AllDropped(d) ==
  /\ Idle
  /\ d.pc = "callback"
  /\ obj' = [obj EXCEPT !.srcs = IF obj.src[d.o] = 0 THEN @ \ {d.o} ELSE @,
                        !.tots = IF obj.total[d.o] = 0 THEN @ \ {d.o} ELSE @]
  /\ ctx' = [ctx EXCEPT !.drain = @ \ {d}]
  /\ flags' = [flags EXCEPT !.top = @ \/ d.o = Top]
  /\ call' = Climb(d.o, -d.n)
  /\ UNCHANGED <<at, held, fatal>>

(* clear(): the guards that have not started find an empty list. *)
Clear ==
  /\ Idle /\ Clears
  /\ obj' = [src |-> [o \in Objs |-> 0], srcs |-> {},
             total |-> [o \in Objs |-> 0], tots |-> {}]
  /\ ctx' = [ctx EXCEPT !.sched = <<>>, !.forked = <<>>, !.drain = {}]
  /\ flags' = [flags EXCEPT !.top = FALSE, !.cleared = TRUE]
  /\ held' = IF StaleDrops THEN held ELSE [o \in Objs |-> 0]
  /\ UNCHANGED <<call, at, fatal>>

SetPropagateMode(m) ==
  /\ Idle
  /\ flags.top \/ obj.total[Top] = 0
  /\ flags' = [flags EXCEPT !.prop = m]
  /\ UNCHANGED <<obj, ctx, call, at, held, fatal>>

(* A sequence is given its sequencer (set_item_context in start()). *)
SetSequencer(q) ==
  /\ Idle
  /\ at[q] # Parent[q]
  /\ at' = [at EXCEPT ![q] = Parent[q]]
  /\ UNCHANGED <<obj, ctx, call, flags, held, fatal>>

Drains == Fork \/ StartDrain \/ \E d \in ctx.drain : DelayOver(d) \/ AllDropped(d)

Next ==
  \/ \E o \in Callers, n \in 1 .. MaxStep : Raise(o, n) \/ Drop(o, n)
  \/ Propagate
  \/ Drains
  \/ Clear
  \/ \E m \in PropModes : SetPropagateMode(m)
  \/ \E q \in Movers : SetSequencer(q)

Spec == Init /\ [][Next]_vars

(* The background process and the guards run, drain times pass, and every  *)
(* callback returns.  The drain of one object may be killed again and      *)
(* again by raises, so each drain has a fairness of its own.               *)
Fairness ==
  /\ WF_vars(Propagate) /\ WF_vars(Fork) /\ WF_vars(StartDrain)
  /\ \A o \in Objs :
       WF_vars(\E d \in ctx.drain : d.o = o /\ (DelayOver(d) \/ AllDropped(d)))

FairSpec == Spec /\ Fairness

-----------------------------------------------------------------------------
TypeOK ==
  /\ obj \in [src : [Objs -> Nat], srcs : SUBSET Objs,
              total : [Objs -> Nat], tots : SUBSET Objs]
  /\ ctx \in [sched : Seq(Context), forked : Seq(Context), guards : Nat,
              drain : SUBSET Drain]
  /\ call \in {None} \cup [o : Objs, n : Int \ {0}]
  /\ flags \in [prop : BOOLEAN, top : BOOLEAN, cleared : BOOLEAN]
  /\ at \in [Objs -> Objs]
  /\ held \in [Objs -> Nat]
  /\ fatal \in BOOLEAN

(* An object is drained at most once at a time, and only while its total   *)
(* is zero: the three searches of m_raise leave no second context behind,  *)
(* and no drain goes on under a raised object.                             *)
Distinct(q) == \A i, j \in DOMAIN q : q[i].o = q[j].o => i = j
Apart(S, T) == \A x \in S, y \in T : x.o # y.o

DrainIsIdle ==
  /\ Distinct(ctx.sched) /\ Distinct(ctx.forked)
  /\ \A x, y \in ctx.drain : x.o = y.o => x = y
  /\ Apart(Held(ctx.sched), Held(ctx.forked))
  /\ Apart(Held(ctx.sched), ctx.drain) /\ Apart(Held(ctx.forked), ctx.drain)
  /\ \A x \in Contexts(ctx) : obj.total[x.o] = 0

Children(o) ==
  IF flags.prop THEN {c \in Objs \ {Top} : at[c] = o}
  ELSE IF o = Top THEN Objs \ {Top} ELSE {}

(* What the parent of an object counts of it: its total and what it drains. *)
Share == [c \in Objs |-> obj.total[c] + Pending(ctx, c)]

(* get_objection_total: the total of an object is what it has raised, the  *)
(* totals of its children, and what children still drain.                  *)
TotalsAddUp ==
  call = None /\ ~fatal =>
    \A o \in Objs :
      obj.total[o] = obj.src[o] + SumFunctionOnSet(Share, Children(o))

(* "attempted to drop objection count below zero" is never reported to     *)
(* callers that drop what they have raised.                                *)
NoUnderflow == ~fatal

(* An object that drains has no descendant that objects or still drains:   *)
(* the all_dropped callbacks run bottom up, and "if a new objection for    *)
(* this object or any of its descendants is raised during the drain time   *)
(* ... the execution is terminated".                                       *)
Below(o) ==
  {c \in Objs \ {o} :
     \A S \in SUBSET Objs :
       o \in S /\ (\A x \in S : Children(x) \subseteq S) => c \in S}

DrainsBottomUp ==
  call = None =>
    \A x \in Contexts(ctx) :
      /\ obj.src[x.o] = 0
      /\ \A c \in Below(x.o) : obj.src[c] = 0 /\ Draining(ctx, c) = {}

(* What the hierarchy promises is EndOfTest: all_dropped of the top is over *)
(* only while no caller objects.                                           *)
Promise == INSTANCE EndOfTest WITH Sources <- Objs, raised <- obj.src, over <- flags.top
PromiseSpec == Promise!Spec

(* Once nobody objects any more, the drains reach the top or somebody      *)
(* objects again.                                                          *)
Silent == \A o \in Objs : obj.src[o] = 0
DropsReachTop ==
  Silent ~> ~Silent \/ (Contexts(ctx) = {} /\ \A o \in Objs : obj.total[o] = 0)
=============================================================================
