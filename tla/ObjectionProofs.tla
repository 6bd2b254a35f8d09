--------------------------- MODULE ObjectionProofs ---------------------------
(***************************************************************************)
(* For any hierarchy: an objection is of its type, an object drains at     *)
(* most once at a time and only while its total is zero, totals add up,    *)
(* drains run bottom up, the top is over only by agreement (EndOfTest),    *)
(* and a caller that drops what it raised never drops below zero.          *)
(***************************************************************************)
EXTENDS Objection, QueuesProofs, WellFoundedInduction, TLAPS

IInv == TypeOK /\ DrainIsIdle

ContextsType ==
  [sched : Seq(Context), forked : Seq(Context), guards : Nat, drain : SUBSET Drain]
CountsType ==
  [src : [Objs -> Nat], srcs : SUBSET Objs, total : [Objs -> Nat], tots : SUBSET Objs]

(* What waits for a drain, and of which object. *)
Waits(c) == {<<x.o, x.n>> : x \in Contexts(c)}

(* DrainIsIdle of given contexts and counts. *)
IdleIn(c, b) ==
  /\ Distinct(c.sched) /\ Distinct(c.forked)
  /\ \A x, y \in c.drain : x.o = y.o => x = y
  /\ Apart(Held(c.sched), Held(c.forked))
  /\ Apart(Held(c.sched), c.drain) /\ Apart(Held(c.forked), c.drain)
  /\ \A x \in Contexts(c) : b.total[x.o] = 0

(* Searching a queue for an object removes its contexts and no other. *)
LEMMA OthersHeld ==
  ASSUME NEW q \in Seq(Context), NEW o, Distinct(q)
  PROVE  /\ Others(q, o) \in Seq(Context)
         /\ Held(Others(q, o)) = {x \in Held(q) : x.o # o}
         /\ Distinct(Others(q, o))
<1> DEFINE K == {i \in DOMAIN q : q[i].o # o}
<1>1. K \in SUBSET (DOMAIN q) /\ Others(q, o) = Kept(q, K)
  BY DEF Others
<1> HIDE DEF K
<1>2. Kept(q, K) \in Seq(Context)
  BY <1>1, KeptType
<1>3. Held(Kept(q, K)) = {q[i] : i \in K}
  BY <1>1, KeptHeld
<1>4. {q[i] : i \in K} = {x \in Held(q) : x.o # o}
  BY DEF K, Held
<1>5. Distinct(Kept(q, K))
  <2> SUFFICES ASSUME NEW i \in DOMAIN Kept(q, K), NEW j \in DOMAIN Kept(q, K),
                      Kept(q, K)[i].o = Kept(q, K)[j].o
               PROVE  i = j
    BY DEF Distinct
  <2>1. /\ Nth(K, i) \in K /\ Nth(K, j) \in K
        /\ Kept(q, K)[i] = q[Nth(K, i)] /\ Kept(q, K)[j] = q[Nth(K, j)]
    BY <1>1, KeptEntry
  <2>2. Nth(K, i) = Nth(K, j)
    BY <1>1, <2>1 DEF Distinct
  <2>3. i \in Nat /\ j \in Nat
    BY <1>1, KeptType
  <2>4. DOMAIN q \subseteq Nat
    OBVIOUS
  <2>5. CASE i < j
    <3>1. Nth(K, i) < Nth(K, j)
      BY <1>1, <2>5, KeptOrder
    <3> QED
      BY <2>1, <2>2, <2>4, <1>1, <3>1
  <2>6. CASE j < i
    <3>1. Nth(K, j) < Nth(K, i)
      BY <1>1, <2>6, KeptOrder
    <3> QED
      BY <2>1, <2>2, <2>4, <1>1, <3>1
  <2> QED
    BY <2>3, <2>5, <2>6
<1> QED
  BY <1>1, <1>2, <1>3, <1>4, <1>5

(* After a raise at o no context of o is left, and the others are as before. *)
LEMMA WithoutContexts ==
  ASSUME NEW c \in ContextsType, NEW b, NEW o, IdleIn(c, b)
  PROVE  /\ Without(c, o) \in ContextsType
         /\ IdleIn(Without(c, o), b)
         /\ Contexts(Without(c, o)) = {x \in Contexts(c) : x.o # o}
<1> DEFINE w == Without(c, o)
<1>1. /\ w.sched = Others(c.sched, o) /\ w.forked = Others(c.forked, o)
      /\ w.drain = {x \in c.drain : x.o # o}
  BY DEF Without, ContextsType
<1>2. /\ c.sched \in Seq(Context) /\ c.forked \in Seq(Context)
      /\ Distinct(c.sched) /\ Distinct(c.forked)
  BY DEF ContextsType, IdleIn
<1>3. /\ Others(c.sched, o) \in Seq(Context) /\ Distinct(Others(c.sched, o))
      /\ Held(Others(c.sched, o)) = {x \in Held(c.sched) : x.o # o}
  BY <1>2, OthersHeld
<1>4. /\ Others(c.forked, o) \in Seq(Context) /\ Distinct(Others(c.forked, o))
      /\ Held(Others(c.forked, o)) = {x \in Held(c.forked) : x.o # o}
  BY <1>2, OthersHeld
<1>5. w \in ContextsType
  BY <1>3, <1>4 DEF Without, ContextsType
<1> HIDE DEF w
<1>6. Contexts(w) = {x \in Contexts(c) : x.o # o}
  BY <1>1, <1>3, <1>4 DEF Contexts
<1>7. IdleIn(w, b)
  BY <1>1, <1>3, <1>4, <1>6 DEF IdleIn, Apart
<1> QED
  BY <1>5, <1>6, <1>7 DEF w

(* A context belongs to an object and counts at least one objection. *)
LEMMA ContextFields ==
  ASSUME NEW c \in ContextsType, NEW x \in Contexts(c)
  PROVE  x.o \in Objs /\ x.n \in Nat \ {0}
<1>1. c.sched \in Seq(Context) /\ c.forked \in Seq(Context) /\ c.drain \in SUBSET Drain
  BY DEF ContextsType
<1>2. \A y \in Held(c.sched) \cup Held(c.forked) : y \in Context
  BY <1>1 DEF Held
<1>3. x \in Context \/ x \in Drain
  BY <1>1, <1>2 DEF Contexts
<1> QED
  BY <1>3 DEF Context, Drain

(* What waits for a drain is a natural number. *)
LEMMA PendingType ==
  ASSUME NEW c \in ContextsType, NEW o
  PROVE  Pending(c, o) \in Nat
<1>1. ASSUME NEW x \in Draining(c, o) PROVE x.n \in Nat
  BY ContextFields DEF Draining
<1>2. CASE Draining(c, o) = {}
  BY <1>2 DEF Pending
<1>3. CASE Draining(c, o) # {}
  <2>1. (CHOOSE x \in Draining(c, o) : TRUE) \in Draining(c, o)
    BY <1>3
  <2> QED
    BY <1>1, <1>3, <2>1 DEF Pending
<1> QED
  BY <1>2, <1>3

LEMMA ClimbType ==
  ASSUME TypeOK, ObjAssumption, NEW o \in Objs, NEW n \in Int
  PROVE  Climb(o, n) \in {None} \cup [o : Objs, n : Int \ {0}]
BY DEF Climb, TypeOK, ObjAssumption

(* m_raise at one level keeps the invariant. *)
LEMMA RaiseAtKeeps ==
  ASSUME IInv, NEW STATE b, b \in CountsType, NEW o \in Objs, NEW n \in Nat \ {0},
         \A x \in Objs : b.total[x] = obj.total[x], RaiseAt(b, o, n)
  PROVE  /\ obj' \in CountsType /\ ctx' \in ContextsType
         /\ call' \in {None} \cup [o : Objs, n : Int \ {0}]
         /\ IdleIn(ctx', obj') /\ fatal' = fatal
<1>1. /\ ctx \in ContextsType /\ IdleIn(ctx, obj)
      /\ ctx' = Without(ctx, o) /\ call' = Climb(o, n - Pending(ctx, o))
      /\ obj' = [b EXCEPT !.total[o] = @ + n, !.tots = @ \cup {o}]
      /\ fatal' = fatal
  BY DEF IInv, TypeOK, DrainIsIdle, IdleIn, ContextsType, RaiseAt
<1>2. obj' \in CountsType
  <2> DEFINE more == [b EXCEPT !.total[o] = @ + n]
  <2>1. more \in CountsType
    BY DEF CountsType
  <2>2. obj' = [more EXCEPT !.tots = @ \cup {o}]
    BY <1>1 DEF CountsType
  <2> HIDE DEF more
  <2> QED
    BY <2>1, <2>2 DEF CountsType
<1>3. \A x \in Objs : x # o => obj'.total[x] = obj.total[x]
  BY <1>1 DEF CountsType
<1>4. /\ ctx' \in ContextsType /\ IdleIn(ctx', obj)
      /\ Contexts(ctx') = {x \in Contexts(ctx) : x.o # o}
  BY <1>1, WithoutContexts
<1>5. \A x \in Contexts(ctx') : x.o \in Objs /\ x.o # o
  <2>1. \A x \in Contexts(ctx) : x.o \in Objs
    BY <1>1, ContextFields
  <2> QED
    BY <1>4, <2>1
<1>6. IdleIn(ctx', obj')
  BY <1>3, <1>4, <1>5 DEF IdleIn
<1>7. call' \in {None} \cup [o : Objs, n : Int \ {0}]
  <2>1. n - Pending(ctx, o) \in Int
    BY <1>1, PendingType
  <2>2. TypeOK /\ ObjAssumption
    BY ObjAssumption DEF IInv
  <2> QED
    BY <1>1, <2>1, <2>2, ClimbType
<1> QED
  BY <1>1, <1>2, <1>4, <1>6, <1>7

(* m_drop at one level keeps the invariant. *)
LEMMA DropAtKeeps ==
  ASSUME IInv, NEW STATE b, NEW o \in Objs, NEW n \in Nat \ {0}, NEW e \in BOOLEAN,
         e => b \in CountsType,
         \A x \in Objs : b.total[x] = obj.total[x], DropAt(b, o, n, e)
  PROVE  /\ obj' \in CountsType /\ ctx' \in ContextsType
         /\ call' \in {None} \cup [o : Objs, n : Int \ {0}]
         /\ IdleIn(ctx', obj') /\ fatal' \in BOOLEAN
<1>1. /\ ctx \in ContextsType /\ IdleIn(ctx, obj) /\ obj \in CountsType
      /\ fatal \in BOOLEAN /\ flags.cleared \in BOOLEAN
  BY DEF IInv, TypeOK, DrainIsIdle, IdleIn, ContextsType, CountsType
<1>2. CASE o \notin obj.tots \/ n > obj.total[o] \/ ~e
  BY <1>1, <1>2 DEF DropAt
<1>3. CASE ~(o \notin obj.tots \/ n > obj.total[o] \/ ~e)
  <2>1. /\ obj' = [b EXCEPT !.total[o] = @ - n]
        /\ b \in CountsType /\ obj.total[o] \in Nat /\ obj.total[o] >= n
        /\ fatal' = fatal
    BY <1>1, <1>3 DEF DropAt, CountsType
  <2>2. obj' \in CountsType
    BY <2>1 DEF CountsType
  <2>3. /\ \A x \in Objs : x # o => obj'.total[x] = obj.total[x]
        /\ obj'.total[o] = obj.total[o] - n
    BY <2>1 DEF CountsType
  <2>4. \A x \in Contexts(ctx) : x.o \in Objs /\ x.o # o
    <3>1. \A x \in Contexts(ctx) : x.o \in Objs
      BY <1>1, ContextFields
    <3>2. obj.total[o] # 0
      BY <2>1
    <3> QED
      BY <1>1, <3>1, <3>2 DEF IdleIn
  <2>5. IdleIn(ctx, obj')
    BY <1>1, <2>3, <2>4 DEF IdleIn
  <2>6. CASE obj.total[o] = n
    <3> DEFINE x == [o |-> o, n |-> n]
    <3>1. /\ ctx' = [ctx EXCEPT !.sched = Append(@, x)] /\ call' = None
      BY <1>3, <2>6 DEF DropAt
    <3>2. x \in Context /\ x.o = o
      BY DEF Context
    <3> HIDE DEF x
    <3>3. ctx.sched \in Seq(Context)
      BY <1>1 DEF ContextsType
    <3>4. /\ ctx'.sched = Append(ctx.sched, x) /\ ctx'.forked = ctx.forked
          /\ ctx'.drain = ctx.drain /\ ctx' \in ContextsType
      <4>1. Append(ctx.sched, x) \in Seq(Context)
        BY <3>2, <3>3
      <4> QED
        BY <1>1, <3>1, <4>1 DEF ContextsType
    <3>5. Held(ctx'.sched) = Held(ctx.sched) \cup {x}
      <4>1. DOMAIN ctx'.sched = DOMAIN ctx.sched \cup {Len(ctx.sched) + 1}
        BY <3>3, <3>4
      <4>2. /\ \A i \in DOMAIN ctx.sched : ctx'.sched[i] = ctx.sched[i]
            /\ ctx'.sched[Len(ctx.sched) + 1] = x
        BY <3>3, <3>4
      <4> QED
        BY <4>1, <4>2 DEF Held
    <3>6. Distinct(ctx'.sched)
      <4>1. Distinct(ctx.sched) /\ \A i \in DOMAIN ctx.sched : ctx.sched[i].o # o
        BY <1>1, <2>4 DEF IdleIn, Contexts, Held
      <4>2. \A i \in DOMAIN ctx'.sched :
              \/ i \in DOMAIN ctx.sched /\ ctx'.sched[i] = ctx.sched[i]
              \/ i = Len(ctx.sched) + 1 /\ ctx'.sched[i] = x
        BY <3>3, <3>4
      <4> QED
        BY <3>2, <4>1, <4>2 DEF Distinct
    <3>7. Contexts(ctx') = Contexts(ctx) \cup {x}
      BY <3>4, <3>5 DEF Contexts
    <3>8. obj'.total[x.o] = 0
      BY <2>1, <2>3, <2>6, <3>2
    <3>9. /\ Apart(Held(ctx'.sched), Held(ctx'.forked))
          /\ Apart(Held(ctx'.sched), ctx'.drain)
      <4>1. /\ \A y \in Held(ctx.forked) : y.o # o
            /\ \A y \in ctx.drain : y.o # o
        BY <2>4 DEF Contexts
      <4> QED
        BY <2>5, <3>2, <3>4, <3>5, <4>1 DEF IdleIn, Apart
    <3>10. IdleIn(ctx', obj')
      BY <2>5, <3>4, <3>6, <3>7, <3>8, <3>9 DEF IdleIn
    <3> QED
      BY <1>1, <2>1, <2>2, <3>1, <3>4, <3>10
  <2>7. CASE obj.total[o] # n
    <3>1. ctx' = ctx /\ call' = Climb(o, -n)
      BY <1>3, <2>7 DEF DropAt
    <3>2. TypeOK /\ ObjAssumption
      BY ObjAssumption DEF IInv
    <3>3. call' \in {None} \cup [o : Objs, n : Int \ {0}]
      BY <3>1, <3>2, ClimbType
    <3> QED
      BY <1>1, <2>1, <2>2, <2>5, <3>1, <3>3
  <2> QED
    BY <2>6, <2>7
<1> QED
  BY <1>2, <1>3

(* The parts of the invariant, put together again. *)
LEMMA Assembled ==
  ASSUME obj' \in CountsType, ctx' \in ContextsType, IdleIn(ctx', obj'),
         call' \in {None} \cup [o : Objs, n : Int \ {0}],
         flags' \in [prop : BOOLEAN, top : BOOLEAN, cleared : BOOLEAN],
         at' \in [Objs -> Objs], held' \in [Objs -> Nat], fatal' \in BOOLEAN
  PROVE  IInv'
BY DEF IInv, TypeOK, DrainIsIdle, IdleIn, CountsType, ContextsType

-----------------------------------------------------------------------------
LEMMA InitInv == Init => IInv
<1> SUFFICES ASSUME Init PROVE IInv
  OBVIOUS
<1>1. obj \in CountsType /\ ctx \in ContextsType
  BY DEF Init, CountsType, ContextsType
<1>2. call = None /\ fatal \in BOOLEAN /\ held \in [Objs -> Nat]
  BY DEF Init
<1>3. flags \in [prop : BOOLEAN, top : BOOLEAN, cleared : BOOLEAN]
  BY DEF Init
<1>4. at \in [Objs -> Objs]
  BY ObjAssumption DEF Init, ObjAssumption
<1>5. Held(ctx.sched) = {} /\ Held(ctx.forked) = {} /\ ctx.drain = {}
  BY DEF Init, Held
<1>6. Distinct(ctx.sched) /\ Distinct(ctx.forked)
  BY DEF Init, Distinct
<1>7. DrainIsIdle
  BY <1>5, <1>6 DEF DrainIsIdle, Apart, Contexts
<1> QED
  BY <1>1, <1>2, <1>3, <1>4, <1>7 DEF IInv, TypeOK, CountsType, ContextsType

(* The invariant in terms of the lemmas. *)
LEMMA Unfolded ==
  ASSUME IInv
  PROVE  /\ obj \in CountsType /\ ctx \in ContextsType /\ IdleIn(ctx, obj)
         /\ call \in {None} \cup [o : Objs, n : Int \ {0}]
         /\ flags \in [prop : BOOLEAN, top : BOOLEAN, cleared : BOOLEAN]
         /\ at \in [Objs -> Objs] /\ held \in [Objs -> Nat] /\ fatal \in BOOLEAN
BY DEF IInv, TypeOK, DrainIsIdle, IdleIn, CountsType, ContextsType

(* An oldest context that moves from one queue on is still its object's only *)
(* one.                                                                      *)
LEMMA HeadMoves ==
  ASSUME NEW q \in Seq(Context), q # <<>>, Distinct(q)
  PROVE  /\ Head(q) \in Context /\ Tail(q) \in Seq(Context) /\ Distinct(Tail(q))
         /\ Held(q) = Held(Tail(q)) \cup {Head(q)}
         /\ \A x \in Held(Tail(q)) : x.o # Head(q).o
<1>1. /\ Len(q) \in Nat \ {0} /\ DOMAIN q = 1 .. Len(q) /\ Head(q) = q[1]
      /\ Tail(q) \in Seq(Context) /\ DOMAIN Tail(q) = 1 .. Len(q) - 1
      /\ \A i \in DOMAIN Tail(q) : Tail(q)[i] = q[i + 1]
  OBVIOUS
<1>2. Head(q) \in Context
  BY <1>1
<1>3. Distinct(Tail(q))
  <2> SUFFICES ASSUME NEW i \in DOMAIN Tail(q), NEW j \in DOMAIN Tail(q),
                      Tail(q)[i].o = Tail(q)[j].o
               PROVE  i = j
    BY DEF Distinct
  <2>1. i + 1 \in DOMAIN q /\ j + 1 \in DOMAIN q /\ q[i + 1].o = q[j + 1].o
    BY <1>1
  <2>2. i + 1 = j + 1
    BY <2>1 DEF Distinct
  <2> QED
    BY <1>1, <2>2
<1>4. Held(Tail(q)) = {q[i] : i \in 2 .. Len(q)}
  <2>1. Held(Tail(q)) \subseteq {q[i] : i \in 2 .. Len(q)}
    BY <1>1 DEF Held
  <2>2. ASSUME NEW i \in 2 .. Len(q) PROVE q[i] \in Held(Tail(q))
    <3>1. i - 1 \in DOMAIN Tail(q) /\ Tail(q)[i - 1] = q[i]
      BY <1>1
    <3> QED
      BY <3>1 DEF Held
  <2> QED
    BY <2>1, <2>2
<1>5. DOMAIN q = {1} \cup 2 .. Len(q)
  BY <1>1
<1>6. Held(q) = Held(Tail(q)) \cup {Head(q)}
  BY <1>1, <1>4, <1>5 DEF Held
<1>7. ASSUME NEW x \in Held(Tail(q)) PROVE x.o # Head(q).o
  <2>1. PICK i \in 2 .. Len(q) : x = q[i]
    BY <1>4
  <2>2. i \in DOMAIN q /\ 1 \in DOMAIN q /\ i # 1
    BY <1>1
  <2> QED
    BY <1>1, <2>1, <2>2 DEF Distinct
<1> QED
  BY <1>1, <1>2, <1>3, <1>6, <1>7

LEMMA AppendHeld ==
  ASSUME NEW q \in Seq(Context), NEW x \in Context, Distinct(q),
         \A y \in Held(q) : y.o # x.o
  PROVE  /\ Append(q, x) \in Seq(Context) /\ Distinct(Append(q, x))
         /\ Held(Append(q, x)) = Held(q) \cup {x}
<1> DEFINE p == Append(q, x)
<1>1. /\ p \in Seq(Context) /\ DOMAIN p = DOMAIN q \cup {Len(q) + 1}
      /\ \A i \in DOMAIN q : p[i] = q[i]
      /\ p[Len(q) + 1] = x
  OBVIOUS
<1> HIDE DEF p
<1>2. Held(p) = Held(q) \cup {x}
  BY <1>1 DEF Held
<1>3. \A i \in DOMAIN q : q[i].o # x.o
  BY DEF Held
<1>4. Distinct(p)
  BY <1>1, <1>3 DEF Distinct
<1> QED
  BY <1>1, <1>2, <1>4 DEF p

(* A context record with some of its fields replaced. *)
LEMMA Rebuilt ==
  ASSUME NEW c \in ContextsType, NEW S \in Seq(Context), NEW F \in Seq(Context),
         NEW g \in Nat, NEW D \in SUBSET Drain
  PROVE  /\ [c EXCEPT !.sched = S, !.forked = F, !.guards = g] \in ContextsType
         /\ [c EXCEPT !.guards = g, !.forked = F, !.drain = D] \in ContextsType
         /\ [c EXCEPT !.sched = S, !.forked = F, !.drain = D] \in ContextsType
BY DEF ContextsType

LEMMA ForkInv == IInv /\ Fork => IInv' /\ Waits(ctx') = Waits(ctx)
<1> SUFFICES ASSUME IInv, Fork PROVE IInv' /\ Waits(ctx') = Waits(ctx)
  OBVIOUS
<1>1. /\ ctx \in ContextsType /\ IdleIn(ctx, obj)
      /\ ctx.sched \in Seq(Context) /\ ctx.forked \in Seq(Context)
      /\ Distinct(ctx.sched) /\ Distinct(ctx.forked)
  BY Unfolded DEF ContextsType, IdleIn
<1> DEFINE h == Head(ctx.sched)
<1>2. /\ h \in Context /\ Tail(ctx.sched) \in Seq(Context)
      /\ Distinct(Tail(ctx.sched))
      /\ Held(ctx.sched) = Held(Tail(ctx.sched)) \cup {h}
      /\ \A x \in Held(Tail(ctx.sched)) : x.o # h.o
  BY <1>1, HeadMoves DEF Fork
<1>3. \A x \in Held(ctx.forked) \cup ctx.drain : x.o # h.o
  BY <1>1, <1>2 DEF IdleIn, Apart
<1>4. /\ Append(ctx.forked, h) \in Seq(Context) /\ Distinct(Append(ctx.forked, h))
      /\ Held(Append(ctx.forked, h)) = Held(ctx.forked) \cup {h}
  BY <1>1, <1>2, <1>3, AppendHeld
<1>5. /\ ctx'.sched = Tail(ctx.sched) /\ ctx'.forked = Append(ctx.forked, h)
      /\ ctx'.drain = ctx.drain /\ ctx'.guards = ctx.guards + 1
      /\ ctx' = [ctx EXCEPT !.sched = Tail(@), !.forked = Append(@, h),
                            !.guards = @ + 1]
  BY <1>1 DEF Fork, ContextsType
<1> HIDE DEF h
<1>6. ctx' \in ContextsType
  <2>1. ctx.guards + 1 \in Nat
    BY <1>1 DEF ContextsType
  <2> QED
    BY <1>1, <1>2, <1>4, <1>5, <2>1, Rebuilt
<1>7. Contexts(ctx') = Contexts(ctx)
  BY <1>2, <1>4, <1>5 DEF Contexts
<1>8. UNCHANGED <<obj, call, flags, at, held, fatal>>
  BY DEF Fork
<1>9. IdleIn(ctx', obj')
  BY <1>1, <1>2, <1>3, <1>4, <1>5, <1>7, <1>8 DEF IdleIn, Apart
<1>10. Waits(ctx') = Waits(ctx)
  BY <1>7 DEF Waits
<1> QED
  BY <1>6, <1>8, <1>9, <1>10, Unfolded, Assembled

LEMMA StartDrainInv == IInv /\ StartDrain => IInv' /\ Waits(ctx') = Waits(ctx)
<1> SUFFICES ASSUME IInv, StartDrain PROVE IInv' /\ Waits(ctx') = Waits(ctx)
  OBVIOUS
<1>1. /\ ctx \in ContextsType /\ IdleIn(ctx, obj)
      /\ ctx.forked \in Seq(Context) /\ Distinct(ctx.forked)
      /\ ctx.drain \in SUBSET Drain /\ ctx.guards \in Nat /\ ctx.guards > 0
  BY Unfolded DEF ContextsType, IdleIn, StartDrain
<1>2. UNCHANGED <<obj, call, flags, at, held, fatal>>
  BY DEF StartDrain
<1>3. CASE ctx.forked = <<>>
  <2>1. ctx' = [ctx EXCEPT !.guards = @ - 1]
    BY <1>3 DEF StartDrain
  <2>2. /\ ctx' \in ContextsType /\ ctx'.sched = ctx.sched
        /\ ctx'.forked = ctx.forked /\ ctx'.drain = ctx.drain
    BY <1>1, <2>1 DEF ContextsType
  <2>3. IdleIn(ctx', obj')
    BY <1>1, <1>2, <2>2 DEF IdleIn, Contexts
  <2>4. Waits(ctx') = Waits(ctx)
    BY <2>2 DEF Waits, Contexts
  <2> QED
    BY <1>2, <2>2, <2>3, <2>4, Unfolded, Assembled
<1>4. CASE ctx.forked # <<>>
  <2> DEFINE h == Head(ctx.forked)
             d == [o |-> h.o, n |-> h.n, pc |-> "delay"]
  <2>1. /\ h \in Context /\ Tail(ctx.forked) \in Seq(Context)
        /\ Distinct(Tail(ctx.forked))
        /\ Held(ctx.forked) = Held(Tail(ctx.forked)) \cup {h}
        /\ \A x \in Held(Tail(ctx.forked)) : x.o # h.o
    BY <1>1, <1>4, HeadMoves
  <2>2. d \in Drain /\ d.o = h.o /\ d.n = h.n
    BY <2>1 DEF Context, Drain
  <2>3. /\ ctx' = [ctx EXCEPT !.guards = @ - 1, !.forked = Tail(@),
                              !.drain = @ \cup {d}]
    BY <1>4 DEF StartDrain
  <2>4. \A x \in Held(ctx.sched) \cup ctx.drain : x.o # h.o
    BY <1>1, <2>1 DEF IdleIn, Apart
  <2>5. obj.total[h.o] = 0
    BY <1>1, <2>1 DEF IdleIn, Contexts
  <2> HIDE DEF h, d
  <2>6. /\ ctx'.sched = ctx.sched /\ ctx'.forked = Tail(ctx.forked)
        /\ ctx'.drain = ctx.drain \cup {d} /\ ctx' \in ContextsType
    <3>1. ctx.guards - 1 \in Nat /\ ctx.drain \cup {d} \in SUBSET Drain
      BY <1>1, <2>2
    <3>2. /\ ctx'.sched = ctx.sched /\ ctx'.forked = Tail(ctx.forked)
          /\ ctx'.drain = ctx.drain \cup {d}
      BY <1>1, <2>3 DEF ContextsType
    <3>3. /\ ctx' = [ctx EXCEPT !.guards = ctx.guards - 1, !.forked = Tail(ctx.forked),
                              !.drain = ctx.drain \cup {d}]
      BY <2>3
    <3> QED
      BY <1>1, <2>1, <3>1, <3>2, <3>3, Rebuilt
  <2>7. \A x \in Contexts(ctx') : x \in Contexts(ctx) \/ x = d
    BY <2>1, <2>6 DEF Contexts
  <2>8. IdleIn(ctx', obj')
    BY <1>1, <1>2, <2>1, <2>2, <2>4, <2>5, <2>6, <2>7 DEF IdleIn, Apart
  <2>9. Waits(ctx') = Waits(ctx)
    <3> DEFINE rest == Held(ctx.sched) \cup Held(Tail(ctx.forked)) \cup ctx.drain
    <3>1. Contexts(ctx) = rest \cup {h} /\ Contexts(ctx') = rest \cup {d}
      BY <2>1, <2>6 DEF Contexts
    <3> QED
      BY <2>2, <3>1 DEF Waits
  <2> QED
    BY <1>2, <2>6, <2>8, <2>9, Unfolded, Assembled
<1> QED
  BY <1>3, <1>4

(* What a drain leaves behind when it moves on or ends. *)
LEMMA DelayOverInv ==
  ASSUME NEW d \in ctx.drain
  PROVE  IInv /\ DelayOver(d) => IInv' /\ Waits(ctx') = Waits(ctx)
<1> SUFFICES ASSUME IInv, DelayOver(d) PROVE IInv' /\ Waits(ctx') = Waits(ctx)
  OBVIOUS
<1>1. /\ ctx \in ContextsType /\ IdleIn(ctx, obj) /\ ctx.drain \in SUBSET Drain
  BY Unfolded DEF ContextsType
<1> DEFINE e == [d EXCEPT !.pc = "callback"]
<1>2. e \in Drain /\ e.o = d.o /\ e.n = d.n /\ d \in Drain
  BY <1>1 DEF Drain
<1>3. /\ ctx' = [ctx EXCEPT !.drain = (@ \ {d}) \cup {e}]
      /\ UNCHANGED <<obj, call, flags, at, held, fatal>>
  BY DEF DelayOver
<1> HIDE DEF e
<1>4. /\ ctx'.sched = ctx.sched /\ ctx'.forked = ctx.forked
      /\ ctx'.drain = (ctx.drain \ {d}) \cup {e} /\ ctx' \in ContextsType
  BY <1>1, <1>2, <1>3 DEF ContextsType
<1>5. \A x \in Contexts(ctx') : x \in Contexts(ctx) \/ x = e
  BY <1>4 DEF Contexts
<1>6. d \in Contexts(ctx)
  BY DEF Contexts
<1>7. \A x \in ctx.drain : x.o = d.o => x = d
  BY <1>1 DEF IdleIn
<1>8. \A x, y \in ctx'.drain : x.o = y.o => x = y
  BY <1>1, <1>2, <1>4, <1>7 DEF IdleIn
<1>9. /\ Apart(Held(ctx'.sched), ctx'.drain) /\ Apart(Held(ctx'.forked), ctx'.drain)
  BY <1>1, <1>2, <1>4 DEF IdleIn, Apart
<1>10. \A x \in Contexts(ctx') : obj'.total[x.o] = 0
  BY <1>1, <1>2, <1>3, <1>5, <1>6 DEF IdleIn
<1>11. IdleIn(ctx', obj')
  BY <1>1, <1>4, <1>8, <1>9, <1>10 DEF IdleIn
<1>12. Waits(ctx') = Waits(ctx)
  <2> DEFINE rest == Held(ctx.sched) \cup Held(ctx.forked) \cup (ctx.drain \ {d})
  <2>1. Contexts(ctx) = rest \cup {d} /\ Contexts(ctx') = rest \cup {e}
    BY <1>4 DEF Contexts
  <2> QED
    BY <1>2, <2>1 DEF Waits
<1> QED
  BY <1>3, <1>4, <1>11, <1>12, Unfolded, Assembled

LEMMA AllDroppedInv ==
  ASSUME NEW d \in ctx.drain
  PROVE  IInv /\ AllDropped(d) =>
           IInv' /\ Contexts(ctx') = {x \in Contexts(ctx) : x.o # d.o}
<1> SUFFICES ASSUME IInv, AllDropped(d)
             PROVE  IInv' /\ Contexts(ctx') = {x \in Contexts(ctx) : x.o # d.o}
  OBVIOUS
<1>1. /\ ctx \in ContextsType /\ IdleIn(ctx, obj) /\ obj \in CountsType
      /\ flags \in [prop : BOOLEAN, top : BOOLEAN, cleared : BOOLEAN]
  BY Unfolded
<1>2. d \in Contexts(ctx)
  BY DEF Contexts
<1>3. d.o \in Objs /\ d.n \in Nat \ {0}
  BY <1>1, <1>2, ContextFields
<1>4. /\ ctx' = [ctx EXCEPT !.drain = @ \ {d}]
      /\ UNCHANGED <<at, held, fatal>> /\ call' = Climb(d.o, -d.n)
      /\ flags' = [flags EXCEPT !.top = @ \/ d.o = Top]
  BY DEF AllDropped
<1>5. /\ ctx' \in ContextsType /\ ctx'.sched = ctx.sched
      /\ ctx'.forked = ctx.forked /\ ctx'.drain = ctx.drain \ {d}
  BY <1>1, <1>4 DEF ContextsType
<1>6. obj' \in CountsType /\ obj'.total = obj.total
  BY <1>1 DEF AllDropped, CountsType
<1>7. flags' \in [prop : BOOLEAN, top : BOOLEAN, cleared : BOOLEAN]
  BY <1>1, <1>4
<1>8. call' \in {None} \cup [o : Objs, n : Int \ {0}]
  <2>1. -d.n \in Int /\ TypeOK
    BY <1>3 DEF IInv
  <2> QED
    BY <1>3, <1>4, <2>1, ClimbType, ObjAssumption
<1>9. IdleIn(ctx', obj')
  BY <1>1, <1>5, <1>6 DEF IdleIn, Apart, Contexts
<1>10. Contexts(ctx') = {x \in Contexts(ctx) : x.o # d.o}
  BY <1>1, <1>5 DEF Contexts, IdleIn, Apart
<1> QED
  BY <1>4, <1>5, <1>6, <1>7, <1>8, <1>9, <1>10, Unfolded, Assembled

LEMMA RaiseInv ==
  ASSUME NEW o \in Callers, NEW n \in 1 .. MaxStep PROVE IInv /\ Raise(o, n) => IInv'
<1> SUFFICES ASSUME IInv, Raise(o, n) PROVE IInv'
  OBVIOUS
<1> DEFINE b == [obj EXCEPT !.src[o] = @ + n, !.srcs = @ \cup {o}]
<1>1. o \in Objs /\ n \in Nat \ {0}
  BY ObjAssumption DEF ObjAssumption
<1>2. obj \in CountsType /\ held \in [Objs -> Nat]
      /\ flags \in [prop : BOOLEAN, top : BOOLEAN, cleared : BOOLEAN]
  BY Unfolded
<1>3. b \in CountsType /\ \A x \in Objs : b.total[x] = obj.total[x]
  <2> DEFINE more == [obj EXCEPT !.src[o] = @ + n]
  <2>1. more \in CountsType /\ more.total = obj.total
    BY <1>1, <1>2 DEF CountsType
  <2>2. b = [more EXCEPT !.srcs = @ \cup {o}]
    BY <1>1, <1>2 DEF CountsType
  <2> HIDE DEF more, b
  <2> QED
    BY <1>1, <2>1, <2>2 DEF CountsType
<1>4. /\ RaiseAt(b, o, n) /\ UNCHANGED at
      /\ held' = [held EXCEPT ![o] = @ + n]
      /\ flags' = [flags EXCEPT !.cleared = FALSE, !.top = FALSE]
  BY DEF Raise
<1> HIDE DEF b
<1>5. /\ obj' \in CountsType /\ ctx' \in ContextsType
      /\ call' \in {None} \cup [o : Objs, n : Int \ {0}]
      /\ IdleIn(ctx', obj') /\ fatal' = fatal
  BY <1>1, <1>3, <1>4, RaiseAtKeeps
<1>6. held' \in [Objs -> Nat]
  BY <1>1, <1>2, <1>4
<1>7. flags' \in [prop : BOOLEAN, top : BOOLEAN, cleared : BOOLEAN]
  BY <1>2, <1>4
<1> QED
  BY <1>4, <1>5, <1>6, <1>7, Unfolded, Assembled

LEMMA DropInv ==
  ASSUME NEW o \in Callers, NEW n \in 1 .. MaxStep PROVE IInv /\ Drop(o, n) => IInv'
<1> SUFFICES ASSUME IInv, Drop(o, n) PROVE IInv'
  OBVIOUS
<1> DEFINE b == [obj EXCEPT !.src[o] = @ - n]
           e == o \in obj.srcs /\ n <= obj.src[o]
<1>1. o \in Objs /\ n \in Nat \ {0}
  BY ObjAssumption DEF ObjAssumption
<1>2. obj \in CountsType /\ held \in [Objs -> Nat]
  BY Unfolded
<1>3. /\ e \in BOOLEAN /\ (e => b \in CountsType)
      /\ \A x \in Objs : b.total[x] = obj.total[x]
  BY <1>1, <1>2 DEF CountsType
<1>4. /\ DropAt(b, o, n, e) /\ UNCHANGED <<flags, at>>
      /\ held[o] >= n /\ held' = [held EXCEPT ![o] = @ - n]
  BY DEF Drop
<1> HIDE DEF b, e
<1>5. /\ obj' \in CountsType /\ ctx' \in ContextsType
      /\ call' \in {None} \cup [o : Objs, n : Int \ {0}]
      /\ IdleIn(ctx', obj') /\ fatal' \in BOOLEAN
  BY <1>1, <1>3, <1>4, DropAtKeeps
<1>6. held' \in [Objs -> Nat]
  BY <1>1, <1>2, <1>4
<1> QED
  BY <1>4, <1>5, <1>6, Unfolded, Assembled

LEMMA PropagateInv == IInv /\ Propagate => IInv'
<1> SUFFICES ASSUME IInv, Propagate PROVE IInv'
  OBVIOUS
<1>1. /\ obj \in CountsType /\ fatal \in BOOLEAN
      /\ call \in [o : Objs, n : Int \ {0}]
      /\ UNCHANGED <<flags, at, held>>
  BY Unfolded DEF Propagate
<1>2. call.o \in Objs /\ call.n \in Int \ {0}
  BY <1>1
<1>3. CASE call.n > 0
  <2> DEFINE n == call.n
  <2>0. n \in Nat \ {0}
    BY <1>2, <1>3
  <2>1. RaiseAt(obj, call.o, n)
    BY <1>3 DEF Propagate
  <2> HIDE DEF n
  <2>2. /\ obj' \in CountsType /\ ctx' \in ContextsType
        /\ call' \in {None} \cup [o : Objs, n : Int \ {0}]
        /\ IdleIn(ctx', obj') /\ fatal' = fatal
    BY <1>1, <1>2, <2>0, <2>1, RaiseAtKeeps
  <2> QED
    BY <1>1, <2>2, Unfolded, Assembled
<1>4. CASE ~(call.n > 0)
  <2> DEFINE n == -call.n
  <2>0. n \in Nat \ {0}
    BY <1>2, <1>4
  <2>1. DropAt(obj, call.o, n, TRUE)
    BY <1>4 DEF Propagate
  <2> HIDE DEF n
  <2>2. /\ obj' \in CountsType /\ ctx' \in ContextsType
        /\ call' \in {None} \cup [o : Objs, n : Int \ {0}]
        /\ IdleIn(ctx', obj') /\ fatal' \in BOOLEAN
    BY <1>1, <1>2, <2>0, <2>1, DropAtKeeps
  <2> QED
    BY <1>1, <2>2, Unfolded, Assembled
<1> QED
  BY <1>3, <1>4

LEMMA ClearInv == IInv /\ Clear => IInv'
<1> SUFFICES ASSUME IInv, Clear PROVE IInv'
  OBVIOUS
<1>1. /\ ctx \in ContextsType /\ held \in [Objs -> Nat]
      /\ flags \in [prop : BOOLEAN, top : BOOLEAN, cleared : BOOLEAN]
      /\ UNCHANGED <<call, at, fatal>>
  BY Unfolded DEF Clear
<1>2. obj' \in CountsType
  BY DEF Clear, CountsType
<1>3. /\ ctx' \in ContextsType /\ ctx'.sched = <<>> /\ ctx'.forked = <<>>
      /\ ctx'.drain = {}
  <2>1. <<>> \in Seq(Context) /\ {} \in SUBSET Drain
    OBVIOUS
  <2>2. ctx' = [ctx EXCEPT !.sched = <<>>, !.forked = <<>>, !.drain = {}]
    BY DEF Clear
  <2>3. ctx'.sched = <<>> /\ ctx'.forked = <<>> /\ ctx'.drain = {}
    BY <1>1, <2>2 DEF ContextsType
  <2>4. ctx.guards \in Nat
    BY <1>1 DEF ContextsType
  <2> QED
    BY <1>1, <2>1, <2>2, <2>3, <2>4, Rebuilt
<1>4. Held(ctx'.sched) = {} /\ Held(ctx'.forked) = {}
  BY <1>3 DEF Held
<1>5. IdleIn(ctx', obj')
  BY <1>3, <1>4 DEF IdleIn, Contexts, Apart, Distinct
<1>6. held' \in [Objs -> Nat]
  BY <1>1 DEF Clear
<1>7. flags' \in [prop : BOOLEAN, top : BOOLEAN, cleared : BOOLEAN]
  BY <1>1 DEF Clear
<1> QED
  BY <1>1, <1>2, <1>3, <1>5, <1>6, <1>7, Unfolded, Assembled

LEMMA OthersInv ==
  ASSUME IInv, \/ \E m \in PropModes : SetPropagateMode(m)
               \/ \E q \in Movers : SetSequencer(q)
               \/ UNCHANGED vars
  PROVE  IInv'
<1>1. obj' = obj /\ ctx' = ctx /\ call' = call /\ held' = held /\ fatal' = fatal
  BY DEF SetPropagateMode, SetSequencer, vars
<1>2. flags' \in [prop : BOOLEAN, top : BOOLEAN, cleared : BOOLEAN]
  BY Unfolded, ObjAssumption DEF ObjAssumption, SetPropagateMode, SetSequencer, vars
<1>3. at' \in [Objs -> Objs]
  BY Unfolded, ObjAssumption DEF ObjAssumption, SetPropagateMode, SetSequencer, vars
<1> QED
  BY <1>1, <1>2, <1>3, Unfolded, Assembled

LEMMA NextInv == IInv /\ [Next]_vars => IInv'
<1> SUFFICES ASSUME IInv, [Next]_vars PROVE IInv'
  OBVIOUS
<1>1. CASE \E o \in Callers, n \in 1 .. MaxStep : Raise(o, n) \/ Drop(o, n)
  BY <1>1, RaiseInv, DropInv
<1>2. CASE Propagate
  BY <1>2, PropagateInv
<1>3. CASE Drains
  BY <1>3, ForkInv, StartDrainInv, DelayOverInv, AllDroppedInv DEF Drains
<1>4. CASE Clear
  BY <1>4, ClearInv
<1>5. CASE \/ \E m \in PropModes : SetPropagateMode(m)
           \/ \E q \in Movers : SetSequencer(q)
           \/ UNCHANGED vars
  BY <1>5, OthersInv
<1> QED
  BY <1>1, <1>2, <1>3, <1>4, <1>5 DEF Next

THEOREM Invariance == Spec => []IInv
BY InitInv, NextInv, PTL DEF Spec

(* Counts never become negative, and contexts count something. *)
THEOREM TypeCorrect == Spec => []TypeOK
BY Invariance, PTL DEF IInv

(* An object drains at most once at a time, and only while its total is zero. *)
THEOREM DrainsAreIdle == Spec => []DrainIsIdle
BY Invariance, PTL DEF IInv

-----------------------------------------------------------------------------
(* Sums over finite sets, by least counterexamples.                        *)

(* SumFunctionOnSet takes the entries one by one.                          *)
Some(S) == CHOOSE x \in S : TRUE
Sums(f, S, g) ==
  g = [s \in SUBSET S |-> IF s = {} THEN 0 ELSE f[Some(s)] + g[s \ {Some(s)}]]

(* Of finite sets some are least. *)
LEMMA LeastSet ==
  ASSUME NEW S, IsFiniteSet(S), NEW C \in SUBSET (SUBSET S), C # {}
  PROVE  \E T \in C : \A U \in C : U \subseteq T => U = T
<1>1. /\ IsWellFoundedOn(StrictSubsetOrdering(S), FiniteSubsetsOf(S))
      /\ FiniteSubsetsOf(S) = SUBSET S
  BY FS_StrictSubsetOrderingWellFounded, FS_FiniteSubsetsOfFinite
<1>2. PICK T \in C : \A U \in C : <<U, T>> \notin StrictSubsetOrdering(S)
  BY <1>1, WFMin
<1>3. \A U \in C : U \subseteq T => U = T
  BY <1>2 DEF StrictSubsetOrdering
<1> QED
  BY <1>3

LEMMA SumChosen ==
  ASSUME NEW f, NEW S
  PROVE  SumFunctionOnSet(f, S) = (CHOOSE g : Sums(f, S, g))[S]
BY DEF SumFunctionOnSet, FoldFunctionOnSet, MapThenFoldSet, Sums, Some

LEMMA SumsUnique ==
  ASSUME NEW f, NEW S, IsFiniteSet(S), NEW g, NEW h, Sums(f, S, g), Sums(f, S, h)
  PROVE  \A s \in SUBSET S : g[s] = h[s]
<1> DEFINE C == {s \in SUBSET S : g[s] # h[s]}
<1> SUFFICES ASSUME C # {} PROVE FALSE
  OBVIOUS
<1>1. PICK T \in C : \A U \in C : U \subseteq T => U = T
  <2>1. C \in SUBSET (SUBSET S)
    OBVIOUS
  <2> HIDE DEF C
  <2> QED
    BY <2>1, LeastSet
<1>2. /\ g[T] = IF T = {} THEN 0 ELSE f[Some(T)] + g[T \ {Some(T)}]
      /\ h[T] = IF T = {} THEN 0 ELSE f[Some(T)] + h[T \ {Some(T)}]
  BY DEF Sums
<1>3. T # {}
  BY <1>2
<1>4. Some(T) \in T
  BY <1>3 DEF Some
<1>5. T \ {Some(T)} \in SUBSET S /\ T \ {Some(T)} \notin C
  BY <1>1, <1>4
<1> QED
  BY <1>2, <1>3, <1>5

(* The sum takes first what CHOOSE takes, *)
LEMMA SumUnfolds ==
  ASSUME NEW f, NEW S, IsFiniteSet(S)
  PROVE  \A T \in SUBSET S :
           SumFunctionOnSet(f, T) =
             IF T = {} THEN 0 ELSE f[Some(T)] + SumFunctionOnSet(f, T \ {Some(T)})
<1> DEFINE Unfolds(T) ==
             SumFunctionOnSet(f, T) =
               IF T = {} THEN 0 ELSE f[Some(T)] + SumFunctionOnSet(f, T \ {Some(T)})
           C == {T \in SUBSET S : ~Unfolds(T)}
<1> SUFFICES ASSUME C # {} PROVE FALSE
  OBVIOUS
<1>1. PICK T \in C : \A U \in C : U \subseteq T => U = T
  <2>1. C \in SUBSET (SUBSET S)
    OBVIOUS
  <2> HIDE DEF C
  <2> QED
    BY <2>1, LeastSet
<1>2. T \in SUBSET S /\ ~Unfolds(T) /\ \A U \in SUBSET T : U # T => Unfolds(U)
  BY <1>1
<1> DEFINE g == [U \in SUBSET T |->
                   IF U = {} THEN 0 ELSE f[Some(U)] + SumFunctionOnSet(f, U \ {Some(U)})]
<1>3. \A U \in SUBSET T : U # {} => Some(U) \in U
  BY DEF Some
<1>4. \A U \in SUBSET T : U # T => g[U] = SumFunctionOnSet(f, U)
  BY <1>2
<1>5. \A U \in SUBSET T : U # {} =>
        /\ U \ {Some(U)} \in SUBSET T
        /\ g[U \ {Some(U)}] = SumFunctionOnSet(f, U \ {Some(U)})
  BY <1>3, <1>4
<1>6. Sums(f, T, g)
  BY <1>5 DEF Sums
<1> HIDE DEF g
<1>7. PICK h : Sums(f, T, h) /\ SumFunctionOnSet(f, T) = h[T]
  BY <1>6, SumChosen
<1>8. IsFiniteSet(T)
  BY <1>2, FS_Subset
<1>9. g[T] = h[T]
  BY <1>6, <1>7, <1>8, SumsUnique
<1>10. g[T] = IF T = {} THEN 0 ELSE f[Some(T)] + SumFunctionOnSet(f, T \ {Some(T)})
  BY DEF g
<1> QED
  BY <1>2, <1>7, <1>9, <1>10

LEMMA SumStarts ==
  ASSUME NEW f, NEW S, IsFiniteSet(S)
  PROVE  /\ SumFunctionOnSet(f, {}) = 0
         /\ S # {} => /\ Some(S) \in S
                      /\ SumFunctionOnSet(f, S) =
                           f[Some(S)] + SumFunctionOnSet(f, S \ {Some(S)})
<1>1. S # {} => Some(S) \in S
  BY DEF Some
<1> QED
  BY <1>1, SumUnfolds

(* A sum of integers is one. *)
LEMMA SumInt ==
  ASSUME NEW S, IsFiniteSet(S), NEW f, \A x \in S : f[x] \in Int
  PROVE  \A T \in SUBSET S : SumFunctionOnSet(f, T) \in Int
<1> DEFINE C == {T \in SUBSET S : SumFunctionOnSet(f, T) \notin Int}
<1> SUFFICES ASSUME C # {} PROVE FALSE
  OBVIOUS
<1>1. PICK T \in C : \A U \in C : U \subseteq T => U = T
  <2>1. C \in SUBSET (SUBSET S)
    OBVIOUS
  <2> HIDE DEF C
  <2> QED
    BY <2>1, LeastSet
<1>2. T \in SUBSET S /\ IsFiniteSet(T) /\ SumFunctionOnSet(f, T) \notin Int
  BY <1>1, FS_Subset
<1>3. /\ T # {} /\ Some(T) \in T
      /\ SumFunctionOnSet(f, T) = f[Some(T)] + SumFunctionOnSet(f, T \ {Some(T)})
  BY <1>2, SumStarts
<1>4. SumFunctionOnSet(f, T \ {Some(T)}) \in Int
  BY <1>1, <1>3
<1> QED
  BY <1>2, <1>3, <1>4

(* and any entry may be taken first. *)
LEMMA SumTakes ==
  ASSUME NEW S, IsFiniteSet(S), NEW f, \A x \in S : f[x] \in Int, NEW x \in S
  PROVE  SumFunctionOnSet(f, S) = f[x] + SumFunctionOnSet(f, S \ {x})
<1> DEFINE Takes(T, y) == SumFunctionOnSet(f, T) = f[y] + SumFunctionOnSet(f, T \ {y})
           C == {T \in SUBSET S : \E y \in T : ~Takes(T, y)}
<1> SUFFICES ASSUME C # {} PROVE FALSE
  OBVIOUS
<1>1. PICK T \in C : \A U \in C : U \subseteq T => U = T
  <2>1. C \in SUBSET (SUBSET S)
    OBVIOUS
  <2> HIDE DEF C
  <2> QED
    BY <2>1, LeastSet
<1>2. PICK y \in T : ~Takes(T, y)
  BY <1>1
<1>3. T \in SUBSET S /\ IsFiniteSet(T) /\ y \in S
  BY <1>1, <1>2, FS_Subset
<1> DEFINE z == Some(T)
<1>4. z \in T /\ SumFunctionOnSet(f, T) = f[z] + SumFunctionOnSet(f, T \ {z})
  BY <1>2, <1>3, SumStarts
<1> HIDE DEF z
<1>5. z # y
  BY <1>2, <1>4
<1>6. \A U \in SUBSET T : U # T => \A u \in U : Takes(U, u)
  BY <1>1
<1>7. Takes(T \ {z}, y) /\ Takes(T \ {y}, z)
  BY <1>2, <1>4, <1>5, <1>6
<1>8. (T \ {z}) \ {y} = (T \ {y}) \ {z}
  OBVIOUS
<1>9. /\ f[y] \in Int /\ f[z] \in Int
      /\ SumFunctionOnSet(f, (T \ {y}) \ {z}) \in Int
  <2>1. (T \ {y}) \ {z} \in SUBSET S
    BY <1>3
  <2> QED
    BY <1>3, <1>4, <2>1, SumInt
<1>10. SumFunctionOnSet(f, T) = f[y] + SumFunctionOnSet(f, T \ {y})
  BY <1>4, <1>7, <1>8, <1>9
<1> QED
  BY <1>2, <1>10

(* Equal entries have equal sums. *)
LEMMA SumSame ==
  ASSUME NEW S, IsFiniteSet(S), NEW f, NEW g, \A x \in S : f[x] = g[x]
  PROVE  SumFunctionOnSet(f, S) = SumFunctionOnSet(g, S)
<1> DEFINE C == {T \in SUBSET S : SumFunctionOnSet(f, T) # SumFunctionOnSet(g, T)}
<1> SUFFICES ASSUME C # {} PROVE FALSE
  OBVIOUS
<1>1. PICK T \in C : \A U \in C : U \subseteq T => U = T
  <2>1. C \in SUBSET (SUBSET S)
    OBVIOUS
  <2> HIDE DEF C
  <2> QED
    BY <2>1, LeastSet
<1>2. T \in SUBSET S /\ IsFiniteSet(T) /\ SumFunctionOnSet(f, T) # SumFunctionOnSet(g, T)
  BY <1>1, FS_Subset
<1>3. /\ T # {} /\ Some(T) \in T
      /\ SumFunctionOnSet(f, T) = f[Some(T)] + SumFunctionOnSet(f, T \ {Some(T)})
      /\ SumFunctionOnSet(g, T) = g[Some(T)] + SumFunctionOnSet(g, T \ {Some(T)})
  BY <1>2, SumStarts
<1>4. SumFunctionOnSet(f, T \ {Some(T)}) = SumFunctionOnSet(g, T \ {Some(T)})
  BY <1>1, <1>3
<1> QED
  BY <1>2, <1>3, <1>4

(* One entry changes the sum by its own change. *)
LEMMA SumMoves ==
  ASSUME NEW S, IsFiniteSet(S), NEW f, NEW g, NEW x,
         \A y \in S : f[y] \in Int /\ g[y] \in Int,
         \A y \in S \ {x} : f[y] = g[y]
  PROVE  SumFunctionOnSet(g, S) =
           SumFunctionOnSet(f, S) + (IF x \in S THEN g[x] - f[x] ELSE 0)
<1>1. CASE x \notin S
  <2>1. SumFunctionOnSet(f, S) = SumFunctionOnSet(g, S) /\ SumFunctionOnSet(f, S) \in Int
    BY <1>1, SumSame, SumInt
  <2> QED
    BY <1>1, <2>1
<1>2. CASE x \in S
  <2>1. /\ SumFunctionOnSet(f, S) = f[x] + SumFunctionOnSet(f, S \ {x})
        /\ SumFunctionOnSet(g, S) = g[x] + SumFunctionOnSet(g, S \ {x})
    BY <1>2, SumTakes
  <2>2. IsFiniteSet(S \ {x})
    BY FS_Subset
  <2>3. SumFunctionOnSet(f, S \ {x}) = SumFunctionOnSet(g, S \ {x})
    BY <2>2, SumSame
  <2>4. f[x] \in Int /\ g[x] \in Int /\ SumFunctionOnSet(f, S \ {x}) \in Int
    BY <1>2, SumInt
  <2> QED
    BY <1>2, <2>1, <2>3, <2>4
<1> QED
  BY <1>1, <1>2

(* A sum of natural numbers is one, and none of them exceeds it. *)
LEMMA SumBounds ==
  ASSUME NEW S, IsFiniteSet(S), NEW f, \A x \in S : f[x] \in Nat
  PROVE  /\ SumFunctionOnSet(f, S) \in Nat
         /\ \A x \in S : f[x] <= SumFunctionOnSet(f, S)
<1>1. \A x \in S : f[x] \in Int
  OBVIOUS
<1>2. \A T \in SUBSET S : SumFunctionOnSet(f, T) \in Nat
  <2> DEFINE C == {T \in SUBSET S : SumFunctionOnSet(f, T) \notin Nat}
  <2> SUFFICES ASSUME C # {} PROVE FALSE
    OBVIOUS
  <2>1. PICK T \in C : \A U \in C : U \subseteq T => U = T
    <3>1. C \in SUBSET (SUBSET S)
      OBVIOUS
    <3> HIDE DEF C
    <3> QED
      BY <3>1, LeastSet
  <2>2. T \in SUBSET S /\ IsFiniteSet(T) /\ SumFunctionOnSet(f, T) \notin Nat
    BY <2>1, FS_Subset
  <2>3. SumFunctionOnSet(f, {}) = 0
    BY <2>2, SumStarts
  <2>4. /\ Some(T) \in T
        /\ SumFunctionOnSet(f, T) = f[Some(T)] + SumFunctionOnSet(f, T \ {Some(T)})
    <3>1. T # {}
      BY <2>2, <2>3
    <3> QED
      BY <2>2, <3>1, SumStarts
  <2>5. SumFunctionOnSet(f, T \ {Some(T)}) \in Nat
    BY <2>1, <2>4
  <2>6. f[Some(T)] \in Nat
    BY <2>2, <2>4
  <2> QED
    BY <2>2, <2>4, <2>5, <2>6
<1>3. ASSUME NEW x \in S PROVE f[x] <= SumFunctionOnSet(f, S)
  <2>1. SumFunctionOnSet(f, S) = f[x] + SumFunctionOnSet(f, S \ {x})
    BY <1>1, SumTakes
  <2>2. f[x] \in Nat /\ SumFunctionOnSet(f, S \ {x}) \in Nat
    BY <1>2
  <2> QED
    BY <2>1, <2>2
<1> QED
  BY <1>2, <1>3

(* Nothing adds up to nothing. *)
LEMMA SumZero ==
  ASSUME NEW S, IsFiniteSet(S), NEW f, \A x \in S : f[x] = 0
  PROVE  SumFunctionOnSet(f, S) = 0
<1> DEFINE C == {T \in SUBSET S : SumFunctionOnSet(f, T) # 0}
<1> SUFFICES ASSUME C # {} PROVE FALSE
  OBVIOUS
<1>1. PICK T \in C : \A U \in C : U \subseteq T => U = T
  <2>1. C \in SUBSET (SUBSET S)
    OBVIOUS
  <2> HIDE DEF C
  <2> QED
    BY <2>1, LeastSet
<1>2. T \in SUBSET S /\ IsFiniteSet(T) /\ SumFunctionOnSet(f, T) # 0
  BY <1>1, FS_Subset
<1>3. /\ T # {} /\ Some(T) \in T
      /\ SumFunctionOnSet(f, T) = f[Some(T)] + SumFunctionOnSet(f, T \ {Some(T)})
  BY <1>2, SumStarts
<1>4. SumFunctionOnSet(f, T \ {Some(T)}) = 0 /\ f[Some(T)] = 0
  BY <1>1, <1>2, <1>3
<1> QED
  BY <1>2, <1>3, <1>4

-----------------------------------------------------------------------------
(* Totals                                                                  *)

(* Where the count of an object goes on, and what is on its way to one. *)
Up(o) == IF flags.prop THEN at[o] ELSE Top
Arriving(o) == IF call # None /\ call.o = o THEN call.n ELSE 0

(* The totals add up at every level of a climb, *)
AddsUp ==
  \A o \in Objs :
    obj.total[o] + Arriving(o) = obj.src[o] + SumFunctionOnSet(Share, Children(o))

(* what is not zero has its key, *)
Keyed ==
  \A o \in Objs : /\ obj.total[o] > 0 => o \in obj.tots
                  /\ obj.src[o] > 0 => o \in obj.srcs

(* the top is over only while nothing is raised or on its way up, *)
TopQuiet == flags.top => obj.total[Top] = 0 /\ (call # None => call.n < 0)

(* and a sequence is below the top until it is below its sequencer. *)
Placed == \A o \in Objs : at[o] \in {Parent[o], Top}

AInv == IInv /\ AddsUp /\ Keyed /\ TopQuiet /\ Placed

(* A sequence gets its sequencer while nothing is raised or drained for it. *)
Moved == \A q \in Movers : at'[q] # at[q] => obj.total[q] = 0 /\ Draining(ctx, q) = {}
QuietMoves == [][Moved]_vars

(* The types and the drains after a step. *)
LEMMA UnfoldedNext ==
  ASSUME IInv'
  PROVE  obj' \in CountsType /\ ctx' \in ContextsType /\ IdleIn(ctx', obj')
BY DEF IInv, TypeOK, DrainIsIdle, IdleIn, CountsType, ContextsType

LEMMA SharesType ==
  ASSUME NEW b \in CountsType, NEW c \in ContextsType
  PROVE  [o \in Objs |-> b.total[o] + Pending(c, o)] \in [Objs -> Nat]
<1> SUFFICES ASSUME NEW o \in Objs PROVE b.total[o] + Pending(c, o) \in Nat
  OBVIOUS
<1>1. b.total[o] \in Nat
  BY DEF CountsType
<1>2. Pending(c, o) \in Nat
  BY PendingType
<1> QED
  BY <1>1, <1>2

LEMMA ShareTypes ==
  /\ IInv => Share \in [Objs -> Nat]
  /\ IInv' => Share' \in [Objs -> Nat]
<1>1. IInv => Share \in [Objs -> Nat]
  BY Unfolded, SharesType DEF Share
<1>2. IInv' => Share' \in [Objs -> Nat]
  BY UnfoldedNext, SharesType DEF Share
<1> QED
  BY <1>1, <1>2

LEMMA ChildrenFinite == \A o : Children(o) \in SUBSET Objs /\ IsFiniteSet(Children(o))
<1> SUFFICES ASSUME NEW o PROVE Children(o) \in SUBSET Objs /\ IsFiniteSet(Children(o))
  OBVIOUS
<1>1. Children(o) \in SUBSET Objs
  BY DEF Children
<1>2. IsFiniteSet(Objs)
  BY ObjAssumption DEF ObjAssumption
<1> QED
  BY <1>1, <1>2, FS_Subset

LEMMA ChildOf ==
  ASSUME ObjAssumption, NEW o \in Objs, NEW x \in Objs
  PROVE  o \in Children(x) <=> o # Top /\ Up(o) = x
BY DEF Children, Up, ObjAssumption

LEMMA OneContext ==
  ASSUME NEW c, NEW b, IdleIn(c, b)
  PROVE  \A x, y \in Contexts(c) : x.o = y.o => x = y
<1>1. /\ \A x, y \in Held(c.sched) : x.o = y.o => x = y
      /\ \A x, y \in Held(c.forked) : x.o = y.o => x = y
  BY DEF IdleIn, Distinct, Held
<1> QED
  BY <1>1 DEF IdleIn, Apart, Contexts

LEMMA PendingIs ==
  ASSUME NEW c, NEW b, IdleIn(c, b), NEW o
  PROVE  /\ \A x \in Contexts(c) : x.o = o => Pending(c, o) = x.n
         /\ (\A x \in Contexts(c) : x.o # o) => Pending(c, o) = 0
<1>1. ASSUME NEW x \in Contexts(c), x.o = o PROVE Pending(c, o) = x.n
  <2>1. Draining(c, o) = {x}
    BY <1>1, OneContext DEF Draining
  <2> QED
    BY <2>1 DEF Pending
<1>2. (\A x \in Contexts(c) : x.o # o) => Pending(c, o) = 0
  BY DEF Draining, Pending
<1> QED
  BY <1>1, <1>2

LEMMA PendingSame ==
  ASSUME NEW c, NEW b, IdleIn(c, b), NEW d, NEW e, IdleIn(d, e), NEW o,
         \A n : <<o, n>> \in Waits(c) <=> <<o, n>> \in Waits(d)
  PROVE  Pending(c, o) = Pending(d, o)
<1>1. CASE \E x \in Contexts(c) : x.o = o
  <2>1. PICK x \in Contexts(c) : x.o = o
    BY <1>1
  <2>2. <<o, x.n>> \in Waits(c)
    BY <2>1 DEF Waits
  <2>3. PICK y \in Contexts(d) : y.o = o /\ y.n = x.n
    BY <2>2 DEF Waits
  <2> QED
    BY <2>1, <2>3, PendingIs
<1>2. CASE \A x \in Contexts(c) : x.o # o
  <2>1. ASSUME NEW y \in Contexts(d), y.o = o PROVE FALSE
    <3>1. <<o, y.n>> \in Waits(d)
      BY <2>1 DEF Waits
    <3> QED
      BY <1>2, <3>1 DEF Waits
  <2> QED
    BY <1>2, <2>1, PendingIs
<1> QED
  BY <1>1, <1>2

(* A call that moves up one level takes along what changed at this one. *)
LEMMA ClimbKeeps ==
  ASSUME IInv, IInv', AddsUp, NEW o \in Objs, NEW k \in Int,
         at' = at, flags'.prop = flags.prop, call' = Climb(o, k),
         Share'[o] = Share[o] + k, \A x \in Objs \ {o} : Share'[x] = Share[x],
         \A x \in Objs : obj'.total[x] - obj'.src[x]
                           = obj.total[x] + Arriving(x) - obj.src[x]
  PROVE  AddsUp'
<1> SUFFICES ASSUME NEW x \in Objs
             PROVE  obj'.total[x] + Arriving(x)'
                      = obj'.src[x] + SumFunctionOnSet(Share', Children(x)')
  BY DEF AddsUp
<1>1. Children(x)' = Children(x)
  BY DEF Children
<1>2. Share \in [Objs -> Nat] /\ Share' \in [Objs -> Nat]
  BY ShareTypes
<1>3. SumFunctionOnSet(Share', Children(x))
        = SumFunctionOnSet(Share, Children(x)) + (IF o \in Children(x) THEN k ELSE 0)
  <2>1. IsFiniteSet(Children(x)) /\ Children(x) \in SUBSET Objs
    BY ChildrenFinite
  <2> DEFINE S == Children(x)
             f == Share
             g == Share'
  <2>2. /\ \A y \in S : f[y] \in Int /\ g[y] \in Int
        /\ \A y \in S \ {o} : f[y] = g[y]
    BY <1>2, <2>1
  <2>3. o \in S => g[o] - f[o] = k
    BY <1>2
  <2>4. IsFiniteSet(S)
    BY <2>1
  <2> HIDE DEF S, f, g
  <2>5. SumFunctionOnSet(g, S) = SumFunctionOnSet(f, S) + (IF o \in S THEN g[o] - f[o] ELSE 0)
    BY <2>2, <2>4, SumMoves
  <2> QED
    BY <2>3, <2>5 DEF S, f, g
<1>4. Up(o) \in Objs
  BY Unfolded, ObjAssumption DEF Up, ObjAssumption
<1>5. Arriving(x)' = IF o # Top /\ Up(o) = x THEN k ELSE 0
  <2>1. CASE o = Top \/ k = 0
    <3>1. call' = None
      BY <2>1 DEF Climb
    <3> QED
      BY <2>1, <3>1 DEF Arriving
  <2>2. CASE ~(o = Top \/ k = 0)
    <3>1. call' = [o |-> Up(o), n |-> k]
      BY <2>2 DEF Climb, Up
    <3>2. call' \in [o : Objs, n : Int]
      BY <1>4, <3>1
    <3>3. call' # None /\ call'.o = Up(o) /\ call'.n = k
      BY <3>1, <3>2, ObjAssumption DEF ObjAssumption
    <3> QED
      BY <2>2, <3>3 DEF Arriving
  <2> QED
    BY <2>1, <2>2
<1>6. o \in Children(x) <=> o # Top /\ Up(o) = x
  BY ChildOf, ObjAssumption
<1>7. obj.total[x] + Arriving(x) = obj.src[x] + SumFunctionOnSet(Share, Children(x))
  BY DEF AddsUp
<1>8. /\ obj.total[x] \in Int /\ obj.src[x] \in Int
      /\ obj'.total[x] \in Int /\ obj'.src[x] \in Int
  BY Unfolded, UnfoldedNext DEF CountsType
<1>9. Arriving(x) \in Int
  BY Unfolded DEF Arriving
<1>10. SumFunctionOnSet(Share, Children(x)) \in Int
  <2>1. IsFiniteSet(Children(x)) /\ Children(x) \in SUBSET Objs
    BY ChildrenFinite
  <2>2. \A y \in Children(x) : Share[y] \in Int
    BY <1>2, <2>1
  <2> QED
    BY <2>1, <2>2, SumInt
<1>11. obj'.total[x] - obj'.src[x] = SumFunctionOnSet(Share, Children(x))
  BY <1>7, <1>8, <1>9, <1>10
<1>12. obj'.total[x] + Arriving(x)' - obj'.src[x]
         = SumFunctionOnSet(Share, Children(x)) + Arriving(x)'
  BY <1>5, <1>8, <1>10, <1>11
<1>13. SumFunctionOnSet(Share', Children(x)) = SumFunctionOnSet(Share, Children(x)) + Arriving(x)'
  BY <1>3, <1>5, <1>6
<1> QED
  BY <1>1, <1>5, <1>8, <1>10, <1>12, <1>13

(* Steps that count nothing. *)
LEMMA SameSums ==
  ASSUME AddsUp, Share' = Share, at' = at, flags'.prop = flags.prop, call' = call,
         obj'.total = obj.total, obj'.src = obj.src
  PROVE  AddsUp'
<1>1. \A x : Children(x)' = Children(x) /\ Arriving(x)' = Arriving(x)
  BY DEF Children, Arriving
<1> QED
  BY <1>1 DEF AddsUp

(* The share of an object from its total and what waits. *)
LEMMA ShareIs ==
  \A x \in Objs : /\ Share[x] = obj.total[x] + Pending(ctx, x)
                  /\ Share'[x] = obj'.total[x] + Pending(ctx', x)
BY DEF Share

LEMMA RaiseAdds ==
  ASSUME IInv, IInv', AddsUp, at' = at, flags'.prop = flags.prop,
         NEW STATE b, b \in CountsType, NEW o \in Objs, NEW n \in Nat \ {0}, NEW m \in Nat,
         \A x \in Objs : /\ b.total[x] = obj.total[x]
                         /\ b.src[x] = obj.src[x] + (IF x = o THEN m ELSE 0)
                         /\ Arriving(x) = IF x = o THEN n - m ELSE 0,
         RaiseAt(b, o, n)
  PROVE  AddsUp'
<1>1. /\ ctx \in ContextsType /\ IdleIn(ctx, obj) /\ IdleIn(ctx', obj')
      /\ obj \in CountsType /\ ctx' \in ContextsType
  BY Unfolded, UnfoldedNext
<1>2. /\ ctx' = Without(ctx, o) /\ call' = Climb(o, n - Pending(ctx, o))
      /\ obj' = [b EXCEPT !.total[o] = @ + n, !.tots = @ \cup {o}]
  BY DEF RaiseAt
<1>3. /\ obj'.total[o] = obj.total[o] + n
      /\ \A x \in Objs \ {o} : obj'.total[x] = obj.total[x]
      /\ obj'.src = b.src
  BY <1>1, <1>2 DEF CountsType
<1>4. Contexts(ctx') = {x \in Contexts(ctx) : x.o # o}
  <2>1. ctx \in ContextsType /\ IdleIn(ctx, obj)
    BY <1>1
  <2>2. /\ Without(ctx, o) \in ContextsType /\ IdleIn(Without(ctx, o), obj)
        /\ Contexts(Without(ctx, o)) = {x \in Contexts(ctx) : x.o # o}
    BY <2>1, WithoutContexts
  <2> QED
    BY <1>2, <2>2
<1>5. Pending(ctx, o) \in Nat /\ Pending(ctx', o) = 0
  BY <1>1, <1>4, PendingType, PendingIs
<1>6. \A x \in Objs \ {o} : Pending(ctx', x) = Pending(ctx, x)
  <2> SUFFICES ASSUME NEW x \in Objs \ {o} PROVE Pending(ctx', x) = Pending(ctx, x)
    OBVIOUS
  <2>1. \A k : <<x, k>> \in Waits(ctx') <=> <<x, k>> \in Waits(ctx)
    BY <1>4 DEF Waits
  <2> QED
    BY <1>1, <2>1, PendingSame
<1> DEFINE k == n - Pending(ctx, o)
<1>7. /\ k \in Int /\ Share'[o] = Share[o] + k
      /\ \A x \in Objs \ {o} : Share'[x] = Share[x]
  <2>1. obj.total[o] \in Nat
    BY <1>1 DEF CountsType
  <2> QED
    BY <1>3, <1>5, <1>6, <2>1, ShareIs
<1>8. \A x \in Objs : obj'.total[x] - obj'.src[x]
                        = obj.total[x] + Arriving(x) - obj.src[x]
  <2> SUFFICES ASSUME NEW x \in Objs
               PROVE  obj'.total[x] - obj'.src[x] = obj.total[x] + Arriving(x) - obj.src[x]
    OBVIOUS
  <2>1. obj.total[x] \in Nat /\ obj.src[x] \in Nat
    BY <1>1 DEF CountsType
  <2> QED
    BY <1>3, <2>1
<1> QED
  BY <1>2, <1>7, <1>8, ClimbKeeps

LEMMA DropAdds ==
  ASSUME IInv, IInv', AddsUp, at' = at, flags'.prop = flags.prop,
         NEW STATE b, b \in CountsType, NEW o \in Objs, NEW n \in Nat \ {0}, NEW m \in Nat,
         \A x \in Objs : /\ b.total[x] = obj.total[x]
                         /\ b.src[x] = obj.src[x] - (IF x = o THEN m ELSE 0)
                         /\ Arriving(x) = IF x = o THEN m - n ELSE 0,
         NEW e, DropAt(b, o, n, e), ~(o \notin obj.tots \/ n > obj.total[o] \/ ~e)
  PROVE  AddsUp'
<1>1. /\ ctx \in ContextsType /\ IdleIn(ctx, obj) /\ IdleIn(ctx', obj')
      /\ obj \in CountsType /\ obj.total[o] \in Nat /\ n <= obj.total[o]
  BY Unfolded, UnfoldedNext DEF CountsType
<1>2. /\ obj' = [b EXCEPT !.total[o] = @ - n]
      /\ IF obj.total[o] = n
         THEN /\ ctx' = [ctx EXCEPT !.sched = Append(@, [o |-> o, n |-> n])]
              /\ call' = None
         ELSE call' = Climb(o, -n) /\ ctx' = ctx
  BY DEF DropAt
<1>3. /\ obj'.total[o] = obj.total[o] - n
      /\ \A x \in Objs \ {o} : obj'.total[x] = obj.total[x]
      /\ obj'.src = b.src
  BY <1>1, <1>2 DEF CountsType
<1>4. \A x \in Contexts(ctx) : x.o # o
  <2>1. obj.total[o] # 0
    BY <1>1
  <2> QED
    BY <1>1, <2>1 DEF IdleIn
<1>5. Pending(ctx, o) = 0
  BY <1>1, <1>4, PendingIs
<1>6. \A x \in Objs : obj'.total[x] - obj'.src[x]
                        = obj.total[x] + Arriving(x) - obj.src[x]
  <2> SUFFICES ASSUME NEW x \in Objs
               PROVE  obj'.total[x] - obj'.src[x] = obj.total[x] + Arriving(x) - obj.src[x]
    OBVIOUS
  <2>1. obj.total[x] \in Nat /\ obj.src[x] \in Nat
    BY <1>1 DEF CountsType
  <2> QED
    BY <1>3, <2>1
<1>7. CASE obj.total[o] = n
  <2> DEFINE w == [o |-> o, n |-> n]
  <2>1. /\ w \in Context /\ ctx.sched \in Seq(Context)
        /\ Distinct(ctx.sched) /\ \A y \in Held(ctx.sched) : y.o # w.o
    BY <1>1, <1>4 DEF Context, ContextsType, IdleIn, Contexts
  <2>2. Held(Append(ctx.sched, w)) = Held(ctx.sched) \cup {w}
    <3> HIDE DEF w
    <3> QED
      BY <2>1, AppendHeld
  <2>3. /\ ctx'.sched = Append(ctx.sched, w) /\ ctx'.forked = ctx.forked
        /\ ctx'.drain = ctx.drain
    BY <1>1, <1>2, <1>7 DEF ContextsType
  <2>4. Contexts(ctx') = Contexts(ctx) \cup {w}
    BY <2>2, <2>3 DEF Contexts
  <2>5. Pending(ctx', o) = n
    <3>1. w.o = o /\ w.n = n /\ w \in Contexts(ctx')
      BY <2>4
    <3> HIDE DEF w
    <3> QED
      BY <1>1, <3>1, PendingIs
  <2>6. \A x \in Objs \ {o} : Pending(ctx', x) = Pending(ctx, x)
    <3> SUFFICES ASSUME NEW x \in Objs \ {o} PROVE Pending(ctx', x) = Pending(ctx, x)
      OBVIOUS
    <3>1. \A k : <<x, k>> \in Waits(ctx') <=> <<x, k>> \in Waits(ctx)
      BY <2>4 DEF Waits
    <3> QED
      BY <1>1, <3>1, PendingSame
  <2>7. Share'[o] = Share[o] + 0 /\ \A x \in Objs \ {o} : Share'[x] = Share[x]
    BY <1>1, <1>3, <1>5, <1>7, <2>5, <2>6, ShareIs
  <2>8. call' = Climb(o, 0)
    BY <1>2, <1>7 DEF Climb
  <2> QED
    BY <1>6, <2>7, <2>8, ClimbKeeps
<1>8. CASE obj.total[o] # n
  <2>1. ctx' = ctx /\ call' = Climb(o, -n) /\ -n \in Int
    BY <1>2, <1>8
  <2>2. Share'[o] = Share[o] + (-n) /\ \A x \in Objs \ {o} : Share'[x] = Share[x]
    BY <1>1, <1>3, <1>5, <2>1, ShareIs
  <2> QED
    BY <1>6, <2>1, <2>2, ClimbKeeps
<1> QED
  BY <1>7, <1>8

(* The drains wait for the same as before. *)
LEMMA SharesKeep ==
  ASSUME IInv, IInv', Waits(ctx') = Waits(ctx), obj'.total = obj.total
  PROVE  Share' = Share
<1>1. IdleIn(ctx, obj) /\ IdleIn(ctx', obj')
  BY Unfolded, UnfoldedNext
<1>2. ASSUME NEW c \in Objs PROVE Pending(ctx', c) = Pending(ctx, c)
  <2>1. \A k : <<c, k>> \in Waits(ctx') <=> <<c, k>> \in Waits(ctx)
    OBVIOUS
  <2> QED
    BY <1>1, <2>1, PendingSame
<1> QED
  BY <1>2 DEF Share

(* A drain that ends takes its count to the parent. *)
LEMMA AllDroppedAdds ==
  ASSUME NEW d \in ctx.drain, IInv, IInv', AddsUp, AllDropped(d)
  PROVE  AddsUp'
<1> DEFINE o == d.o
           k == -d.n
<1>1. /\ IdleIn(ctx, obj) /\ IdleIn(ctx', obj') /\ ctx \in ContextsType
      /\ obj \in CountsType
  BY Unfolded, UnfoldedNext
<1>2. d \in Contexts(ctx) /\ o \in Objs /\ k \in Int /\ d.n \in Nat
  <2>1. d \in Contexts(ctx)
    BY DEF Contexts
  <2> QED
    BY <1>1, <2>1, ContextFields
<1>3. Contexts(ctx') = {x \in Contexts(ctx) : x.o # o}
  BY AllDroppedInv
<1>4. Pending(ctx, o) = d.n /\ Pending(ctx', o) = 0
  BY <1>1, <1>2, <1>3, PendingIs
<1>5. ASSUME NEW x \in Objs \ {o} PROVE Pending(ctx', x) = Pending(ctx, x)
  <2>1. \A i : <<x, i>> \in Waits(ctx') <=> <<x, i>> \in Waits(ctx)
    BY <1>3 DEF Waits
  <2> QED
    BY <1>1, <2>1, PendingSame
<1>6. /\ obj'.total = obj.total /\ obj'.src = obj.src
      /\ at' = at /\ flags'.prop = flags.prop /\ call = None /\ call' = Climb(o, k)
  BY <1>1, Unfolded DEF AllDropped, Idle, CountsType
<1> HIDE DEF o, k
<1>7. Share'[o] = Share[o] + k /\ \A x \in Objs \ {o} : Share'[x] = Share[x]
  <2>1. obj.total[o] \in Nat
    BY <1>1, <1>2 DEF CountsType
  <2> QED
    BY <1>2, <1>4, <1>5, <1>6, <2>1, ShareIs DEF k
<1>8. \A x \in Objs : obj'.total[x] - obj'.src[x]
                        = obj.total[x] + Arriving(x) - obj.src[x]
  <2> SUFFICES ASSUME NEW x \in Objs
               PROVE  obj'.total[x] - obj'.src[x] = obj.total[x] + Arriving(x) - obj.src[x]
    OBVIOUS
  <2>1. obj.total[x] \in Nat /\ obj.src[x] \in Nat
    BY <1>1 DEF CountsType
  <2> QED
    BY <1>6, <2>1 DEF Arriving
<1> QED
  BY <1>2, <1>6, <1>7, <1>8, ClimbKeeps

LEMMA ClearAdds ==
  ASSUME IInv, IInv', Clear
  PROVE  AddsUp'
<1>1. /\ obj'.src = [o \in Objs |-> 0] /\ obj'.total = [o \in Objs |-> 0]
      /\ call = None /\ call' = call
  BY DEF Clear, Idle
<1>2. Contexts(ctx') = {}
  <2>1. ctx'.sched = <<>> /\ ctx'.forked = <<>> /\ ctx'.drain = {}
    BY Unfolded DEF Clear, ContextsType
  <2> QED
    BY <2>1 DEF Contexts, Held
<1>3. \A c \in Objs : Share'[c] = 0
  BY <1>1, <1>2 DEF Share, Pending, Draining
<1> SUFFICES ASSUME NEW o \in Objs
             PROVE  obj'.total[o] + Arriving(o)'
                      = obj'.src[o] + SumFunctionOnSet(Share', Children(o)')
  BY DEF AddsUp
<1>4. /\ Children(o)' \in SUBSET Objs /\ IsFiniteSet(Children(o)')
  <2>1. Children(o)' \in SUBSET Objs
    BY DEF Children
  <2> QED
    BY <2>1, FS_Subset, ObjAssumption DEF ObjAssumption
<1>5. SumFunctionOnSet(Share', Children(o)') = 0
  BY <1>3, <1>4, SumZero
<1>6. Arriving(o)' = 0
  BY <1>1 DEF Arriving
<1> QED
  BY <1>1, <1>5, <1>6

(* Under a total of zero nothing is raised and nothing drains. *)
LEMMA ZeroBelow ==
  ASSUME IInv, AddsUp, call = None, NEW x \in Objs, obj.total[x] = 0
  PROVE  /\ obj.src[x] = 0
         /\ \A c \in Children(x) :
              /\ Share[c] = 0 /\ obj.total[c] = 0 /\ obj.src[c] = 0
              /\ Draining(ctx, c) = {}
<1>1. obj \in CountsType /\ ctx \in ContextsType /\ IdleIn(ctx, obj)
  BY Unfolded
<1>2. \A y \in Objs : /\ Children(y) \in SUBSET Objs /\ IsFiniteSet(Children(y))
                      /\ \A c \in Children(y) : Share[c] \in Nat
  BY ChildrenFinite, ShareTypes
<1>3. \A y \in Objs : /\ SumFunctionOnSet(Share, Children(y)) \in Nat
                      /\ \A c \in Children(y) :
                           Share[c] <= SumFunctionOnSet(Share, Children(y))
  <2> SUFFICES ASSUME NEW y \in Objs
               PROVE  /\ SumFunctionOnSet(Share, Children(y)) \in Nat
                      /\ \A c \in Children(y) :
                           Share[c] <= SumFunctionOnSet(Share, Children(y))
    OBVIOUS
  <2> DEFINE S == Children(y)
             f == Share
  <2>1. IsFiniteSet(S) /\ \A c \in S : f[c] \in Nat
    BY <1>2
  <2> HIDE DEF S, f
  <2>2. SumFunctionOnSet(f, S) \in Nat /\ \A c \in S : f[c] <= SumFunctionOnSet(f, S)
    BY <2>1, SumBounds
  <2> QED
    BY <2>2 DEF S, f
<1>4. \A y \in Objs : /\ obj.total[y] \in Nat /\ obj.src[y] \in Nat
                      /\ obj.total[y] = obj.src[y] + SumFunctionOnSet(Share, Children(y))
  <2>1. ASSUME NEW y \in Objs
        PROVE  /\ obj.total[y] \in Nat /\ obj.src[y] \in Nat
               /\ obj.total[y] = obj.src[y] + SumFunctionOnSet(Share, Children(y))
    <3>1. obj.total[y] \in Nat /\ obj.src[y] \in Nat
      BY <1>1 DEF CountsType
    <3>2. obj.total[y] + Arriving(y) = obj.src[y] + SumFunctionOnSet(Share, Children(y))
      BY DEF AddsUp
    <3>3. Arriving(y) = 0
      BY DEF Arriving
    <3> QED
      BY <3>1, <3>2, <3>3
  <2> QED
    BY <2>1
<1>5. obj.src[x] = 0 /\ SumFunctionOnSet(Share, Children(x)) = 0
  BY <1>3, <1>4
<1>6. ASSUME NEW c \in Children(x)
      PROVE  /\ Share[c] = 0 /\ obj.total[c] = 0 /\ obj.src[c] = 0
             /\ Draining(ctx, c) = {}
  <2>1. c \in Objs /\ Share[c] = 0
    BY <1>2, <1>3, <1>5
  <2>2. Pending(ctx, c) \in Nat /\ obj.total[c] \in Nat
    BY <1>1, <1>4, <2>1, PendingType
  <2>3. obj.total[c] = 0 /\ Pending(ctx, c) = 0
    BY <2>1, <2>2, ShareIs
  <2>4. obj.src[c] = 0
    BY <1>3, <1>4, <2>1, <2>3
  <2>5. ASSUME NEW y \in Draining(ctx, c) PROVE FALSE
    <3>1. y \in Contexts(ctx) /\ y.o = c
      BY DEF Draining
    <3>2. y.n \in Nat \ {0}
      BY <1>1, <3>1, ContextFields
    <3>3. Pending(ctx, c) = y.n
      BY <1>1, <3>1, PendingIs
    <3> QED
      BY <2>3, <3>2, <3>3
  <2> QED
    BY <2>1, <2>3, <2>4, <2>5
<1> QED
  BY <1>5, <1>6

(* With a total of zero at the top, nothing is raised and only the top may *)
(* drain.                                                                  *)
LEMMA AllQuiet ==
  ASSUME IInv, AddsUp, Placed, call = None, obj.total[Top] = 0
  PROVE  \A o \in Objs : /\ obj.total[o] = 0 /\ obj.src[o] = 0
                         /\ o # Top => Draining(ctx, o) = {} /\ Share[o] = 0
<1> DEFINE S == {o \in Objs : /\ obj.total[o] = 0 /\ obj.src[o] = 0
                              /\ o # Top => Draining(ctx, o) = {} /\ Share[o] = 0}
<1>1. Top \in S
  BY ZeroBelow, ObjAssumption DEF ObjAssumption
<1>2. ASSUME NEW o \in Objs, Parent[o] \in S PROVE o \in S
  <2>1. CASE o = Top
    BY <1>1, <2>1
  <2>2. CASE o # Top
    <3>1. Up(o) \in S
      BY <1>1, <1>2 DEF Up, Placed
    <3>2. Up(o) \in Objs /\ obj.total[Up(o)] = 0 /\ o \in Children(Up(o))
      <4>1. Up(o) \in Objs /\ obj.total[Up(o)] = 0
        BY <3>1
      <4> QED
        BY <2>2, <4>1, ChildOf, ObjAssumption
    <3> QED
      BY <3>2, ZeroBelow
  <2> QED
    BY <2>1, <2>2
<1>3. S \in SUBSET Objs
  OBVIOUS
<1> HIDE DEF S
<1>4. S = Objs
  BY <1>1, <1>2, <1>3, ObjAssumption DEF ObjAssumption
<1> QED
  BY <1>4 DEF S

(* An entry of zero may be in the set or not. *)
LEMMA SumSkips ==
  ASSUME NEW S, IsFiniteSet(S), NEW f, \A x \in S : f[x] \in Int, NEW q, f[q] = 0
  PROVE  SumFunctionOnSet(f, S) = SumFunctionOnSet(f, S \ {q})
<1>1. CASE q \notin S
  <2>1. S \ {q} = S
    BY <1>1
  <2> QED
    BY <2>1
<1>2. CASE q \in S
  <2>1. SumFunctionOnSet(f, S) = f[q] + SumFunctionOnSet(f, S \ {q})
    BY <1>2, SumTakes
  <2>2. SumFunctionOnSet(f, S \ {q}) \in Int
    BY SumInt
  <2> QED
    BY <2>1, <2>2
<1> QED
  BY <1>1, <1>2

(* A sequence that changes its parent takes nothing along. *)
LEMMA MoveAdds ==
  ASSUME NEW q \in Movers, IInv, IInv', AddsUp, Moved, SetSequencer(q)
  PROVE  AddsUp'
<1>1. /\ obj' = obj /\ ctx' = ctx /\ call' = call /\ flags' = flags
      /\ at' = [at EXCEPT ![q] = Parent[q]] /\ at[q] # Parent[q]
      /\ at \in [Objs -> Objs] /\ q \in Objs
  BY Unfolded, ObjAssumption DEF SetSequencer, ObjAssumption
<1>2. Share' = Share /\ Share \in [Objs -> Nat]
  BY <1>1, ShareTypes DEF Share
<1>3. Share[q] = 0
  <2>1. obj.total[q] = 0 /\ Draining(ctx, q) = {}
    BY <1>1 DEF Moved
  <2> QED
    BY <1>1, <2>1 DEF Share, Pending
<1> SUFFICES ASSUME NEW o \in Objs
             PROVE  obj'.total[o] + Arriving(o)'
                      = obj'.src[o] + SumFunctionOnSet(Share', Children(o)')
  BY DEF AddsUp
<1> DEFINE S == Children(o)
           T == Children(o)'
           f == Share
<1>4. /\ S \in SUBSET Objs /\ IsFiniteSet(S) /\ T \in SUBSET Objs /\ IsFiniteSet(T)
      /\ \A x \in S : f[x] \in Int
      /\ \A x \in T : f[x] \in Int
  <2>1. S \in SUBSET Objs /\ T \in SUBSET Objs
    BY DEF Children
  <2>2. IsFiniteSet(Objs)
    BY ObjAssumption DEF ObjAssumption
  <2>3. IsFiniteSet(S) /\ IsFiniteSet(T)
    BY <2>1, <2>2, FS_Subset
  <2> QED
    BY <1>2, <2>1, <2>3
<1>5. S \ {q} = T \ {q}
  BY <1>1 DEF Children
<1> HIDE DEF S, T, f
<1>6. /\ f[q] = 0 /\ IsFiniteSet(S) /\ IsFiniteSet(T)
      /\ \A x \in S : f[x] \in Int
      /\ \A x \in T : f[x] \in Int
  BY <1>3, <1>4 DEF f
<1>7. /\ SumFunctionOnSet(f, S) = SumFunctionOnSet(f, S \ {q})
      /\ SumFunctionOnSet(f, T) = SumFunctionOnSet(f, T \ {q})
  BY <1>6, SumSkips
<1>8. SumFunctionOnSet(Share', Children(o)') = SumFunctionOnSet(Share, Children(o))
  BY <1>2, <1>5, <1>7 DEF f, S, T
<1>9. Arriving(o)' = Arriving(o)
  BY <1>1 DEF Arriving
<1> QED
  BY <1>1, <1>8, <1>9 DEF AddsUp

(* The mode changes only where nothing is counted below the top. *)
LEMMA ModeAdds ==
  ASSUME NEW m \in PropModes, IInv, IInv', AddsUp, TopQuiet, Placed, SetPropagateMode(m)
  PROVE  AddsUp'
<1>1. /\ obj' = obj /\ ctx' = ctx /\ call' = call /\ call = None
      /\ obj.total[Top] = 0
  BY DEF SetPropagateMode, Idle, TopQuiet
<1>2. \A c \in Objs : /\ obj.total[c] = 0 /\ obj.src[c] = 0
                      /\ c # Top => Share[c] = 0
  BY <1>1, AllQuiet
<1> SUFFICES ASSUME NEW o \in Objs
             PROVE  obj'.total[o] + Arriving(o)'
                      = obj'.src[o] + SumFunctionOnSet(Share', Children(o)')
  BY DEF AddsUp
<1>3. Children(o)' \in SUBSET (Objs \ {Top}) /\ IsFiniteSet(Children(o)')
  <2>1. Children(o)' \in SUBSET (Objs \ {Top})
    BY DEF Children
  <2> QED
    BY <2>1, FS_Subset, ObjAssumption DEF ObjAssumption
<1>4. \A c \in Children(o)' : Share'[c] = 0
  BY <1>1, <1>2, <1>3 DEF Share
<1>5. SumFunctionOnSet(Share', Children(o)') = 0
  BY <1>3, <1>4, SumZero
<1>6. Arriving(o)' = 0
  BY <1>1 DEF Arriving
<1> QED
  BY <1>1, <1>2, <1>5, <1>6

LEMMA RaiseSums ==
  ASSUME NEW o \in Callers, NEW n \in 1 .. MaxStep, IInv, IInv', AddsUp, Raise(o, n)
  PROVE  AddsUp'
<1> DEFINE b == [obj EXCEPT !.src[o] = @ + n, !.srcs = @ \cup {o}]
<1>1. o \in Objs /\ n \in Nat \ {0} /\ obj \in CountsType
  BY ObjAssumption, Unfolded DEF ObjAssumption
<1>2. /\ b \in CountsType
      /\ \A x \in Objs : /\ b.total[x] = obj.total[x]
                         /\ b.src[x] = obj.src[x] + (IF x = o THEN n ELSE 0)
  <2> DEFINE more == [obj EXCEPT !.src[o] = @ + n]
  <2>1. more \in CountsType /\ more.total = obj.total
    BY <1>1 DEF CountsType
  <2>2. \A x \in Objs : more.src[x] = obj.src[x] + (IF x = o THEN n ELSE 0)
    BY <1>1 DEF CountsType
  <2>3. b = [more EXCEPT !.srcs = @ \cup {o}]
    BY <1>1 DEF CountsType
  <2> HIDE DEF more, b
  <2> QED
    BY <1>1, <2>1, <2>2, <2>3 DEF CountsType
<1>3. RaiseAt(b, o, n) /\ at' = at /\ flags'.prop = flags.prop /\ call = None
  BY Unfolded DEF Raise, Idle
<1> HIDE DEF b
<1>4. \A x \in Objs : Arriving(x) = IF x = o THEN n - n ELSE 0
  BY <1>1, <1>3 DEF Arriving
<1> QED
  BY <1>1, <1>2, <1>3, <1>4, RaiseAdds

LEMMA DropSums ==
  ASSUME NEW o \in Callers, NEW n \in 1 .. MaxStep, IInv, IInv', AddsUp, Drop(o, n)
  PROVE  AddsUp'
<1> DEFINE b == [obj EXCEPT !.src[o] = @ - n]
           e == o \in obj.srcs /\ n <= obj.src[o]
<1>1. o \in Objs /\ n \in Nat \ {0} /\ obj \in CountsType
  BY ObjAssumption, Unfolded DEF ObjAssumption
<1>2. DropAt(b, o, n, e) /\ at' = at /\ flags' = flags /\ call = None
  BY DEF Drop, Idle
<1>3. CASE o \notin obj.tots \/ n > obj.total[o] \/ ~e
  <2>1. obj' = obj /\ ctx' = ctx /\ call' = call
    BY <1>2, <1>3 DEF DropAt
  <2>2. Share' = Share
    BY <2>1 DEF Share
  <2> QED
    BY <1>2, <2>1, <2>2, SameSums
<1>4. CASE ~(o \notin obj.tots \/ n > obj.total[o] \/ ~e)
  <2>1. /\ b \in CountsType
        /\ \A x \in Objs : /\ b.total[x] = obj.total[x]
                           /\ b.src[x] = obj.src[x] - (IF x = o THEN n ELSE 0)
    BY <1>1, <1>4 DEF CountsType
  <2> HIDE DEF b, e
  <2>2. \A x \in Objs : Arriving(x) = IF x = o THEN n - n ELSE 0
    BY <1>1, <1>2 DEF Arriving
  <2> QED
    BY <1>1, <1>2, <1>4, <2>1, <2>2, DropAdds
<1> QED
  BY <1>3, <1>4

(* What climbs as a drop has been counted where it arrives. *)
LEMMA DropFits ==
  ASSUME IInv, AddsUp, Keyed, NEW o \in Objs
  PROVE  /\ obj.total[o] + Arriving(o) >= obj.src[o]
         /\ obj.total[o] > 0 => o \in obj.tots
<1>1. IsFiniteSet(Children(o)) /\ \A c \in Children(o) : Share[c] \in Nat
  BY ChildrenFinite, ShareTypes
<1>2. SumFunctionOnSet(Share, Children(o)) \in Nat
  <2> DEFINE S == Children(o)
             f == Share
  <2>1. IsFiniteSet(S) /\ \A c \in S : f[c] \in Nat
    BY <1>1
  <2> HIDE DEF S, f
  <2>2. SumFunctionOnSet(f, S) \in Nat
    BY <2>1, SumBounds
  <2> QED
    BY <2>2 DEF S, f
<1>3. obj.total[o] + Arriving(o) = obj.src[o] + SumFunctionOnSet(Share, Children(o))
  BY DEF AddsUp
<1>4. obj.src[o] \in Nat
  BY Unfolded DEF CountsType
<1> QED
  BY <1>2, <1>3, <1>4 DEF Keyed

LEMMA PropagateSums ==
  ASSUME IInv, IInv', AddsUp, Keyed, Propagate
  PROVE  /\ AddsUp'
         /\ call.n < 0 => /\ call.o \in obj.tots /\ -call.n <= obj.total[call.o]
                          /\ fatal' = fatal
<1> DEFINE o == call.o
           c == call.n
<1>1. /\ o \in Objs /\ c \in Int \ {0} /\ call # None /\ obj \in CountsType
      /\ at' = at /\ flags' = flags
  <2>1. call \in [o : Objs, n : Int \ {0}]
    BY Unfolded DEF Propagate
  <2> QED
    BY <2>1, Unfolded DEF Propagate
<1>2. \A x \in Objs : /\ obj.total[x] \in Nat /\ obj.src[x] \in Nat
                      /\ Arriving(x) = IF x = o THEN c ELSE 0
  BY <1>1 DEF Arriving, CountsType
<1>3. IF c > 0 THEN RaiseAt(obj, o, c) ELSE DropAt(obj, o, -c, TRUE)
  BY DEF Propagate
<1> HIDE DEF o, c
<1>4. CASE c > 0
  <2>1. /\ c \in Nat \ {0}
        /\ \A x \in Objs : /\ obj.total[x] = obj.total[x]
                           /\ obj.src[x] = obj.src[x] + (IF x = o THEN 0 ELSE 0)
                           /\ Arriving(x) = IF x = o THEN c - 0 ELSE 0
    BY <1>1, <1>2, <1>4
  <2>2. RaiseAt(obj, o, c) /\ flags'.prop = flags.prop
    BY <1>1, <1>3, <1>4
  <2>3. AddsUp'
    BY <1>1, <2>1, <2>2, RaiseAdds
  <2>4. c < 0 => FALSE
    BY <1>1, <1>4
  <2> QED
    BY <2>3, <2>4 DEF c
<1>5. CASE ~(c > 0)
  <2> DEFINE n == -c
  <2>1. /\ n \in Nat \ {0}
        /\ \A x \in Objs : /\ obj.total[x] = obj.total[x]
                           /\ obj.src[x] = obj.src[x] - (IF x = o THEN 0 ELSE 0)
                           /\ Arriving(x) = IF x = o THEN 0 - n ELSE 0
    BY <1>1, <1>2, <1>5
  <2>2. DropAt(obj, o, n, TRUE) /\ flags'.prop = flags.prop
    BY <1>1, <1>3, <1>5
  <2>3. o \in obj.tots /\ n <= obj.total[o]
    <3>1. /\ obj.total[o] + Arriving(o) >= obj.src[o]
          /\ obj.total[o] > 0 => o \in obj.tots
      BY <1>1, DropFits
    <3>2. n <= obj.total[o]
      BY <1>1, <1>2, <2>1, <3>1
    <3> QED
      BY <1>1, <1>2, <2>1, <3>1, <3>2
  <2> HIDE DEF n
  <2>4. ~(o \notin obj.tots \/ n > obj.total[o] \/ ~TRUE)
    BY <1>1, <1>2, <2>1, <2>3
  <2>5. AddsUp'
    BY <1>1, <2>1, <2>2, <2>4, DropAdds
  <2>6. fatal' = fatal
    BY <2>2, <2>4 DEF DropAt
  <2> QED
    BY <2>3, <2>5, <2>6 DEF n, o, c
<1> QED
  BY <1>4, <1>5

(* What a level of a raise or a drop does to the counts and to the call. *)
LEMMA RaiseAtCounts ==
  ASSUME NEW STATE b, b \in CountsType, NEW o \in Objs, NEW n \in Nat, RaiseAt(b, o, n)
  PROVE  /\ \A x \in Objs : obj'.total[x] = b.total[x] + (IF x = o THEN n ELSE 0)
         /\ obj'.tots = b.tots \cup {o} /\ obj'.src = b.src /\ obj'.srcs = b.srcs
<1> DEFINE more == [b EXCEPT !.total[o] = @ + n]
<1>1. /\ more \in CountsType /\ more.src = b.src /\ more.srcs = b.srcs
      /\ more.tots = b.tots
      /\ \A x \in Objs : more.total[x] = b.total[x] + (IF x = o THEN n ELSE 0)
  BY DEF CountsType
<1>2. obj' = [more EXCEPT !.tots = @ \cup {o}]
  BY DEF RaiseAt, CountsType
<1> HIDE DEF more
<1> QED
  BY <1>1, <1>2 DEF CountsType

LEMMA DropAtCounts ==
  ASSUME IInv, NEW STATE b, NEW o \in Objs, NEW n \in Nat \ {0}, NEW e,
         DropAt(b, o, n, e), e => b \in CountsType
  PROVE  IF o \notin obj.tots \/ n > obj.total[o] \/ ~e
         THEN obj' = obj /\ ctx' = ctx /\ call' = None
         ELSE /\ \A x \in Objs : obj'.total[x] = b.total[x] - (IF x = o THEN n ELSE 0)
              /\ obj'.tots = b.tots /\ obj'.src = b.src /\ obj'.srcs = b.srcs
              /\ call' \in {None, Climb(o, -n)} /\ fatal' = fatal
<1>1. CASE o \notin obj.tots \/ n > obj.total[o] \/ ~e
  BY <1>1 DEF DropAt
<1>2. CASE ~(o \notin obj.tots \/ n > obj.total[o] \/ ~e)
  <2>1. /\ obj' = [b EXCEPT !.total[o] = @ - n] /\ b \in CountsType
        /\ call' \in {None, Climb(o, -n)} /\ fatal' = fatal
    BY <1>2 DEF DropAt
  <2>2. /\ \A x \in Objs : obj'.total[x] = b.total[x] - (IF x = o THEN n ELSE 0)
        /\ obj'.tots = b.tots /\ obj'.src = b.src /\ obj'.srcs = b.srcs
    BY <2>1 DEF CountsType
  <2> QED
    BY <1>2, <2>1, <2>2
<1> QED
  BY <1>1, <1>2

LEMMA RaiseCounts ==
  ASSUME IInv, NEW o \in Callers, NEW n \in 1 .. MaxStep, Raise(o, n)
  PROVE  /\ \A x \in Objs :
              /\ obj'.total[x] = obj.total[x] + (IF x = o THEN n ELSE 0)
              /\ obj'.src[x] = obj.src[x] + (IF x = o THEN n ELSE 0)
         /\ obj'.tots = obj.tots \cup {o} /\ obj'.srcs = obj.srcs \cup {o}
         /\ o \in Objs /\ n \in Nat \ {0}
<1> DEFINE b == [obj EXCEPT !.src[o] = @ + n, !.srcs = @ \cup {o}]
           more == [obj EXCEPT !.src[o] = @ + n]
<1>1. o \in Objs /\ n \in Nat \ {0} /\ obj \in CountsType
  BY ObjAssumption, Unfolded DEF ObjAssumption
<1>2. /\ more \in CountsType /\ more.total = obj.total /\ more.tots = obj.tots
      /\ more.srcs = obj.srcs
      /\ \A x \in Objs : more.src[x] = obj.src[x] + (IF x = o THEN n ELSE 0)
  BY <1>1 DEF CountsType
<1>3. b = [more EXCEPT !.srcs = @ \cup {o}]
  BY <1>1 DEF CountsType
<1>4. RaiseAt(b, o, n)
  BY DEF Raise
<1> HIDE DEF b, more
<1>5. /\ b \in CountsType /\ b.total = obj.total /\ b.tots = obj.tots
      /\ b.srcs = obj.srcs \cup {o} /\ b.src = more.src
  BY <1>1, <1>2, <1>3 DEF CountsType
<1>6. /\ \A x \in Objs : obj'.total[x] = b.total[x] + (IF x = o THEN n ELSE 0)
      /\ obj'.tots = b.tots \cup {o} /\ obj'.src = b.src /\ obj'.srcs = b.srcs
  BY <1>1, <1>4, <1>5, RaiseAtCounts
<1> QED
  BY <1>1, <1>2, <1>5, <1>6

LEMMA DropCounts ==
  ASSUME IInv, NEW o \in Callers, NEW n \in 1 .. MaxStep, Drop(o, n)
  PROVE  /\ o \in Objs /\ n \in Nat \ {0}
         /\ IF \/ o \notin obj.tots \/ n > obj.total[o]
               \/ ~(o \in obj.srcs /\ n <= obj.src[o])
            THEN obj' = obj /\ ctx' = ctx /\ call' = None
            ELSE /\ \A x \in Objs :
                      /\ obj'.total[x] = obj.total[x] - (IF x = o THEN n ELSE 0)
                      /\ obj'.src[x] = obj.src[x] - (IF x = o THEN n ELSE 0)
                 /\ obj'.tots = obj.tots /\ obj'.srcs = obj.srcs
                 /\ call' \in {None, Climb(o, -n)} /\ fatal' = fatal
<1> DEFINE b == [obj EXCEPT !.src[o] = @ - n]
           e == o \in obj.srcs /\ n <= obj.src[o]
<1>1. o \in Objs /\ n \in Nat \ {0} /\ obj \in CountsType
  BY ObjAssumption, Unfolded DEF ObjAssumption
<1>2. /\ e \in BOOLEAN /\ (e => b \in CountsType)
      /\ b.total = obj.total /\ b.tots = obj.tots /\ b.srcs = obj.srcs
      /\ \A x \in Objs : b.src[x] = obj.src[x] - (IF x = o THEN n ELSE 0)
  BY <1>1 DEF CountsType
<1>3. DropAt(b, o, n, e)
  BY DEF Drop
<1> HIDE DEF b, e
<1>4. IF o \notin obj.tots \/ n > obj.total[o] \/ ~e
      THEN obj' = obj /\ ctx' = ctx /\ call' = None
      ELSE /\ \A x \in Objs : obj'.total[x] = b.total[x] - (IF x = o THEN n ELSE 0)
           /\ obj'.tots = b.tots /\ obj'.src = b.src /\ obj'.srcs = b.srcs
           /\ call' \in {None, Climb(o, -n)} /\ fatal' = fatal
  <2>1. CASE o \notin obj.tots \/ n > obj.total[o] \/ ~e
    <3>1. obj' = obj /\ ctx' = ctx /\ call' = None
      BY <1>3, <2>1 DEF DropAt
    <3> QED
      BY <2>1, <3>1
  <2>2. CASE ~(o \notin obj.tots \/ n > obj.total[o] \/ ~e)
    <3>1. /\ \A x \in Objs : obj'.total[x] = b.total[x] - (IF x = o THEN n ELSE 0)
          /\ obj'.tots = b.tots /\ obj'.src = b.src /\ obj'.srcs = b.srcs
          /\ call' \in {None, Climb(o, -n)} /\ fatal' = fatal
      BY <1>1, <1>2, <1>3, <2>2, DropAtCounts
    <3> QED
      BY <2>2, <3>1
  <2> QED
    BY <2>1, <2>2
<1> QED
  BY <1>1, <1>2, <1>4 DEF e

LEMMA PropagateCounts ==
  ASSUME IInv, Propagate
  PROVE  /\ call.o \in Objs /\ call.n \in Int \ {0}
         /\ call.n > 0 =>
              /\ \A x \in Objs :
                   obj'.total[x] = obj.total[x] + (IF x = call.o THEN call.n ELSE 0)
              /\ obj'.tots = obj.tots \cup {call.o}
              /\ obj'.src = obj.src /\ obj'.srcs = obj.srcs /\ fatal' = fatal
         /\ call.n < 0 =>
              \/ obj' = obj /\ ctx' = ctx /\ call' = None
              \/ /\ \A x \in Objs :
                      obj'.total[x] = obj.total[x] + (IF x = call.o THEN call.n ELSE 0)
                 /\ obj'.tots = obj.tots
                 /\ obj'.src = obj.src /\ obj'.srcs = obj.srcs
                 /\ call' \in {None, Climb(call.o, call.n)}
<1> DEFINE o == call.o
           c == call.n
<1>1. o \in Objs /\ c \in Int \ {0} /\ obj \in CountsType
  <2>1. call \in [o : Objs, n : Int \ {0}]
    BY Unfolded DEF Propagate
  <2> QED
    BY <2>1, Unfolded
<1>2. IF c > 0 THEN RaiseAt(obj, o, c) ELSE DropAt(obj, o, -c, TRUE)
  BY DEF Propagate
<1> HIDE DEF o, c
<1>3. CASE c > 0
  <2>1. c \in Nat /\ RaiseAt(obj, o, c) /\ fatal' = fatal
    BY <1>1, <1>2, <1>3 DEF RaiseAt
  <2>2. /\ \A x \in Objs : obj'.total[x] = obj.total[x] + (IF x = o THEN c ELSE 0)
        /\ obj'.tots = obj.tots \cup {o} /\ obj'.src = obj.src /\ obj'.srcs = obj.srcs
    BY <1>1, <2>1, RaiseAtCounts
  <2>3. ~(c < 0)
    BY <1>1, <1>3
  <2> QED
    BY <1>1, <2>1, <2>2, <2>3 DEF o, c
<1>4. CASE ~(c > 0)
  <2> DEFINE n == -c
  <2>1. n \in Nat \ {0} /\ c = -n
    BY <1>1, <1>4
  <2>2. DropAt(obj, o, n, TRUE)
    BY <1>2, <1>4
  <2> HIDE DEF n
  <2>3. \/ obj' = obj /\ ctx' = ctx /\ call' = None
        \/ /\ \A x \in Objs : obj'.total[x] = obj.total[x] - (IF x = o THEN n ELSE 0)
           /\ obj'.tots = obj.tots /\ obj'.src = obj.src /\ obj'.srcs = obj.srcs
           /\ call' \in {None, Climb(o, -n)}
    BY <1>1, <2>1, <2>2, DropAtCounts
  <2>4. \A x \in Objs : obj.total[x] \in Nat
    BY <1>1 DEF CountsType
  <2>5. \A x \in Objs : obj.total[x] - (IF x = o THEN n ELSE 0)
                          = obj.total[x] + (IF x = o THEN c ELSE 0)
    BY <2>1, <2>4
  <2>6. \/ obj' = obj /\ ctx' = ctx /\ call' = None
        \/ /\ \A x \in Objs : obj'.total[x] = obj.total[x] + (IF x = o THEN c ELSE 0)
           /\ obj'.tots = obj.tots /\ obj'.src = obj.src /\ obj'.srcs = obj.srcs
           /\ call' \in {None, Climb(o, c)}
    BY <2>1, <2>3, <2>5
  <2> QED
    BY <1>1, <1>4, <2>6 DEF o, c
<1> QED
  BY <1>3, <1>4

LEMMA AllDroppedCounts ==
  ASSUME IInv, NEW d \in ctx.drain, AllDropped(d)
  PROVE  /\ obj'.total = obj.total /\ obj'.src = obj.src
         /\ obj'.tots = IF obj.total[d.o] = 0 THEN obj.tots \ {d.o} ELSE obj.tots
         /\ obj'.srcs = IF obj.src[d.o] = 0 THEN obj.srcs \ {d.o} ELSE obj.srcs
         /\ d.o \in Objs /\ d.n \in Nat \ {0} /\ obj.total[d.o] = 0
<1>1. obj \in CountsType /\ ctx \in ContextsType /\ IdleIn(ctx, obj)
  BY Unfolded
<1>2. d \in Contexts(ctx)
  BY DEF Contexts
<1>3. d.o \in Objs /\ d.n \in Nat \ {0} /\ obj.total[d.o] = 0
  BY <1>1, <1>2, ContextFields DEF IdleIn
<1> QED
  BY <1>1, <1>3 DEF AllDropped, CountsType

-----------------------------------------------------------------------------
(* The steps                                                               *)

LEMMA AddsStep == AInv /\ [Next]_vars /\ Moved => AddsUp'
<1> SUFFICES ASSUME AInv, [Next]_vars, Moved PROVE AddsUp'
  OBVIOUS
<1>1. IInv /\ IInv' /\ AddsUp /\ Keyed /\ TopQuiet /\ Placed
  BY NextInv DEF AInv
<1>2. ASSUME NEW o \in Callers, NEW n \in 1 .. MaxStep, Raise(o, n) \/ Drop(o, n)
      PROVE  AddsUp'
  BY <1>1, <1>2, RaiseSums, DropSums
<1>3. CASE Propagate
  BY <1>1, <1>3, PropagateSums
<1>4. ASSUME Fork \/ StartDrain \/ \E d \in ctx.drain : DelayOver(d)
      PROVE  AddsUp'
  <2>1. Waits(ctx') = Waits(ctx)
    BY <1>1, <1>4, ForkInv, StartDrainInv, DelayOverInv
  <2>2. obj' = obj /\ at' = at /\ flags' = flags /\ call' = call
    BY <1>4 DEF Fork, StartDrain, DelayOver
  <2>3. Share' = Share
    BY <1>1, <2>1, <2>2, SharesKeep
  <2> QED
    BY <1>1, <2>2, <2>3, SameSums
<1>5. CASE \E d \in ctx.drain : AllDropped(d)
  BY <1>1, <1>5, AllDroppedAdds
<1>6. CASE Clear
  BY <1>1, <1>6, ClearAdds
<1>7. CASE \E m \in PropModes : SetPropagateMode(m)
  BY <1>1, <1>7, ModeAdds
<1>8. CASE \E q \in Movers : SetSequencer(q)
  BY <1>1, <1>8, MoveAdds
<1>9. CASE UNCHANGED vars
  <2>1. obj' = obj /\ at' = at /\ flags' = flags /\ call' = call /\ ctx' = ctx
    BY <1>9 DEF vars
  <2>2. Share' = Share
    BY <2>1 DEF Share
  <2> QED
    BY <1>1, <2>1, <2>2, SameSums
<1> QED
  BY <1>2, <1>3, <1>4, <1>5, <1>6, <1>7, <1>8, <1>9 DEF Next, Drains

LEMMA KeyedStep == IInv /\ Keyed /\ [Next]_vars => Keyed'
<1> SUFFICES ASSUME IInv, Keyed, [Next]_vars PROVE Keyed'
  OBVIOUS
<1>1. \A x \in Objs : obj.total[x] \in Nat /\ obj.src[x] \in Nat
  BY Unfolded DEF CountsType
<1>2. ASSUME NEW o \in Callers, NEW n \in 1 .. MaxStep, Raise(o, n) \/ Drop(o, n)
      PROVE  Keyed'
  <2>1. CASE Raise(o, n)
    BY <1>1, <2>1, RaiseCounts DEF Keyed
  <2>2. CASE Drop(o, n)
    <3>1. n \in Nat /\ (obj' = obj \/
            /\ \A x \in Objs : /\ obj'.total[x] = obj.total[x] - (IF x = o THEN n ELSE 0)
                               /\ obj'.src[x] = obj.src[x] - (IF x = o THEN n ELSE 0)
            /\ obj'.tots = obj.tots /\ obj'.srcs = obj.srcs)
      BY <2>2, DropCounts
    <3>2. CASE obj' = obj
      BY <3>2 DEF Keyed
    <3>3. CASE obj' # obj
      <4>1. \A x \in Objs : obj'.total[x] <= obj.total[x] /\ obj'.src[x] <= obj.src[x]
        BY <1>1, <3>1, <3>3
      <4>2. \A x \in Objs : obj'.total[x] \in Int /\ obj'.src[x] \in Int
        BY <1>1, <3>1, <3>3
      <4> QED
        BY <1>1, <3>1, <3>3, <4>1, <4>2 DEF Keyed
    <3> QED
      BY <3>2, <3>3
  <2> QED
    BY <1>2, <2>1, <2>2
<1>3. CASE Propagate
  <2>1. /\ call.o \in Objs /\ call.n \in Int \ {0}
        /\ call.n > 0 =>
             /\ \A x \in Objs :
                  obj'.total[x] = obj.total[x] + (IF x = call.o THEN call.n ELSE 0)
             /\ obj'.tots = obj.tots \cup {call.o}
             /\ obj'.src = obj.src /\ obj'.srcs = obj.srcs
        /\ call.n < 0 =>
             \/ obj' = obj
             \/ /\ \A x \in Objs :
                     obj'.total[x] = obj.total[x] + (IF x = call.o THEN call.n ELSE 0)
                /\ obj'.tots = obj.tots
                /\ obj'.src = obj.src /\ obj'.srcs = obj.srcs
    BY <1>3, PropagateCounts
  <2>2. CASE call.n > 0
    BY <1>1, <2>1, <2>2 DEF Keyed
  <2>3. CASE call.n < 0
    BY <1>1, <2>1, <2>3 DEF Keyed
  <2> QED
    BY <2>1, <2>2, <2>3
<1>4. CASE Fork \/ StartDrain \/ \E d \in ctx.drain : DelayOver(d)
  BY <1>4 DEF Fork, StartDrain, DelayOver, Keyed
<1>5. ASSUME NEW d \in ctx.drain, AllDropped(d) PROVE Keyed'
  <2>1. /\ obj'.total = obj.total /\ obj'.src = obj.src
        /\ obj'.tots = IF obj.total[d.o] = 0 THEN obj.tots \ {d.o} ELSE obj.tots
        /\ obj'.srcs = IF obj.src[d.o] = 0 THEN obj.srcs \ {d.o} ELSE obj.srcs
    BY <1>5, AllDroppedCounts
  <2>2. \A x \in Objs : obj.total[x] > 0 => x \in obj'.tots
    BY <1>1, <2>1 DEF Keyed
  <2>3. \A x \in Objs : obj.src[x] > 0 => x \in obj'.srcs
    BY <1>1, <2>1 DEF Keyed
  <2> QED
    BY <2>1, <2>2, <2>3 DEF Keyed
<1>6. CASE Clear
  BY <1>6 DEF Clear, Keyed
<1>7. CASE \/ \E m \in PropModes : SetPropagateMode(m)
           \/ \E q \in Movers : SetSequencer(q)
           \/ UNCHANGED vars
  BY <1>7 DEF SetPropagateMode, SetSequencer, vars, Keyed
<1> QED
  BY <1>2, <1>3, <1>4, <1>5, <1>6, <1>7 DEF Next, Drains

LEMMA PlacedStep == IInv /\ Placed /\ [Next]_vars => Placed'
<1> SUFFICES ASSUME IInv, Placed, [Next]_vars PROVE Placed'
  OBVIOUS
<1>1. CASE \E q \in Movers : SetSequencer(q)
  <2>1. PICK q \in Movers : SetSequencer(q)
    BY <1>1
  <2>2. at \in [Objs -> Objs] /\ at' = [at EXCEPT ![q] = Parent[q]]
    BY <2>1, Unfolded DEF SetSequencer
  <2> QED
    BY <2>2 DEF Placed
<1>2. CASE at' = at
  BY <1>2 DEF Placed
<1> QED
  BY <1>1, <1>2 DEF Next, Drains, Raise, Drop, Propagate, Fork, StartDrain, DelayOver,
                    AllDropped, Clear, SetPropagateMode, vars

(* What a call that climbs as a drop goes on with. *)
LEMMA ClimbDown ==
  ASSUME TypeOK, NEW o \in Objs, NEW n \in Int, n < 0, NEW c, c \in {None, Climb(o, n)}
  PROVE  c # None => c.n < 0
<1>1. CASE c = None
  BY <1>1
<1>2. CASE c # None
  <2>1. c = [o |-> IF flags.prop THEN at[o] ELSE Top, n |-> n]
    BY <1>2 DEF Climb
  <2> QED
    BY <2>1
<1> QED
  BY <1>1, <1>2

LEMMA TopQuietStep == IInv /\ TopQuiet /\ [Next]_vars => TopQuiet'
<1> SUFFICES ASSUME IInv, TopQuiet, [Next]_vars, flags'.top
             PROVE  obj'.total[Top] = 0 /\ (call' # None => call'.n < 0)
  BY DEF TopQuiet
<1>1. /\ \A x \in Objs : obj.total[x] \in Nat
      /\ Top \in Objs /\ TypeOK
      /\ flags \in [prop : BOOLEAN, top : BOOLEAN, cleared : BOOLEAN]
  BY Unfolded, ObjAssumption DEF CountsType, ObjAssumption, IInv
<1>2. ASSUME NEW o \in Callers, NEW n \in 1 .. MaxStep, Raise(o, n) \/ Drop(o, n)
      PROVE  obj'.total[Top] = 0 /\ (call' # None => call'.n < 0)
  <2>1. CASE Raise(o, n)
    BY <1>1, <2>1 DEF Raise
  <2>2. CASE Drop(o, n)
    <3>1. flags.top /\ obj.total[Top] = 0
      BY <2>2 DEF Drop, TopQuiet
    <3>2. /\ o \in Objs /\ n \in Nat \ {0}
          /\ \/ obj' = obj /\ call' = None
             \/ /\ \A x \in Objs : obj'.total[x] = obj.total[x] - (IF x = o THEN n ELSE 0)
                /\ n <= obj.total[o] /\ call' \in {None, Climb(o, -n)}
      BY <1>1, <2>2, DropCounts
    <3>3. CASE obj' = obj /\ call' = None
      BY <3>1, <3>3
    <3>4. CASE /\ \A x \in Objs : obj'.total[x] = obj.total[x] - (IF x = o THEN n ELSE 0)
               /\ n <= obj.total[o] /\ call' \in {None, Climb(o, -n)}
      <4>1. o # Top
        BY <1>1, <3>1, <3>2, <3>4
      <4>2. obj'.total[Top] = 0
        BY <1>1, <3>1, <3>4, <4>1
      <4>3. -n \in Int /\ -n < 0
        BY <3>2
      <4> QED
        BY <1>1, <3>2, <3>4, <4>2, <4>3, ClimbDown
    <3> QED
      BY <3>2, <3>3, <3>4
  <2> QED
    BY <1>2, <2>1, <2>2
<1>3. CASE Propagate
  <2>1. flags.top /\ call # None
    BY <1>3 DEF Propagate
  <2>2. obj.total[Top] = 0 /\ call.n < 0
    BY <2>1 DEF TopQuiet
  <2>3. /\ call.o \in Objs /\ call.n \in Int \ {0}
        /\ \/ obj' = obj /\ call' = None
           \/ /\ \A x \in Objs :
                   obj'.total[x] = obj.total[x] + (IF x = call.o THEN call.n ELSE 0)
              /\ call' \in {None, Climb(call.o, call.n)}
    BY <1>3, <2>2, PropagateCounts
  <2>4. call' # None => call'.n < 0
    BY <1>1, <2>2, <2>3, ClimbDown
  <2>5. obj'.total[Top] <= 0 /\ obj'.total[Top] \in Nat
    <3>1. obj'.total[Top] \in Nat
      BY <1>1, NextInv, UnfoldedNext DEF CountsType
    <3> QED
      BY <1>1, <2>2, <2>3, <3>1
  <2> QED
    BY <2>4, <2>5
<1>4. CASE Fork \/ StartDrain \/ \E d \in ctx.drain : DelayOver(d)
  BY <1>4 DEF Fork, StartDrain, DelayOver, TopQuiet
<1>5. ASSUME NEW d \in ctx.drain, AllDropped(d)
      PROVE  obj'.total[Top] = 0 /\ (call' # None => call'.n < 0)
  <2>1. /\ obj'.total = obj.total /\ d.o \in Objs /\ d.n \in Nat \ {0}
        /\ obj.total[d.o] = 0
    BY <1>5, AllDroppedCounts
  <2>2. flags.top \/ d.o = Top
    BY <1>1, <1>5 DEF AllDropped
  <2>3. obj'.total[Top] = 0
    BY <2>1, <2>2 DEF TopQuiet
  <2>4. call' \in {None, Climb(d.o, -d.n)} /\ -d.n \in Int /\ -d.n < 0
    BY <1>5, <2>1 DEF AllDropped
  <2> QED
    BY <1>1, <2>1, <2>3, <2>4, ClimbDown
<1>6. CASE Clear
  BY <1>1, <1>6 DEF Clear
<1>7. CASE \/ \E m \in PropModes : SetPropagateMode(m)
           \/ \E q \in Movers : SetSequencer(q)
           \/ UNCHANGED vars
  BY <1>1, <1>7 DEF SetPropagateMode, SetSequencer, vars, TopQuiet
<1> QED
  BY <1>2, <1>3, <1>4, <1>5, <1>6, <1>7 DEF Next, Drains

LEMMA AddsInit == Init => AInv
<1> SUFFICES ASSUME Init PROVE AInv
  OBVIOUS
<1>1. /\ obj.src = [o \in Objs |-> 0] /\ obj.total = [o \in Objs |-> 0]
      /\ call = None /\ flags.top = FALSE
      /\ at = [o \in Objs |-> IF o \in Movers THEN Top ELSE Parent[o]]
      /\ Contexts(ctx) = {}
  BY DEF Init, Contexts, Held
<1>2. \A c \in Objs : Share[c] = 0
  BY <1>1 DEF Share, Pending, Draining
<1>3. ASSUME NEW o \in Objs
      PROVE  obj.total[o] + Arriving(o) = obj.src[o] + SumFunctionOnSet(Share, Children(o))
  <2>1. IsFiniteSet(Children(o)) /\ \A c \in Children(o) : Share[c] = 0
    BY <1>2, ChildrenFinite
  <2>2. SumFunctionOnSet(Share, Children(o)) = 0
    BY <2>1, SumZero
  <2>3. Arriving(o) = 0
    BY <1>1 DEF Arriving
  <2> QED
    BY <1>1, <2>2, <2>3
<1>4. AddsUp
  BY <1>3 DEF AddsUp
<1>5. Keyed /\ TopQuiet /\ Placed
  BY <1>1 DEF Keyed, TopQuiet, Placed
<1> QED
  BY <1>4, <1>5, InitInv DEF AInv

LEMMA AddsNext == AInv /\ [Next]_vars /\ [Moved]_vars => AInv'
<1> SUFFICES ASSUME AInv, [Next]_vars, [Moved]_vars PROVE AInv'
  OBVIOUS
<1>1. Moved
  BY DEF Moved, vars
<1>2. AddsUp'
  BY <1>1, AddsStep
<1>3. Keyed' /\ Placed' /\ TopQuiet' /\ IInv'
  BY KeyedStep, PlacedStep, TopQuietStep, NextInv DEF AInv
<1> QED
  BY <1>2, <1>3 DEF AInv

THEOREM AddsInvariance == Spec /\ QuietMoves => []AInv
BY AddsInit, AddsNext, PTL DEF Spec, QuietMoves

(* Between the calls, the total of an object is what it has raised and what *)
(* its children count and drain (get_objection_total).                      *)
THEOREM TotalsAreRight == Spec /\ QuietMoves => []TotalsAddUp
<1>1. AInv => TotalsAddUp
  <2> SUFFICES ASSUME AInv, call = None, NEW o \in Objs
               PROVE  obj.total[o] = obj.src[o] + SumFunctionOnSet(Share, Children(o))
    BY DEF TotalsAddUp
  <2>1. obj.total[o] + Arriving(o) = obj.src[o] + SumFunctionOnSet(Share, Children(o))
    BY DEF AInv, AddsUp
  <2>2. Arriving(o) = 0 /\ obj.total[o] \in Nat
    BY Unfolded DEF Arriving, AInv, CountsType
  <2> QED
    BY <2>1, <2>2
<1> QED
  BY <1>1, AddsInvariance, PTL

(* An object drains only while nothing below it is raised or drains. *)
THEOREM DrainsClimb == Spec /\ QuietMoves => []DrainsBottomUp
<1>1. AInv => DrainsBottomUp
  <2> SUFFICES ASSUME AInv, call = None, NEW x \in Contexts(ctx)
               PROVE  /\ obj.src[x.o] = 0
                      /\ \A c \in Below(x.o) : obj.src[c] = 0 /\ Draining(ctx, c) = {}
    BY DEF DrainsBottomUp
  <2> DEFINE o == x.o
             quiet == {c \in Objs : /\ obj.total[c] = 0 /\ obj.src[c] = 0
                                    /\ Draining(ctx, c) = {}}
             S == {o} \cup quiet
  <2>1. IInv /\ AddsUp
    BY DEF AInv
  <2>2. o \in Objs /\ obj.total[o] = 0
    BY <2>1, Unfolded, ContextFields DEF IdleIn
  <2>3. ASSUME NEW y \in Objs, obj.total[y] = 0
        PROVE  obj.src[y] = 0 /\ Children(y) \subseteq quiet
    BY <2>1, <2>3, ZeroBelow, ChildrenFinite
  <2>4. \A y \in S : Children(y) \subseteq S
    BY <2>2, <2>3
  <2>5. S \in SUBSET Objs /\ o \in S
    BY <2>2
  <2> HIDE DEF S
  <2>6. ASSUME NEW c \in Below(o) PROVE c \in S \ {o}
    BY <2>4, <2>5 DEF Below
  <2>7. \A c \in Below(o) : c \in quiet
    BY <2>6 DEF S
  <2> QED
    BY <2>2, <2>3, <2>7
<1> QED
  BY <1>1, AddsInvariance, PTL

(* Every step of an objection is a step of what an objection promises. *)
LEMMA PromiseInit == Init => Promise!Init
BY DEF Init, Promise!Init

LEMMA PromiseStep == AInv /\ AInv' /\ [Next]_vars => [Promise!Next]_(Promise!vars)
<1> SUFFICES ASSUME AInv, AInv', [Next]_vars PROVE [Promise!Next]_(Promise!vars)
  OBVIOUS
<1> USE DEF Promise!vars
<1>1. /\ IInv /\ AddsUp /\ Placed /\ TopQuiet
      /\ obj.src \in [Objs -> Nat] /\ obj'.src \in [Objs -> Nat]
      /\ flags \in [prop : BOOLEAN, top : BOOLEAN, cleared : BOOLEAN]
  BY Unfolded, UnfoldedNext DEF AInv, CountsType
<1>2. ASSUME NEW o \in Callers, NEW n \in 1 .. MaxStep, Raise(o, n)
      PROVE  Promise!Next
  <2>1. /\ \A x \in Objs : obj'.src[x] = obj.src[x] + (IF x = o THEN n ELSE 0)
        /\ o \in Objs /\ n \in Nat \ {0}
    BY <1>1, <1>2, RaiseCounts
  <2>2. flags'.top = FALSE
    BY <1>1, <1>2 DEF Raise
  <2>3. obj'.src[o] > obj.src[o] /\ \A r \in Objs \ {o} : obj'.src[r] = obj.src[r]
    BY <1>1, <2>1
  <2>4. Promise!Raise(o)
    BY <1>1, <2>2, <2>3 DEF Promise!Raise
  <2> QED
    BY <2>1, <2>4 DEF Promise!Next
<1>3. ASSUME NEW o \in Callers, NEW n \in 1 .. MaxStep, Drop(o, n)
      PROVE  Promise!Next \/ UNCHANGED Promise!vars
  <2>1. /\ o \in Objs /\ n \in Nat \ {0} /\ flags' = flags
        /\ \/ obj' = obj
           \/ \A x \in Objs : obj'.src[x] = obj.src[x] - (IF x = o THEN n ELSE 0)
    BY <1>1, <1>3, DropCounts DEF Drop
  <2>2. CASE obj' = obj
    BY <2>1, <2>2
  <2>3. CASE \A x \in Objs : obj'.src[x] = obj.src[x] - (IF x = o THEN n ELSE 0)
    <3>1. obj'.src[o] < obj.src[o] /\ \A r \in Objs \ {o} : obj'.src[r] = obj.src[r]
      BY <1>1, <2>1, <2>3
    <3>2. Promise!Drop(o)
      BY <1>1, <2>1, <3>1 DEF Promise!Drop
    <3> QED
      BY <2>1, <3>2 DEF Promise!Next
  <2> QED
    BY <2>1, <2>2, <2>3
<1>4. CASE Propagate
  <2>1. /\ call.n \in Int \ {0} /\ flags' = flags
        /\ call.n > 0 => obj'.src = obj.src
        /\ call.n < 0 => obj' = obj \/ obj'.src = obj.src
    BY <1>1, <1>4, PropagateCounts DEF Propagate
  <2>2. obj'.src = obj.src
    BY <2>1
  <2> QED
    BY <2>1, <2>2
<1>5. CASE Fork \/ StartDrain \/ \E d \in ctx.drain : DelayOver(d)
  BY <1>5 DEF Fork, StartDrain, DelayOver
<1>6. ASSUME NEW d \in ctx.drain, AllDropped(d)
      PROVE  Promise!Next \/ UNCHANGED Promise!vars
  <2>1. /\ obj'.src = obj.src /\ d.o \in Objs /\ obj.total[d.o] = 0 /\ call = None
        /\ flags'.top = (flags.top \/ d.o = Top)
    BY <1>1, <1>6, AllDroppedCounts DEF AllDropped, Idle
  <2>2. CASE d.o = Top
    <3>1. \A o \in Objs : obj.src[o] = 0
      BY <1>1, <2>1, <2>2, AllQuiet
    <3>2. Promise!Agree
      BY <2>1, <2>2, <3>1 DEF Promise!Agree
    <3> QED
      BY <3>2 DEF Promise!Next
  <2>3. CASE d.o # Top
    <3>1. flags'.top = flags.top
      BY <1>1, <2>1, <2>3
    <3> QED
      BY <2>1, <3>1
  <2> QED
    BY <2>2, <2>3
<1>7. CASE Clear
  <2>1. Promise!Clear
    BY <1>1, <1>7 DEF Clear, Promise!Clear
  <2> QED
    BY <2>1 DEF Promise!Next
<1>8. CASE \/ \E m \in PropModes : SetPropagateMode(m)
           \/ \E q \in Movers : SetSequencer(q)
           \/ UNCHANGED vars
  BY <1>1, <1>8 DEF SetPropagateMode, SetSequencer, vars
<1> QED
  BY <1>2, <1>3, <1>4, <1>5, <1>6, <1>7, <1>8 DEF Next, Drains

(* An objection implements EndOfTest: the top is over only by agreement. *)
THEOREM EndIsAgreed == Spec /\ QuietMoves => PromiseSpec
BY PromiseInit, PromiseStep, AddsInvariance, PTL DEF Spec, PromiseSpec, Promise!Spec

-----------------------------------------------------------------------------
(* Callers that drop what they have raised                                 *)

(* What a caller will drop is what the objection counts for it. *)
HInv == AInv /\ held = obj.src /\ ~fatal

LEMMA HeldNext == StaleDrops = FALSE /\ HInv /\ [Next]_vars /\ [Moved]_vars => HInv'
<1> SUFFICES ASSUME StaleDrops = FALSE, HInv, [Next]_vars, [Moved]_vars PROVE HInv'
  OBVIOUS
<1>1. AInv' /\ AInv /\ IInv /\ IInv' /\ AddsUp /\ Keyed /\ held = obj.src /\ ~fatal
  BY AddsNext DEF HInv, AInv
<1>2. /\ held \in [Objs -> Nat] /\ held' \in [Objs -> Nat]
      /\ obj.src \in [Objs -> Nat] /\ obj'.src \in [Objs -> Nat]
      /\ \A x \in Objs : obj.total[x] \in Nat
  BY <1>1, Unfolded, UnfoldedNext DEF IInv, TypeOK, CountsType
<1> SUFFICES held' = obj'.src /\ ~fatal'
  BY <1>1 DEF HInv
<1>3. ASSUME NEW o \in Callers, NEW n \in 1 .. MaxStep, Raise(o, n)
      PROVE  held' = obj'.src /\ ~fatal'
  <2>1. \A x \in Objs : obj'.src[x] = obj.src[x] + (IF x = o THEN n ELSE 0)
    BY <1>1, <1>3, RaiseCounts
  <2>2. held' = [held EXCEPT ![o] = @ + n] /\ fatal' = fatal
    BY <1>3 DEF Raise, RaiseAt
  <2>3. \A x \in Objs : held'[x] = obj'.src[x]
    BY <1>1, <1>2, <2>1, <2>2
  <2> QED
    BY <1>1, <1>2, <2>2, <2>3
<1>4. ASSUME NEW o \in Callers, NEW n \in 1 .. MaxStep, Drop(o, n)
      PROVE  held' = obj'.src /\ ~fatal'
  <2>1. o \in Objs /\ n \in Nat \ {0} /\ call = None /\ n <= obj.src[o]
    BY <1>1, <1>2, <1>4, DropCounts DEF Drop, Idle
  <2>2. /\ obj.total[o] + Arriving(o) >= obj.src[o]
        /\ obj.total[o] > 0 => o \in obj.tots
    BY <1>1, <2>1, DropFits
  <2>3. Arriving(o) = 0
    BY <2>1 DEF Arriving
  <2>4. o \in obj.tots /\ ~(n > obj.total[o]) /\ o \in obj.srcs
    BY <1>1, <1>2, <2>1, <2>2, <2>3 DEF Keyed
  <2>5. /\ \A x \in Objs : obj'.src[x] = obj.src[x] - (IF x = o THEN n ELSE 0)
        /\ fatal' = fatal
    BY <1>1, <1>4, <2>1, <2>4, DropCounts
  <2>6. held' = [held EXCEPT ![o] = @ - n]
    BY <1>4 DEF Drop
  <2>7. \A x \in Objs : held'[x] = obj'.src[x]
    BY <1>1, <1>2, <2>5, <2>6
  <2> QED
    BY <1>1, <1>2, <2>5, <2>7
<1>5. CASE Propagate
  <2>1. /\ call.n \in Int \ {0} /\ held' = held
        /\ call.n > 0 => obj'.src = obj.src /\ fatal' = fatal
        /\ call.n < 0 => obj' = obj \/ obj'.src = obj.src
    BY <1>1, <1>5, PropagateCounts DEF Propagate
  <2>2. call.n < 0 => fatal' = fatal
    BY <1>1, <1>5, PropagateSums
  <2> QED
    BY <1>1, <2>1, <2>2
<1>6. CASE Fork \/ StartDrain \/ \E d \in ctx.drain : DelayOver(d)
  BY <1>1, <1>6 DEF Fork, StartDrain, DelayOver
<1>7. ASSUME NEW d \in ctx.drain, AllDropped(d) PROVE held' = obj'.src /\ ~fatal'
  <2>1. obj'.src = obj.src
    BY <1>1, <1>7, AllDroppedCounts
  <2> QED
    BY <1>1, <1>7, <2>1 DEF AllDropped
<1>8. CASE Clear
  BY <1>1, <1>8 DEF Clear
<1>9. CASE \/ \E m \in PropModes : SetPropagateMode(m)
           \/ \E q \in Movers : SetSequencer(q)
           \/ UNCHANGED vars
  BY <1>1, <1>9 DEF SetPropagateMode, SetSequencer, vars
<1> QED
  BY <1>3, <1>4, <1>5, <1>6, <1>7, <1>8, <1>9 DEF Next, Drains

(* Callers that drop only what they have raised never meet the fatal error. *)
THEOREM NeverBelowZero ==
  ASSUME StaleDrops = FALSE
  PROVE  Spec /\ QuietMoves => []NoUnderflow
<1>1. Init => HInv
  BY AddsInit DEF HInv, Init
<1>2. HInv /\ [Next]_vars /\ [Moved]_vars => HInv'
  BY HeldNext
<1>3. HInv => NoUnderflow
  BY DEF HInv, NoUnderflow
<1> QED
  BY <1>1, <1>2, <1>3, PTL DEF Spec, QuietMoves

-----------------------------------------------------------------------------
(* Moves are quiet where the sequences that move do not object.             *)

LEMMA RaiseAtContexts ==
  ASSUME IInv, NEW b, NEW o, NEW n, RaiseAt(b, o, n)
  PROVE  Contexts(ctx') = {x \in Contexts(ctx) : x.o # o}
<1>1. ctx \in ContextsType /\ IdleIn(ctx, obj)
  BY Unfolded
<1>2. /\ Without(ctx, o) \in ContextsType /\ IdleIn(Without(ctx, o), obj)
      /\ Contexts(Without(ctx, o)) = {x \in Contexts(ctx) : x.o # o}
  BY <1>1, WithoutContexts
<1> QED
  BY <1>2 DEF RaiseAt

LEMMA DropAtContexts ==
  ASSUME IInv, NEW b, NEW o, NEW n, NEW e, DropAt(b, o, n, e)
  PROVE  \A x \in Contexts(ctx') : x \in Contexts(ctx) \/ x.o = o
<1> DEFINE w == [o |-> o, n |-> n]
<1>1. ctx' = ctx \/ ctx' = [ctx EXCEPT !.sched = Append(@, w)]
  BY DEF DropAt
<1>2. ctx \in ContextsType /\ ctx.sched \in Seq(Context) /\ w.o = o
  BY Unfolded DEF ContextsType
<1> HIDE DEF w
<1>3. CASE ctx' = ctx
  BY <1>3
<1>4. CASE ctx' = [ctx EXCEPT !.sched = Append(@, w)]
  <2>1. /\ ctx'.sched = Append(ctx.sched, w) /\ ctx'.forked = ctx.forked
        /\ ctx'.drain = ctx.drain
    BY <1>2, <1>4 DEF ContextsType
  <2>2. \A i \in DOMAIN ctx'.sched :
          \/ i \in DOMAIN ctx.sched /\ ctx'.sched[i] = ctx.sched[i]
          \/ ctx'.sched[i] = w
    BY <1>2, <2>1
  <2>3. \A x \in Held(ctx'.sched) : x \in Held(ctx.sched) \/ x = w
    BY <2>2 DEF Held
  <2> QED
    BY <1>2, <2>1, <2>3 DEF Contexts
<1> QED
  BY <1>1, <1>3, <1>4

(* No mover raises, and no object is below one. *)
Settled == Movers \cap Callers = {} /\ \A o \in Objs : Parent[o] \notin Movers

(* Nothing is counted for a mover. *)
Still ==
  \A q \in Movers : /\ obj.total[q] = 0 /\ Draining(ctx, q) = {}
                    /\ call # None => call.o # q

LEMMA ClimbSettled ==
  ASSUME Settled, Placed, NEW o \in Objs, NEW n, NEW q \in Movers, NEW c,
         c \in {None, Climb(o, n)}, c # None
  PROVE  c.o # q
<1>1. c.o = Up(o)
  BY DEF Climb, Up
<1>2. Up(o) \notin Movers
  BY ObjAssumption DEF Up, Placed, Settled, ObjAssumption
<1> QED
  BY <1>1, <1>2

LEMMA StillStep == Settled /\ IInv /\ Placed /\ Still /\ [Next]_vars => Still'
<1> SUFFICES ASSUME Settled, IInv, Placed, Still, [Next]_vars, NEW q \in Movers
             PROVE  /\ obj'.total[q] = 0 /\ Draining(ctx', q) = {}
                    /\ call' # None => call'.o # q
  BY DEF Still
<1>1. /\ obj.total[q] = 0 /\ \A x \in Contexts(ctx) : x.o # q
      /\ call # None => call.o # q
      /\ q \in Objs /\ q \notin Callers
  BY ObjAssumption DEF Still, Draining, Settled, ObjAssumption
<1> SUFFICES /\ obj'.total[q] = 0 /\ \A x \in Contexts(ctx') : x.o # q
             /\ call' # None => call'.o # q
  BY DEF Draining
<1>2. ASSUME NEW o \in Callers, NEW n \in 1 .. MaxStep, Raise(o, n)
      PROVE  /\ obj'.total[q] = 0 /\ \A x \in Contexts(ctx') : x.o # q
             /\ call' # None => call'.o # q
  <2>1. obj'.total[q] = 0 /\ o \in Objs
    BY <1>1, <1>2, RaiseCounts
  <2>2. RaiseAt([obj EXCEPT !.src[o] = @ + n, !.srcs = @ \cup {o}], o, n)
    BY <1>2 DEF Raise
  <2>3. \A x \in Contexts(ctx') : x.o # q
    BY <1>1, <2>2, RaiseAtContexts
  <2>4. call' = Climb(o, n - Pending(ctx, o))
    BY <2>2 DEF RaiseAt
  <2> QED
    BY <2>1, <2>3, <2>4, ClimbSettled
<1>3. ASSUME NEW o \in Callers, NEW n \in 1 .. MaxStep, Drop(o, n)
      PROVE  /\ obj'.total[q] = 0 /\ \A x \in Contexts(ctx') : x.o # q
             /\ call' # None => call'.o # q
  <2>1. /\ o \in Objs /\ o # q
        /\ obj' = obj \/ obj'.total[q] = obj.total[q] - 0
        /\ call' \in {None, Climb(o, -n)}
    BY <1>1, <1>3, DropCounts
  <2>2. DropAt([obj EXCEPT !.src[o] = @ - n], o, n, o \in obj.srcs /\ n <= obj.src[o])
    BY <1>3 DEF Drop
  <2>3. \A x \in Contexts(ctx') : x.o # q
    BY <1>1, <2>1, <2>2, DropAtContexts
  <2> QED
    BY <1>1, <2>1, <2>3, ClimbSettled
<1>4. CASE Propagate
  <2>1. /\ call.o \in Objs /\ call.n \in Int \ {0} /\ call.o # q
        /\ obj' = obj \/ obj'.total[q] = obj.total[q] + 0
    <3>1. call.o \in Objs /\ call.n \in Int \ {0} /\ call.o # q
      BY <1>1, <1>4, PropagateCounts DEF Propagate
    <3>2. obj' = obj \/ \A x \in Objs : x # call.o => obj'.total[x] = obj.total[x] + 0
      <4>1. CASE call.n > 0
        BY <1>4, <4>1, PropagateCounts
      <4>2. CASE call.n < 0
        BY <1>4, <4>2, PropagateCounts
      <4> QED
        BY <3>1, <4>1, <4>2
    <3> QED
      BY <1>1, <3>1, <3>2
  <2>2. IF call.n > 0 THEN RaiseAt(obj, call.o, call.n) ELSE DropAt(obj, call.o, -call.n, TRUE)
    BY <1>4 DEF Propagate
  <2>3. \A x \in Contexts(ctx') : x.o # q
    BY <1>1, <2>1, <2>2, RaiseAtContexts, DropAtContexts
  <2>4. \/ call' = None
        \/ call' = Climb(call.o, call.n - Pending(ctx, call.o))
        \/ call' = Climb(call.o, -(-call.n))
    BY <2>2 DEF RaiseAt, DropAt
  <2> QED
    BY <1>1, <2>1, <2>3, <2>4, ClimbSettled
<1>5. CASE Fork \/ StartDrain \/ \E d \in ctx.drain : DelayOver(d)
  <2>1. Waits(ctx') = Waits(ctx)
    BY <1>5, ForkInv, StartDrainInv, DelayOverInv
  <2>2. ASSUME NEW x \in Contexts(ctx'), x.o = q PROVE FALSE
    <3>1. <<x.o, x.n>> \in Waits(ctx)
      BY <2>1 DEF Waits
    <3> QED
      BY <1>1, <2>2, <3>1 DEF Waits
  <2> QED
    BY <1>1, <1>5, <2>2 DEF Fork, StartDrain, DelayOver
<1>6. ASSUME NEW d \in ctx.drain, AllDropped(d)
      PROVE  /\ obj'.total[q] = 0 /\ \A x \in Contexts(ctx') : x.o # q
             /\ call' # None => call'.o # q
  <2>1. obj'.total[q] = 0 /\ d.o \in Objs
    BY <1>1, <1>6, AllDroppedCounts
  <2>2. \A x \in Contexts(ctx') : x.o # q
    BY <1>1, <1>6, AllDroppedInv
  <2>3. call' = Climb(d.o, -d.n)
    BY <1>6 DEF AllDropped
  <2> QED
    BY <2>1, <2>2, <2>3, ClimbSettled
<1>7. CASE Clear
  <2>1. ctx'.sched = <<>> /\ ctx'.forked = <<>> /\ ctx'.drain = {}
    BY <1>7, Unfolded DEF Clear, ContextsType
  <2> QED
    BY <1>1, <1>7, <2>1 DEF Clear, Idle, Contexts, Held
<1>8. CASE \/ \E m \in PropModes : SetPropagateMode(m)
           \/ \E r \in Movers : SetSequencer(r)
           \/ UNCHANGED vars
  BY <1>1, <1>8 DEF SetPropagateMode, SetSequencer, vars
<1> QED
  BY <1>2, <1>3, <1>4, <1>5, <1>6, <1>7, <1>8 DEF Next, Drains

(* The premise of the theorems above, where movers do not object. *)
THEOREM MovesAreQuiet ==
  ASSUME Settled
  PROVE  Spec => QuietMoves
<1>1. Init => IInv /\ Placed /\ Still
  <2> SUFFICES ASSUME Init PROVE Still
    BY AddsInit DEF AInv
  <2>1. Contexts(ctx) = {}
    BY DEF Init, Contexts, Held
  <2> QED
    BY <2>1, ObjAssumption DEF Init, Still, Draining, ObjAssumption
<1>2. IInv /\ Placed /\ Still /\ [Next]_vars => (IInv /\ Placed /\ Still)'
  BY NextInv, PlacedStep, StillStep
<1>3. Still => Moved
  BY DEF Still, Moved
<1> QED
  BY <1>1, <1>2, <1>3, PTL DEF Spec, QuietMoves
=============================================================================
