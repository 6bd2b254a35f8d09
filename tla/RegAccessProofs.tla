--------------------------- MODULE RegAccessProofs ---------------------------
(***************************************************************************)
(* For every set of fields, processes and tests: the types of RegAccess,   *)
(* and for tests that are Orderly, that two processes never access the     *)
(* register at once and that its lock comes back.  For tests that are      *)
(* Predictable, that the mirror follows the hardware, that update() brings *)
(* the desired values and that the write of a field spares its siblings.   *)
(***************************************************************************)
EXTENDS RegAccess, TLAPS

Regs == [mir : Value, des : Value, written : [Fields -> BOOLEAN]]
Locks == [key : Bit, owner : Threads \cup {None}, cnt : Nat, byField : BOOLEAN]
Calls ==
  [pc : {"idle", "wait", "busW", "busR", "rawW", "rawR", "backW", "backR", "dead"},
   op : Operations \cup {"none"}, fld : Fields \cup {None}, val : Value,
   got : Value, exp : Value \cup {None}, ok : BOOLEAN, bad : BOOLEAN]

-----------------------------------------------------------------------------
(* Every table of the field policies yields a bit. *)
LEMMA Bits == Bit = {0, 1}
BY DEF Bit

LEMMA TablesGiveBits ==
  ASSUME NEW p, NEW x \in Bit, NEW y \in Bit, NEW b \in BOOLEAN
  PROVE  /\ XpredictX(p, x, y, b) \in Bit
         /\ XupdateX(p, x, y) \in Bit
         /\ HwWritten(p, x, y, b) \in Bit
         /\ HwRead(p, x) \in Bit
<1>1. XpredictX(p, x, y, b) \in Bit
  <2>1. CASE x = 0 /\ y = 0
    BY <2>1, Bits DEF XpredictX
  <2>2. CASE x = 0 /\ y = 1
    BY <2>2, Bits DEF XpredictX
  <2>3. CASE x = 1 /\ y = 0
    BY <2>3, Bits DEF XpredictX
  <2>4. CASE x = 1 /\ y = 1
    BY <2>4, Bits DEF XpredictX
  <2> QED
    BY <2>1, <2>2, <2>3, <2>4, Bits
<1>2. XupdateX(p, x, y) \in Bit
  <2>1. 1 - x \in Bit /\ (x + y) % 2 \in Bit /\ (1 + x + y) % 2 \in Bit
    BY Bits
  <2> QED
    BY <2>1 DEF XupdateX
<1>3. HwWritten(p, x, y, b) \in Bit
  <2>1. 1 - x \in Bit /\ 0 \in Bit /\ 1 \in Bit
    BY Bits
  <2> QED
    BY <2>1 DEF HwWritten
<1>4. HwRead(p, x) \in Bit
  BY Bits DEF HwRead
<1> QED
  BY <1>1, <1>2, <1>3, <1>4

LEMMA ValuesAreBits ==
  ASSUME NEW v
  PROVE  v \in Value => \A f \in Fields : v[f] \in Bit
BY DEF Value

LEMMA ZeroIsValue == Zero \in Value /\ NoCall \in Calls
<1>1. Zero \in Value
  BY Bits DEF Zero, Value
<1> QED
  BY <1>1 DEF NoCall, Calls

LEMMA PredictedTypes ==
  ASSUME NEW r \in Regs, NEW F, NEW v \in Value, NEW w \in BOOLEAN
  PROVE  /\ Predicted(r, F, v, w) \in Regs
         /\ PredictWrite(r, F, v) \in Regs
         /\ PredictRead(r, F, v) \in Regs
<1>1. ASSUME NEW G, NEW u \in Value, NEW b \in BOOLEAN
      PROVE  Predicted(r, G, u, b) \in Regs
  BY DEF Predicted, Regs, Value
<1>2. [f \in Fields |-> XpredictX(env.acc[f], r.mir[f], v[f], r.written[f])] \in Value
  BY TablesGiveBits DEF Regs, Value
<1>3. [f \in Fields |-> HwRead(env.acc[f], v[f])] \in Value
  BY TablesGiveBits DEF Value
<1> QED
  BY <1>1, <1>2, <1>3 DEF PredictWrite, PredictRead

LEMMA SetTypes ==
  ASSUME NEW r \in Regs, NEW v \in Value, NEW f
  PROVE  /\ SetAll(r, v) \in Regs /\ Adjusted(r, f, v) \in Value
         /\ \A x \in Bit : f \in Fields => Set(r, f, x) \in Regs
<1>1. \A g \in Fields : /\ r.des[g] \in Bit /\ r.written[g] \in BOOLEAN
                        /\ v[g] \in Bit /\ r.mir[g] \in Bit
  BY DEF Regs, Value
<1>2. \A d \in Value : [r EXCEPT !.des = d] \in Regs
  BY DEF Regs
<1>3. SetAll(r, v) \in Regs
  <2>1. [g \in Fields |-> XpredictX(env.acc[g], r.des[g], v[g], r.written[g])] \in Value
    BY <1>1, TablesGiveBits DEF Value
  <2>2. SetAll(r, v) = [r EXCEPT !.des =
          [g \in Fields |-> XpredictX(env.acc[g], r.des[g], v[g], r.written[g])]]
    BY DEF SetAll
  <2> QED
    BY <1>2, <2>1, <2>2
<1>4. ASSUME NEW x \in Bit, f \in Fields PROVE Set(r, f, x) \in Regs
  <2>1. XpredictX(env.acc[f], r.des[f], x, r.written[f]) \in Bit
    BY <1>1, <1>4, TablesGiveBits
  <2>2. [r.des EXCEPT ![f] = XpredictX(env.acc[f], r.des[f], x, r.written[f])] \in Value
    BY <2>1 DEF Regs, Value
  <2>3. Set(r, f, x) = [r EXCEPT !.des = [r.des EXCEPT ![f] =
                          XpredictX(env.acc[f], r.des[f], x, r.written[f])]]
    BY DEF Set
  <2> QED
    BY <1>2, <2>2, <2>3
<1>5. Adjusted(r, f, v) \in Value
  BY <1>1, Bits DEF Adjusted, Value
<1> QED
  BY <1>3, <1>4, <1>5

LEMMA LockTypes ==
  ASSUME NEW l \in Locks, NEW t \in Threads, NEW b \in BOOLEAN
  PROVE  /\ Acquired(l, t) \in Locks /\ Released(l) \in Locks
         /\ [l EXCEPT !.byField = b] \in Locks
<1>1. l.cnt + 1 \in Nat /\ (l.cnt > 0 => l.cnt - 1 \in Nat) /\ 0 \in Bit /\ 1 \in Bit
  BY DEF Locks, Bit
<1>2. \A n \in Nat : [l EXCEPT !.cnt = n] \in Locks
  BY DEF Locks
<1>3. \A k \in Bit, o \in Threads \cup {None} : [l EXCEPT !.key = k, !.owner = o] \in Locks
  BY DEF Locks
<1> QED
  BY <1>1, <1>2, <1>3 DEF Acquired, Released, Locks

-----------------------------------------------------------------------------
(* A test is orderly if only processes that have locked once are killed,   *)
(* if backdoor tasks take no time, and if no field is read through a map    *)
(* without the register.                                                   *)
Orderly ==
  /\ env.kills \cap {"write", "update", "bwrite", "fwrite", "fpoke"} = {}
  /\ ~env.slow
  /\ env.unmapped => "fread" \notin env.ops

Freed == [key |-> 1, owner |-> None, cnt |-> 0, byField |-> FALSE]
Taken(t, n, b) == [key |-> 0, owner |-> t, cnt |-> n, byField |-> b]
HeldBy(t, c) == Taken(t, IF Nests(c) THEN 1 ELSE 0, c.op = "fpoke")

(* A process that is at work, or was killed at work, holds the lock. *)
Engaged(t) == Inside(t) \/ Pc(t) = "dead"

Custody ==
  \/ lock = Freed /\ \A t \in Threads : ~Engaged(t)
  \/ \E t \in Threads : /\ Engaged(t) /\ \A x \in Threads \ {t} : ~Engaged(x)
                        /\ lock = HeldBy(t, thr[t])
                        /\ Pc(t) = "dead" => thr[t].op = "none"

(* A call that names a wrong map is one the test may make. *)
BadAllowed == \A t \in Threads : thr[t].bad => env.unmapped /\ thr[t].op \in env.ops

LInv == TypeOK /\ BadAllowed /\ (Orderly => Custody)

LEMMA Types ==
  TypeOK <=> /\ env \in Settings
             /\ hw \in [val : Value, once : SUBSET Fields]
             /\ reg \in Regs /\ lock \in Locks /\ thr \in [Threads -> Calls]
BY DEF TypeOK, Regs, Locks, Calls

LEMMA TypesNext ==
  TypeOK' <=> /\ env' \in Settings
              /\ hw' \in [val : Value, once : SUBSET Fields]
              /\ reg' \in Regs /\ lock' \in Locks /\ thr' \in [Threads -> Calls]
BY DEF TypeOK, Regs, Locks, Calls

LEMMA SettingTypes ==
  ASSUME env \in Settings
  PROVE  /\ env.ops \subseteq Operations /\ env.kills \subseteq Operations
         /\ env.slow \in BOOLEAN /\ env.unmapped \in BOOLEAN /\ env.on \subseteq Fields
         /\ None \notin Threads
BY RegAssumption DEF Setting

(* Where a process may enter, nobody is engaged. *)
LEMMA AvailableIsFree ==
  ASSUME LInv, Orderly, NEW t \in Threads, ~Engaged(t), Available(lock, t)
  PROVE  lock = Freed /\ \A x \in Threads : ~Engaged(x)
BY RegAssumption DEF LInv, Custody, Available, HeldBy, Taken, Freed

(* While a field is poked nobody else is called. *)
LEMMA ByFieldExcludes ==
  ASSUME LInv, Orderly, NEW t \in Threads, ~Engaged(t), Undisturbed(t)
  PROVE  ~lock.byField
<1> SUFFICES ASSUME lock.byField PROVE FALSE
  OBVIOUS
<1>1. PICK x \in Threads : /\ Engaged(x) /\ lock = HeldBy(x, thr[x])
                           /\ Pc(x) = "dead" => thr[x].op = "none"
  BY DEF LInv, Custody, Freed
<1>2. thr[x].op = "fpoke" /\ x # t
  BY <1>1 DEF HeldBy, Taken
<1>3. Inside(x) /\ thr[x].op \in Raw
  BY <1>1, <1>2 DEF Engaged, Raw
<1> QED
  BY <1>2, <1>3 DEF Undisturbed, Orderly

(* The lock is taken, taken once more, and given back as often. *)
LEMMA Nesting ==
  ASSUME NEW t \in Threads, NEW b \in BOOLEAN
  PROVE  /\ Acquired(Freed, t) = Taken(t, 0, FALSE)
         /\ Acquired(Taken(t, 0, b), t) = Taken(t, 1, b)
         /\ Released(Taken(t, 1, b)) = Taken(t, 0, b)
         /\ Released(Taken(t, 0, FALSE)) = Freed
         /\ [Released(Taken(t, 0, TRUE)) EXCEPT !.byField = FALSE] = Freed
         /\ \A c \in BOOLEAN, n \in Nat : [Taken(t, n, b) EXCEPT !.byField = c] = Taken(t, n, c)
<1>1. t # None
  BY RegAssumption
<1>2. Acquired(Freed, t) = Taken(t, 0, FALSE)
  BY <1>1 DEF Freed, Taken, Acquired
<1>3. Acquired(Taken(t, 0, b), t) = Taken(t, 1, b)
  BY DEF Taken, Acquired
<1>4. Released(Taken(t, 1, b)) = Taken(t, 0, b)
  BY DEF Taken, Released
<1>5. Released(Taken(t, 0, FALSE)) = Freed
  <2>1. Released(Taken(t, 0, FALSE)) = [Taken(t, 0, FALSE) EXCEPT !.key = 1, !.owner = None]
    BY DEF Taken, Released
  <2> QED
    BY <2>1 DEF Taken, Freed
<1>6. [Released(Taken(t, 0, TRUE)) EXCEPT !.byField = FALSE] = Freed
  <2>1. Released(Taken(t, 0, TRUE)) = [Taken(t, 0, TRUE) EXCEPT !.key = 1, !.owner = None]
    BY DEF Taken, Released
  <2> DEFINE q(c) == [key |-> 1, owner |-> None, cnt |-> 0, byField |-> c]
  <2>2. Released(Taken(t, 0, TRUE)) = q(TRUE) /\ q(FALSE) = Freed
    BY <2>1 DEF Taken, Freed
  <2>3. \A c, d \in BOOLEAN : [q(d) EXCEPT !.byField = c] = q(c)
    OBVIOUS
  <2> HIDE DEF q
  <2> QED
    BY <2>2, <2>3
<1>7. \A c \in BOOLEAN, n \in Nat : [Taken(t, n, b) EXCEPT !.byField = c] = Taken(t, n, c)
  BY DEF Taken
<1> QED
  BY <1>2, <1>3, <1>4, <1>5, <1>6, <1>7

(* A call is entered with the lock in hand. *)
LEMMA EnterKept ==
  ASSUME LInv, NEW t \in Threads, ~Engaged(t), NEW c \in Calls, NEW r \in Regs,
         NEW l \in Locks, Enter(t, c, r, l),
         Orderly => Available(lock, t) /\ l = Acquired(lock, t),
         c.bad => env.unmapped /\ c.op \in env.ops
  PROVE  LInv'
<1> DEFINE m == IF c.op \in {"write", "update", "bwrite"} THEN SetAll(r, c.val) ELSE r
           v == IF c.op = "fwrite" /\ c.fld \notin env.single
                THEN Adjusted(r, c.fld, c.val) ELSE c.val
           e == IF c.op = "mirror" THEN Expected(r) ELSE c.exp
           d == [c EXCEPT !.pc = FirstAccess(c.op), !.exp = e, !.val = v]
           k == IF Nests(c) THEN Acquired(l, t) ELSE l
<1>1. /\ env' = env /\ hw' = hw /\ reg' = m
      /\ c.bad => /\ thr' = [thr EXCEPT ![t] = NoCall]
                  /\ lock' = IF c.op = "fread" THEN l ELSE Released(l)
      /\ ~c.bad => /\ thr' = [thr EXCEPT ![t] = d]
                   /\ lock' = [k EXCEPT !.byField = k.byField \/ c.op = "fpoke"]
  BY DEF Enter
<1>2. /\ env \in Settings /\ hw \in [val : Value, once : SUBSET Fields]
      /\ lock \in Locks /\ thr \in [Threads -> Calls]
  BY Types DEF LInv
<1>3. c.val \in Value /\ c.exp \in Value \cup {None} /\ c.bad \in BOOLEAN
  BY DEF Calls
<1>4. m \in Regs /\ v \in Value /\ e \in Value \cup {None}
  <2>1. SetAll(r, c.val) \in Regs /\ Adjusted(r, c.fld, c.val) \in Value
    BY <1>3, SetTypes
  <2>2. Expected(r) \in Value
    BY DEF Regs, Expected
  <2> QED
    BY <1>3, <2>1, <2>2
<1>5. /\ d \in Calls /\ d.op = c.op /\ d.fld = c.fld /\ d.bad = c.bad
      /\ d.pc \in {"busW", "busR", "rawW", "rawR"}
  <2>1. FirstAccess(c.op) \in {"busW", "busR", "rawW", "rawR"}
    BY DEF FirstAccess
  <2> HIDE DEF v, e
  <2> QED
    BY <1>4, <2>1 DEF Calls
<1>6. lock' \in Locks
  <2>1. k \in Locks /\ Released(l) \in Locks
    BY LockTypes
  <2>2. CASE c.bad
    BY <1>1, <2>1, <2>2
  <2>3. CASE ~c.bad
    <3>1. (k.byField \/ c.op = "fpoke") \in BOOLEAN
      OBVIOUS
    <3> HIDE DEF k
    <3> QED
      BY <1>1, <2>1, <2>3, <3>1, LockTypes
  <2> QED
    BY <2>2, <2>3
<1>7. TypeOK'
  <2>1. thr' \in [Threads -> Calls]
    <3> HIDE DEF d
    <3> QED
      BY <1>1, <1>2, <1>3, <1>5, ZeroIsValue
  <2> HIDE DEF m
  <2> QED
    BY <1>1, <1>2, <1>4, <1>6, <2>1, TypesNext
<1>8. /\ \A x \in Threads \ {t} : thr'[x] = thr[x]
      /\ thr'[t] = IF c.bad THEN NoCall ELSE d
  <2> HIDE DEF d
  <2> QED
    BY <1>1, <1>2, <1>3
<1>9. BadAllowed'
  <2> HIDE DEF d
  <2> QED
    BY <1>1, <1>5, <1>8 DEF LInv, BadAllowed, NoCall
<1>10. ASSUME Orderly' PROVE Custody'
  <2>1. Orderly
    BY <1>1, <1>10 DEF Orderly
  <2>2. /\ lock = Freed /\ \A x \in Threads : ~Engaged(x)
        /\ l = Taken(t, 0, FALSE)
    <3>1. lock = Freed /\ \A x \in Threads : ~Engaged(x)
      BY <2>1, AvailableIsFree
    <3>2. l = Acquired(lock, t)
      BY <2>1
    <3> QED
      BY <3>1, <3>2, Nesting
  <2>3. \A x \in Threads \ {t} : ~Engaged(x)'
    BY <1>8, <2>2 DEF Engaged, Inside, Pc
  <2>4. CASE c.bad
    <3>1. c.op # "fread"
      BY <2>1, <2>4 DEF Orderly
    <3>2. lock' = Freed
      BY <1>1, <2>2, <2>4, <3>1, Nesting
    <3>3. ~Engaged(t)'
      BY <1>8, <2>4 DEF NoCall, Engaged, Inside, Pc
    <3> QED
      BY <2>3, <3>2, <3>3 DEF Custody
  <2>5. CASE ~c.bad
    <3>1. Engaged(t)' /\ Pc(t)' # "dead"
      <4> HIDE DEF d
      <4> QED
        BY <1>5, <1>8, <2>5 DEF Engaged, Inside, Pc
    <3>2. Nests(thr[t])' = Nests(c) /\ thr'[t].op = c.op
      <4> HIDE DEF d
      <4> QED
        BY <1>1, <1>5, <1>8, <2>5 DEF Nests
    <3>3. k = Taken(t, IF Nests(c) THEN 1 ELSE 0, FALSE)
      BY <2>2, Nesting
    <3>4. lock' = Taken(t, IF Nests(c) THEN 1 ELSE 0, c.op = "fpoke")
      <4> DEFINE n == IF Nests(c) THEN 1 ELSE 0
      <4>1. n \in Nat /\ (c.op = "fpoke") \in BOOLEAN /\ k = Taken(t, n, FALSE)
        BY <3>3
      <4>2. lock' = [k EXCEPT !.byField = c.op = "fpoke"]
        <5>1. k.byField = FALSE
          BY <3>3 DEF Taken
        <5> HIDE DEF k
        <5> QED
          BY <1>1, <2>5, <5>1
      <4> HIDE DEF k, n
      <4>3. lock' = Taken(t, n, c.op = "fpoke")
        BY <4>1, <4>2, Nesting
      <4> QED
        BY <4>3 DEF n
    <3>5. lock' = HeldBy(t, thr[t])'
      BY <3>2, <3>4 DEF HeldBy
    <3> QED
      BY <2>3, <3>1, <3>5 DEF Custody
  <2> QED
    BY <1>3, <2>4, <2>5
<1> QED
  BY <1>7, <1>9, <1>10 DEF LInv

(* A step that leaves the lock alone and keeps a process engaged or not. *)
LEMMA CustodyKept ==
  ASSUME Custody, NEW t \in Threads, UNCHANGED <<env, lock>>,
         \A x \in Threads \ {t} : thr'[x] = thr[x],
         Engaged(t)' = Engaged(t),
         Engaged(t) => /\ HeldBy(t, thr[t])' = HeldBy(t, thr[t])
                       /\ Pc(t)' = "dead" => thr'[t].op = "none"
  PROVE  Custody'
<1>1. \A x \in Threads : Engaged(x)' = Engaged(x)
  BY DEF Engaged, Inside, Pc
<1>2. CASE lock = Freed /\ \A x \in Threads : ~Engaged(x)
  BY <1>1, <1>2 DEF Custody, Freed
<1>3. ASSUME NEW x \in Threads, Engaged(x), \A y \in Threads \ {x} : ~Engaged(y),
             lock = HeldBy(x, thr[x]), Pc(x) = "dead" => thr[x].op = "none"
      PROVE  Custody'
  <2>1. HeldBy(x, thr[x])' = HeldBy(x, thr[x])
    <3>1. CASE x = t
      BY <1>3, <3>1
    <3>2. CASE x # t
      BY <3>2 DEF HeldBy, Taken, Nests
    <3> QED
      BY <3>1, <3>2
  <2>2. Pc(x)' = "dead" => thr'[x].op = "none"
    BY <1>3 DEF Pc
  <2> QED
    BY <1>1, <1>3, <2>1, <2>2 DEF Custody
<1> QED
  BY <1>2, <1>3 DEF Custody

(* An access goes on: the process stays inside. *)
LEMMA InsideKept ==
  ASSUME LInv, NEW t \in Threads, Inside(t), UNCHANGED <<env, lock>>,
         NEW c \in Calls, thr' = [thr EXCEPT ![t] = c],
         c.pc \in {"busW", "busR", "rawW", "rawR", "backW", "backR"},
         c.op = thr[t].op, c.fld = thr[t].fld, c.bad = thr[t].bad,
         hw' \in [val : Value, once : SUBSET Fields], reg' \in Regs
  PROVE  LInv'
<1>1. /\ env \in Settings /\ lock \in Locks /\ thr \in [Threads -> Calls]
  BY Types DEF LInv
<1>2. thr'[t] = c /\ \A x \in Threads \ {t} : thr'[x] = thr[x]
  BY <1>1
<1>3. TypeOK'
  BY <1>1, TypesNext
<1>4. BadAllowed'
  BY <1>2 DEF LInv, BadAllowed
<1>5. ASSUME Orderly' PROVE Custody'
  <2>1. Custody
    BY <1>5 DEF LInv, Orderly
  <2>2. Engaged(t) /\ Engaged(t)' /\ Pc(t)' # "dead"
    BY <1>2 DEF Engaged, Inside, Pc
  <2>3. HeldBy(t, thr[t])' = HeldBy(t, thr[t])
    BY <1>2 DEF HeldBy, Taken, Nests
  <2> QED
    BY <1>2, <2>1, <2>2, <2>3, CustodyKept
<1> QED
  BY <1>3, <1>4, <1>5 DEF LInv

(* An access ends: the lock is free again. *)
LEMMA ReturnKept ==
  ASSUME LInv, NEW t \in Threads, Inside(t), NEW r \in Regs, Return(t, r)
  PROVE  LInv'
<1>1. /\ env \in Settings /\ hw \in [val : Value, once : SUBSET Fields]
      /\ lock \in Locks /\ thr \in [Threads -> Calls]
  BY Types DEF LInv
<1>2. /\ thr'[t] = NoCall /\ \A x \in Threads \ {t} : thr'[x] = thr[x]
      /\ env' = env /\ hw' = hw /\ reg' = r
  BY <1>1 DEF Return
<1>3. lock' \in Locks
  <2>1. /\ Released(lock) \in Locks /\ Released(Released(lock)) \in Locks
        /\ [Released(lock) EXCEPT !.byField = FALSE] \in Locks
    BY <1>1, LockTypes
  <2> QED
    BY <1>1, <2>1 DEF Return
<1>4. TypeOK'
  BY <1>1, <1>2, <1>3, ZeroIsValue, TypesNext DEF Return
<1>5. BadAllowed'
  BY <1>2 DEF LInv, BadAllowed, NoCall
<1>6. ASSUME Orderly' PROVE Custody'
  <2>1. Custody
    BY <1>2, <1>6 DEF LInv, Orderly
  <2>2. /\ lock = HeldBy(t, thr[t])
        /\ \A x \in Threads \ {t} : ~Engaged(x)
    BY <2>1 DEF Custody, Engaged
  <2>3. \A x \in Threads : ~Engaged(x)'
    BY <1>2, <2>2 DEF Engaged, Inside, Pc, NoCall
  <2>4. lock' = Freed
    <3>1. lock.byField = (thr[t].op = "fpoke")
      BY <2>2 DEF HeldBy, Taken
    <3>2. CASE thr[t].op = "fpoke"
      <4>1. lock = Taken(t, 0, TRUE)
        BY <2>2, <3>2 DEF HeldBy, Nests
      <4>2. lock' = [Released(lock) EXCEPT !.byField = FALSE]
        <5> DEFINE u == [Released(lock) EXCEPT !.byField = FALSE]
        <5>1. lock' = CASE thr[t].op \in {"poke", "peek"} /\ lock.byField -> lock
                        [] thr[t].op = "fpoke" -> u
                        [] Nests(thr[t]) -> Released(Released(lock))
                        [] OTHER -> Released(lock)
          BY DEF Return
        <5>2. thr[t].op \notin {"poke", "peek"} /\ ~Nests(thr[t])
          BY <3>2 DEF Nests
        <5> HIDE DEF u
        <5>3. lock' = u
          BY <3>2, <5>1, <5>2
        <5> QED
          BY <5>3 DEF u
      <4> QED
        BY <4>1, <4>2, Nesting
    <3>3. CASE thr[t].op # "fpoke" /\ Nests(thr[t])
      <4>1. lock = Taken(t, 1, FALSE)
        BY <2>2, <3>3 DEF HeldBy
      <4>2. lock' = Released(Released(lock))
        BY <3>1, <3>3 DEF Return
      <4> QED
        BY <4>1, <4>2, Nesting
    <3>4. CASE thr[t].op # "fpoke" /\ ~Nests(thr[t])
      <4>1. lock = Taken(t, 0, FALSE)
        BY <2>2, <3>4 DEF HeldBy
      <4>2. lock' = Released(lock)
        BY <3>1, <3>4 DEF Return
      <4> QED
        BY <4>1, <4>2, Nesting
    <3> QED
      BY <3>2, <3>3, <3>4
  <2> QED
    BY <2>3, <2>4 DEF Custody, Freed
<1> QED
  BY <1>4, <1>5, <1>6 DEF LInv

-----------------------------------------------------------------------------
LEMMA InitTypes == Init => LInv
<1> SUFFICES ASSUME Init PROVE LInv
  OBVIOUS
<1>1. env \in Settings /\ \A t \in Threads : thr[t] = NoCall
  BY DEF Init
<1>2. lock = Freed /\ lock \in Locks
  BY Bits DEF Init, Freed, Locks
<1>3. hw \in [val : Value, once : SUBSET Fields] /\ reg \in Regs
  BY ZeroIsValue DEF Init, Regs
<1>4. thr \in [Threads -> Calls]
  BY ZeroIsValue DEF Init
<1>5. BadAllowed
  BY <1>1 DEF BadAllowed, NoCall
<1>6. Custody
  BY <1>1, <1>2 DEF Custody, Engaged, Inside, Pc, NoCall
<1> QED
  BY <1>1, <1>2, <1>3, <1>4, <1>5, <1>6, Types DEF LInv

LEMMA CallKept ==
  ASSUME LInv, NEW t \in Threads, NEW op \in env.ops, NEW f \in env.on \cup {None},
         NEW w \in Value, NEW bad \in BOOLEAN, Call(t, op, f, w, bad)
  PROVE  LInv'
<1> DEFINE up == [g \in Fields |-> XupdateX(env.acc[g], reg.des[g], reg.mir[g])]
           x == IF op = "update" THEN up ELSE w
           e == IF op = "update" THEN reg.des ELSE None
           c == [NoCall EXCEPT !.op = op, !.fld = f, !.bad = bad, !.val = x, !.exp = e]
           r == IF op = "fwrite" THEN Set(reg, f, w[f]) ELSE reg
<1>1. /\ Pc(t) = "idle" /\ Undisturbed(t)
      /\ (f # None) = (op \in {"fwrite", "fread", "fpoke"})
      /\ bad => env.unmapped
  BY DEF Call
<1>2. IF op \in {"poke", "peek"} /\ lock.byField
      THEN Enter(t, c, r, lock)
      ELSE IF Available(lock, t)
      THEN Enter(t, c, r, Acquired(lock, t))
      ELSE /\ thr' = [thr EXCEPT ![t] = [c EXCEPT !.pc = "wait", !.exp = None]]
           /\ reg' = r
           /\ UNCHANGED <<env, hw, lock>>
  BY DEF Call, NoCall
<1>3. /\ env \in Settings /\ hw \in [val : Value, once : SUBSET Fields]
      /\ reg \in Regs /\ lock \in Locks /\ thr \in [Threads -> Calls]
  BY Types DEF LInv
<1>4. x \in Value /\ e \in Value \cup {None}
  <2>1. reg.des \in Value /\ reg.mir \in Value
    BY <1>3 DEF Regs
  <2>2. up \in Value
    BY <2>1, TablesGiveBits DEF Value
  <2> QED
    BY <2>1, <2>2
<1>5. r \in Regs
  <2>1. CASE op = "fwrite"
    <3>1. f \in Fields
      BY <1>1, <1>3, <2>1, SettingTypes
    <3>2. w[f] \in Bit
      BY <3>1 DEF Value
    <3> QED
      BY <1>3, <2>1, <3>1, <3>2, SetTypes
  <2> QED
    BY <1>3, <2>1
<1>6. /\ c \in Calls /\ c.op = op /\ c.bad = bad /\ c.pc = "idle"
      /\ [c EXCEPT !.pc = "wait", !.exp = None] \in Calls
  <2>1. op \in Operations /\ f \in Fields \cup {None}
    BY <1>3, SettingTypes
  <2> HIDE DEF x, e
  <2> QED
    BY <1>4, <2>1, ZeroIsValue DEF NoCall, Calls
<1>7. ~Engaged(t)
  BY <1>1 DEF Engaged, Inside
<1> HIDE DEF c, r
<1>8. CASE op \in {"poke", "peek"} /\ lock.byField
  <2>1. ~Orderly
    BY <1>1, <1>7, <1>8, ByFieldExcludes
  <2>2. Enter(t, c, r, lock)
    BY <1>2, <1>8
  <2> QED
    BY <1>1, <1>3, <1>5, <1>6, <1>7, <2>1, <2>2, EnterKept
<1>9. CASE ~(op \in {"poke", "peek"} /\ lock.byField) /\ Available(lock, t)
  <2>1. Acquired(lock, t) \in Locks
    BY <1>3, LockTypes
  <2>2. Enter(t, c, r, Acquired(lock, t))
    BY <1>2, <1>9
  <2> QED
    BY <1>1, <1>5, <1>6, <1>7, <1>9, <2>1, <2>2, EnterKept
<1>10. CASE ~(op \in {"poke", "peek"} /\ lock.byField) /\ ~Available(lock, t)
  <2> DEFINE d == [c EXCEPT !.pc = "wait", !.exp = None]
  <2>1. thr' = [thr EXCEPT ![t] = d] /\ reg' = r /\ UNCHANGED <<env, hw, lock>>
    BY <1>2, <1>10
  <2>2. d \in Calls /\ d.pc = "wait" /\ d.bad = bad /\ d.op = op
    BY <1>6 DEF Calls
  <2> HIDE DEF d
  <2>3. thr'[t] = d /\ \A y \in Threads \ {t} : thr'[y] = thr[y]
    BY <1>3, <2>1
  <2>4. TypeOK'
    BY <1>3, <1>5, <2>1, <2>2, TypesNext
  <2>5. BadAllowed'
    BY <1>1, <2>1, <2>2, <2>3 DEF LInv, BadAllowed
  <2>6. ASSUME Orderly' PROVE Custody'
    <3>1. Custody
      BY <2>1, <2>6 DEF LInv, Orderly
    <3>2. ~Engaged(t)'
      BY <2>2, <2>3 DEF Engaged, Inside, Pc
    <3> QED
      BY <1>7, <2>1, <2>3, <3>1, <3>2, CustodyKept DEF Engaged, Inside
  <2> QED
    BY <2>4, <2>5, <2>6 DEF LInv
<1> QED
  BY <1>8, <1>9, <1>10

LEMMA LockKept ==
  ASSUME LInv, NEW t \in Threads, Lock(t)
  PROVE  LInv'
<1>1. reg \in Regs /\ lock \in Locks /\ thr[t] \in Calls
  BY Types DEF LInv
<1>2. Acquired(lock, t) \in Locks
  BY <1>1, LockTypes
<1>3. ~Engaged(t) /\ Available(lock, t) /\ Enter(t, thr[t], reg, Acquired(lock, t))
  BY DEF Lock, Engaged, Inside
<1>4. thr[t].bad => env.unmapped /\ thr[t].op \in env.ops
  BY DEF LInv, BadAllowed
<1> QED
  BY <1>1, <1>2, <1>3, <1>4, EnterKept

LEMMA AccessKept ==
  ASSUME LInv, NEW t \in Threads,
         BusWrite(t) \/ BusRead(t) \/ RawWrite(t) \/ RawRead(t) \/ Completed(t)
  PROVE  LInv'
<1> DEFINE c == thr[t]
<1>1. /\ env \in Settings /\ hw \in [val : Value, once : SUBSET Fields]
      /\ reg \in Regs /\ thr \in [Threads -> Calls] /\ c \in Calls
      /\ env.single \subseteq Fields
  BY Types, RegAssumption DEF LInv, Setting
<1>2. hw.val \in Value /\ hw.once \subseteq Fields /\ c.val \in Value /\ c.got \in Value
  BY <1>1 DEF Calls
<1> DEFINE Goes(d, p) == /\ d \in Calls /\ d.pc = p
                         /\ d.op = c.op /\ d.fld = c.fld /\ d.bad = c.bad
           Inner == {"busW", "busR", "rawW", "rawR", "backW", "backR"}
<1>3. ASSUME NEW p \in Inner, NEW v \in Value, NEW b \in BOOLEAN
      PROVE  /\ Goes([c EXCEPT !.pc = p], p)
             /\ Goes([c EXCEPT !.pc = p, !.ok = b], p)
             /\ Goes([c EXCEPT !.pc = p, !.val = v], p)
             /\ Goes([c EXCEPT !.pc = p, !.got = v], p)
  <2> HIDE DEF c
  <2>1. Goes([c EXCEPT !.pc = p], p)
    BY <1>1 DEF Calls
  <2>2. Goes([c EXCEPT !.pc = p, !.ok = b], p)
    BY <1>1 DEF Calls
  <2>3. Goes([c EXCEPT !.pc = p, !.val = v], p)
    BY <1>1 DEF Calls
  <2>4. Goes([c EXCEPT !.pc = p, !.got = v], p)
    BY <1>1 DEF Calls
  <2> QED
    BY <2>1, <2>2, <2>3, <2>4
<1>4. \A v \in Value : [hw EXCEPT !.val = v] \in [val : Value, once : SUBSET Fields]
  BY <1>1
<1>5. ASSUME NEW p \in Inner, NEW d, Goes(d, p),
             Inside(t), UNCHANGED <<env, lock>>, thr' = [thr EXCEPT ![t] = d],
             hw' \in [val : Value, once : SUBSET Fields], reg' \in Regs
      PROVE  LInv'
  BY <1>5, InsideKept
<1>6. CASE BusWrite(t)
  <2> DEFINE v == [f \in Fields |->
                     IF f \in Touched(c)
                     THEN HwWritten(env.acc[f], hw.val[f], c.val[f], f \in hw.once)
                     ELSE hw.val[f]]
  <2>1. v \in Value
    <3>1. ASSUME NEW f \in Fields
          PROVE  HwWritten(env.acc[f], hw.val[f], c.val[f], f \in hw.once) \in Bit
      <4>1. hw.val[f] \in Bit /\ c.val[f] \in Bit /\ (f \in hw.once) \in BOOLEAN
        BY <1>2 DEF Value
      <4> QED
        BY <4>1, TablesGiveBits
    <3>2. \A f \in Fields : hw.val[f] \in Bit
      BY <1>2 DEF Value
    <3> HIDE DEF c
    <3> QED
      BY <3>1, <3>2 DEF Value
  <2>2. Touched(c) \subseteq Fields
    BY <1>1 DEF Touched
  <2>3. Inside(t) /\ UNCHANGED <<env, lock, reg>>
    BY <1>6 DEF BusWrite, Inside
  <2>4. \/ /\ hw' = [val |-> v, once |-> hw.once \cup Touched(c)]
           /\ thr' = [thr EXCEPT ![t] = [c EXCEPT !.pc = "backW"]]
        \/ /\ hw' = hw
           /\ thr' = [thr EXCEPT ![t] = [c EXCEPT !.pc = "backW", !.ok = FALSE]]
    BY <1>1, <1>6 DEF BusWrite
  <2> HIDE DEF v, c, Goes
  <2>5. hw' \in [val : Value, once : SUBSET Fields] /\ reg' \in Regs
    BY <1>1, <1>2, <2>1, <2>2, <2>3, <2>4
  <2>6. \A b \in BOOLEAN : /\ Goes([c EXCEPT !.pc = "backW"], "backW")
                           /\ Goes([c EXCEPT !.pc = "backW", !.ok = b], "backW")
    BY <1>2, <1>3
  <2> QED
    BY <1>5, <2>3, <2>4, <2>5, <2>6
<1>7. CASE BusRead(t)
  <2> DEFINE v == [f \in Fields |->
                     IF f \in Touched(c) THEN HwRead(env.acc[f], hw.val[f]) ELSE hw.val[f]]
             g == [f \in Fields |->
                     IF f \in Touched(c) /\ env.acc[f] \notin WriteOnly
                     THEN hw.val[f] ELSE 0]
  <2>1. v \in Value /\ g \in Value
    BY <1>2, Bits, TablesGiveBits DEF Value
  <2>2. Inside(t) /\ UNCHANGED <<env, lock, reg>>
    BY <1>7 DEF BusRead, Inside
  <2>3. \/ /\ hw' = [hw EXCEPT !.val = v]
           /\ thr' = [thr EXCEPT ![t] = [c EXCEPT !.pc = "backR", !.got = g]]
        \/ /\ hw' = hw
           /\ thr' = [thr EXCEPT ![t] = [c EXCEPT !.pc = "backR", !.ok = FALSE]]
    BY <1>1, <1>7 DEF BusRead
  <2> HIDE DEF v, g, c, Goes
  <2> QED
    BY <1>1, <1>2, <1>3, <1>4, <1>5, <2>1, <2>2, <2>3
<1>8. CASE RawWrite(t)
  <2>1. /\ Inside(t) /\ UNCHANGED <<env, lock, reg>> /\ hw' = [hw EXCEPT !.val = c.val]
        /\ thr' = [thr EXCEPT ![t] = [c EXCEPT !.pc = "backW"]]
    BY <1>1, <1>8 DEF RawWrite, Inside
  <2> HIDE DEF c, Goes
  <2> QED
    BY <1>1, <1>2, <1>3, <1>4, <1>5, <2>1
<1>9. CASE RawRead(t)
  <2>1. /\ Inside(t) /\ UNCHANGED <<env, lock, reg, hw>>
        /\ thr' = [thr EXCEPT ![t] = [c EXCEPT !.pc = "backR", !.got = hw.val]]
    BY <1>1, <1>9 DEF RawRead, Inside
  <2> HIDE DEF c, Goes
  <2> QED
    BY <1>1, <1>2, <1>3, <1>5, <2>1
<1>10. CASE Completed(t)
  <2> DEFINE v == IF c.op = "fpoke" THEN [c.got EXCEPT ![c.fld] = c.val[c.fld]]
                  ELSE [f \in Fields |->
                          XpredictX(env.acc[f], c.got[f], c.val[f], reg.written[f])]
  <2>1. v \in Value
    <3>1. [f \in Fields |-> XpredictX(env.acc[f], c.got[f], c.val[f], reg.written[f])] \in Value
      BY <1>1, <1>2, TablesGiveBits DEF Value, Regs
    <3>2. [c.got EXCEPT ![c.fld] = c.val[c.fld]] \in Value
      BY <1>2 DEF Value
    <3> QED
      BY <3>1, <3>2
  <2>2. /\ Inside(t) /\ UNCHANGED <<env, lock, hw>>
        /\ reg' = IF c.op = "fpoke" THEN Predicted(reg, Fields, c.got, FALSE) ELSE reg
        /\ thr' = [thr EXCEPT ![t] = [c EXCEPT !.pc = "rawW", !.val = v]]
    BY <1>1, <1>10 DEF Completed, Inside
  <2>3. reg' \in Regs
    BY <1>1, <1>2, <2>2, PredictedTypes
  <2> HIDE DEF v, c, Goes
  <2> QED
    BY <1>1, <1>2, <1>3, <1>5, <2>1, <2>2, <2>3
<1> QED
  BY <1>6, <1>7, <1>8, <1>9, <1>10

LEMMA ReturnsKept ==
  ASSUME LInv, NEW t \in Threads,
         WriteReturns(t) \/ ReadReturns(t) \/ BackdoorReadReturns(t)
  PROVE  LInv'
<1> DEFINE c == thr[t]
<1>1. /\ env \in Settings /\ hw \in [val : Value, once : SUBSET Fields]
      /\ reg \in Regs /\ thr \in [Threads -> Calls] /\ c \in Calls
  BY Types DEF LInv
<1>2. c.val \in Value /\ c.got \in Value
  BY <1>1 DEF Calls
<1>3. CASE WriteReturns(t)
  BY <1>1, <1>2, <1>3, PredictedTypes, ReturnKept DEF WriteReturns, Inside
<1>4. CASE ReadReturns(t)
  BY <1>1, <1>2, <1>4, PredictedTypes, ReturnKept DEF ReadReturns, Inside
<1>5. CASE BackdoorReadReturns(t)
  <2>1. ReadEffect(c.got) \in Value /\ Masked(c.got) \in Value
    BY <1>2, Bits, TablesGiveBits DEF ReadEffect, Masked, Value
  <2>2. CASE Pc(t) = "backR" /\ ReadEffect(c.got) # c.got
    <3> DEFINE d == [c EXCEPT !.pc = "rawW", !.val = ReadEffect(c.got)]
    <3>1. thr' = [thr EXCEPT ![t] = d] /\ UNCHANGED <<env, hw, reg, lock>> /\ Inside(t)
      BY <1>1, <1>5, <2>2 DEF BackdoorReadReturns, Inside
    <3>2. d \in Calls /\ d.pc = "rawW" /\ d.op = c.op /\ d.fld = c.fld /\ d.bad = c.bad
      BY <1>1, <2>1 DEF Calls
    <3> HIDE DEF d
    <3> QED
      BY <1>1, <3>1, <3>2, InsideKept
  <2>3. CASE ~(Pc(t) = "backR" /\ ReadEffect(c.got) # c.got)
    <3>1. Inside(t) /\ Return(t, Predicted(reg, Fields, Masked(c.got), FALSE))
      BY <1>5, <2>3 DEF BackdoorReadReturns, Inside
    <3> QED
      BY <1>1, <2>1, <3>1, PredictedTypes, ReturnKept
  <2> QED
    BY <2>2, <2>3
<1> QED
  BY <1>3, <1>4, <1>5

LEMMA KillKept ==
  ASSUME LInv, NEW t \in Threads, Kill(t)
  PROVE  LInv'
<1> DEFINE d == IF Inside(t) THEN [NoCall EXCEPT !.pc = "dead"] ELSE NoCall
<1>1. /\ env \in Settings /\ hw \in [val : Value, once : SUBSET Fields]
      /\ reg \in Regs /\ lock \in Locks /\ thr \in [Threads -> Calls]
  BY Types DEF LInv
<1>2. /\ Pc(t) # "idle" /\ thr[t].op \in env.kills
      /\ thr' = [thr EXCEPT ![t] = d] /\ UNCHANGED <<env, hw, reg, lock>>
  BY DEF Kill
<1>3. /\ d \in Calls /\ d.op = "none" /\ d.bad = FALSE
      /\ d.pc = IF Inside(t) THEN "dead" ELSE "idle"
  BY ZeroIsValue DEF NoCall, Calls
<1> HIDE DEF d
<1>4. thr'[t] = d /\ \A x \in Threads \ {t} : thr'[x] = thr[x]
  BY <1>1, <1>2
<1>5. TypeOK'
  BY <1>1, <1>2, <1>3, TypesNext
<1>6. BadAllowed'
  BY <1>2, <1>3, <1>4 DEF LInv, BadAllowed
<1>7. ASSUME Orderly' PROVE Custody'
  <2>1. Orderly /\ Custody
    BY <1>2, <1>7 DEF LInv, Orderly
  <2>2. "none" \notin env.kills
    BY <1>1, SettingTypes DEF Operations
  <2>3. Engaged(t)' = Inside(t)
    BY <1>3, <1>4 DEF Engaged, Inside, Pc
  <2>4. Engaged(t)' = Engaged(t)
    <3>1. ASSUME Pc(t) = "dead", ~Inside(t) PROVE FALSE
      BY <1>2, <2>1, <2>2, <3>1 DEF Custody, Engaged, Pc
    <3> QED
      BY <2>3, <3>1 DEF Engaged
  <2>5. ~Nests(thr[t]) /\ thr[t].op # "fpoke"
    BY <1>2, <2>1 DEF Orderly, Nests
  <2>6. HeldBy(t, thr[t])' = HeldBy(t, thr[t])
    BY <1>3, <1>4, <2>5 DEF HeldBy, Nests
  <2> QED
    BY <1>2, <1>3, <1>4, <2>1, <2>4, <2>6, CustodyKept
<1> QED
  BY <1>5, <1>6, <1>7 DEF LInv

LEMMA ResetKept ==
  ASSUME LInv, Reset
  PROVE  LInv'
<1>1. /\ env \in Settings /\ lock \in Locks /\ thr \in [Threads -> Calls]
  BY Types DEF LInv
<1>2. /\ \A t \in Threads : ~Inside(t)
      /\ hw' = [val |-> Zero, once |-> {}] /\ env' = env
      /\ reg' = [mir |-> Zero, des |-> Zero, written |-> [f \in Fields |-> FALSE]]
      /\ lock' = [lock EXCEPT !.key = 1, !.owner = None]
      /\ thr' = [t \in Threads |-> IF Pc(t) = "dead" THEN NoCall ELSE thr[t]]
  BY DEF Reset
<1>3. hw' \in [val : Value, once : SUBSET Fields] /\ reg' \in Regs
  BY <1>2, ZeroIsValue DEF Regs
<1>4. lock' \in Locks
  BY <1>1, <1>2, Bits DEF Locks
<1>5. thr' \in [Threads -> Calls]
  BY <1>1, <1>2, ZeroIsValue
<1>6. TypeOK'
  BY <1>1, <1>2, <1>3, <1>4, <1>5, TypesNext
<1>7. BadAllowed'
  BY <1>2 DEF LInv, BadAllowed, NoCall
<1>8. ASSUME Orderly' PROVE Custody'
  <2>1. Custody
    BY <1>2, <1>8 DEF LInv, Orderly
  <2>2. \A t \in Threads : ~Engaged(t)'
    BY <1>2 DEF Engaged, Inside, Pc, NoCall
  <2>3. lock = Freed \/ \E t \in Threads : lock = Taken(t, 0, FALSE)
    BY <1>2, <2>1 DEF Custody, Engaged, HeldBy, Nests
  <2>4. lock' = Freed
    <3>1. CASE lock = Freed
      BY <1>2, <3>1 DEF Freed
    <3>2. CASE \E t \in Threads : lock = Taken(t, 0, FALSE)
      <4>1. PICK t \in Threads : lock = Taken(t, 0, FALSE)
        BY <3>2
      <4>2. Released(lock) = lock'
        BY <1>2, <4>1 DEF Taken, Released
      <4> QED
        BY <4>1, <4>2, Nesting
    <3> QED
      BY <2>3, <3>1, <3>2
  <2> QED
    BY <2>2, <2>4 DEF Custody
<1> QED
  BY <1>6, <1>7, <1>8 DEF LInv

LEMMA SetKept ==
  ASSUME LInv, NEW f \in Fields, NEW v \in Bit, SetDesired(f, v)
  PROVE  LInv'
<1>1. /\ env \in Settings /\ hw \in [val : Value, once : SUBSET Fields]
      /\ reg \in Regs /\ lock \in Locks /\ thr \in [Threads -> Calls]
  BY Types DEF LInv
<1>2. reg' = Set(reg, f, v) /\ UNCHANGED <<env, hw, lock, thr>>
  BY DEF SetDesired
<1>3. reg' \in Regs
  <2>1. Zero \in Value
    BY ZeroIsValue
  <2> QED
    BY <1>1, <1>2, <2>1, SetTypes
<1>4. TypeOK'
  BY <1>1, <1>2, <1>3, TypesNext
<1>5. UNCHANGED <<env, lock, thr>>
  BY <1>2
<1> QED
  BY <1>4, <1>5 DEF LInv, BadAllowed, Orderly, Custody, Engaged, Inside, Pc, HeldBy, Nests

LEMMA LockInvariant == Spec => []LInv
<1>1. ASSUME LInv, [Next]_vars PROVE LInv'
  <2>1. ASSUME NEW t \in Threads, Access(t) PROVE LInv'
    BY <1>1, <2>1, CallKept, LockKept, AccessKept, ReturnsKept, KillKept DEF Access
  <2>2. CASE UNCHANGED vars
    BY <1>1, <2>2 DEF vars, LInv, TypeOK, BadAllowed, Orderly, Custody, Engaged, Inside,
                      Pc, HeldBy, Nests
  <2> QED
    BY <1>1, <2>1, <2>2, ResetKept, SetKept DEF Next
<1> QED
  BY <1>1, InitTypes, PTL DEF Spec

(* The register, its lock, the hardware and the calls are of their types. *)
THEOREM TypeCorrect == Spec => []TypeOK
<1>1. LInv => TypeOK
  BY DEF LInv
<1> QED
  BY <1>1, LockInvariant, PTL

(* In an orderly test two processes are never inside an access of the      *)
(* register at once, however many fields it has and processes share it.    *)
THEOREM AccessesExclude == Spec => [](Orderly => OneHolder)
<1>1. LInv => (Orderly => OneHolder)
  BY DEF LInv, Custody, OneHolder, Engaged
<1> QED
  BY <1>1, LockInvariant, PTL

(* In an orderly test the lock is free whenever no process is at work or   *)
(* was killed at work: every nested lock was given back as often as it was *)
(* taken, and reset() repairs what a killed reader left.                   *)
THEOREM LockIsReturned == Spec => [](Orderly => LockComesBack)
<1>1. LInv => (Orderly => LockComesBack)
  BY DEF LInv, Custody, LockComesBack, Quiet, Engaged, Freed
<1> QED
  BY <1>1, LockInvariant, PTL
-----------------------------------------------------------------------------
(* Policies of fields that are written once after a reset. *)
Once == {"W1", "WO1"}

(* A test is predictable if it is orderly, if no field that is accessed by *)
(* itself shares a bus that may fail, if what is written once is written   *)
(* over the bus only, and if the backdoor reads only what a read leaves as *)
(* it is.                                                                  *)
Predictable ==
  /\ Orderly
  /\ env.single # {} => ~env.errors
  /\ env.ops \cap {"bwrite", "poke", "fpoke"} # {} =>
       \A f \in Fields : env.acc[f] \notin Once
  /\ "bread" \in env.ops =>
       \A f \in Fields : env.acc[f] \notin ClearedByRead \cup SetByRead \cup WriteOnly

(* A test spares the siblings of a field that it writes if none of them is *)
(* written once, or set by a read and cleared by ones.                     *)
Sparing ==
  "fwrite" \in env.ops =>
    \A f \in env.on \ env.single : \A g \in Fields \ {f} :
      env.acc[g] \notin Once \cup {"W1CRS"}

(* How far set() can take the desired value from the mirrored one. *)
Close(p, des, mir, written) ==
  /\ p \in {"RO", "RC", "RS"} => des = mir
  /\ p \in {"WC", "WCRS", "WOC"} => des \in {mir, 0}
  /\ p \in {"WS", "WSRC", "WOS"} => des \in {mir, 1}
  /\ p \in {"W1C", "W1CRS", "W0C", "W0CRS"} => (des = 1 => mir = 1)
  /\ p \in {"W1S", "W1SRC", "W0S", "W0SRC"} => (mir = 1 => des = 1)
  /\ p \in Once => (written => des = mir)
CloseReg(e, r) ==
  \A f \in Fields : Close(e.acc[f], r.des[f], r.mir[f], r.written[f])

(* The mirror agrees with the hardware, before an access, after the write  *)
(* and after the read of the fields R.                                     *)
Agrees(e, h, r, f) ==
  h.val[f] = r.mir[f] /\ (e.acc[f] \in Once => (r.written[f] <=> f \in h.once))
Synced(e, h, r) == \A f \in Fields : Agrees(e, h, r, f)
Reached(e, c) == IF c.fld \in e.single THEN {c.fld} ELSE Fields
Written(e, c, h, r) ==
  \A f \in Fields :
    IF f \in Reached(e, c)
    THEN /\ h.val[f] = XpredictX(e.acc[f], r.mir[f], c.val[f], r.written[f])
         /\ f \in h.once
    ELSE Agrees(e, h, r, f)
ReadOut(e, c, h, r) ==
  \A f \in Fields :
    /\ e.acc[f] \in Once => (r.written[f] <=> f \in h.once)
    /\ h.val[f] = IF f \in Reached(e, c) THEN HwRead(e.acc[f], r.mir[f]) ELSE r.mir[f]
    /\ f \in Reached(e, c) /\ e.acc[f] \notin WriteOnly => c.got[f] = r.mir[f]

(* What an access that is under way is about to do. *)
WillArrive(e, c, r) ==
  \A f \in Fields :
    \/ HwWritten(e.acc[f], r.mir[f], c.val[f], r.written[f]) = c.exp[f]
    \/ e.acc[f] \in SideEffect /\ r.mir[f] = c.exp[f]
WillSpare(e, c, r) ==
  \A g \in Fields \ {c.fld} :
    e.acc[g] \notin SideEffect \cup Once \cup {"W1CRS"} =>
      \A b \in BOOLEAN : HwWritten(e.acc[g], r.mir[g], c.val[g], b) = r.mir[g]

(* The mirror follows a call from its first access to its return. *)
Tracks(e, c, h, r) ==
  /\ c.pc \in {"busW", "busR", "rawW", "rawR"} => Synced(e, h, r)
  /\ c.pc \in {"busW", "busR"} => c.ok
  /\ c.pc = "busW" =>
       /\ c.op \in {"write", "update", "fwrite"}
       /\ c.op = "update" /\ c.exp # None => WillArrive(e, c, r)
       /\ c.op = "fwrite" /\ c.fld \notin e.single => WillSpare(e, c, r)
  /\ c.pc = "busR" =>
       /\ c.op \in {"read", "mirror", "fread"}
       /\ c.op = "mirror" => c.exp = r.mir
  /\ c.pc = "rawR" => c.op \in {"bwrite", "bread", "peek", "fpoke"}
  /\ c.pc = "rawW" => c.op \in {"bwrite", "poke", "fpoke"}
  /\ c.pc = "backW" =>
       \/ c.op \in {"bwrite", "poke", "fpoke"} /\ h.val = c.val
       \/ c.op \notin Raw /\ c.ok /\ Written(e, c, h, r)
       \/ c.op \notin Raw /\ ~c.ok /\ c.fld \notin e.single /\ Synced(e, h, r)
  /\ c.pc = "backR" =>
       \/ c.op \in {"bwrite", "bread", "peek", "fpoke"} /\ Synced(e, h, r) /\ c.got = h.val
       \/ c.op \notin Raw /\ c.ok /\ ReadOut(e, c, h, r)
       \/ c.op \notin Raw /\ ~c.ok /\ c.fld \notin e.single /\ Synced(e, h, r)

(* What a call is told before it has the lock. *)
Known(e, c) ==
  c.pc \notin {"idle", "dead"} =>
    /\ c.op \in e.ops
    /\ c.op \in {"update", "mirror"} => c.fld = None
    /\ c.op = "fwrite" => c.fld \in e.on
    /\ c.pc = "wait" => c.ok /\ c.exp = None

MInv ==
  /\ CloseReg(env, reg)
  /\ \A t \in Threads : Known(env, thr[t])
  /\ Predictable => /\ \A t \in Threads : Inside(t) => Tracks(env, thr[t], hw, reg)
                    /\ Quiet => Synced(env, hw, reg)
-----------------------------------------------------------------------------
(* The tables of the policies.  The mirror is predicted as the hardware    *)
(* is written; only what is written once depends on what was.              *)
LEMMA PredictionIsWriting ==
  ASSUME NEW p \in Policies, NEW x \in Bit, NEW y \in Bit, NEW w \in BOOLEAN
  PROVE  XpredictX(p, x, y, w) = HwWritten(p, x, y, w)
<1>1. CASE x = 0 /\ y = 0
  BY <1>1 DEF XpredictX, HwWritten, Policies, ClearedByRead, SetByRead, WriteOnly, SideEffect
<1>2. CASE x = 0 /\ y = 1
  BY <1>2 DEF XpredictX, HwWritten, Policies, ClearedByRead, SetByRead, WriteOnly, SideEffect
<1>3. CASE x = 1 /\ y = 0
  BY <1>3 DEF XpredictX, HwWritten, Policies, ClearedByRead, SetByRead, WriteOnly, SideEffect
<1>4. CASE x = 1 /\ y = 1
  BY <1>4 DEF XpredictX, HwWritten, Policies, ClearedByRead, SetByRead, WriteOnly, SideEffect
<1> QED
  BY <1>1, <1>2, <1>3, <1>4, Bits

LEMMA OnlyOnceIsOnce ==
  ASSUME NEW p, NEW x, NEW y, NEW a \in BOOLEAN, NEW b \in BOOLEAN, p \in Once => a = b
  PROVE  HwWritten(p, x, y, a) = HwWritten(p, x, y, b)
BY DEF HwWritten, Once

LEMMA CloseWhenEqual ==
  ASSUME NEW p, NEW x, NEW w
  PROVE  Close(p, x, x, w)
BY DEF Close

(* set() keeps the desired value close to the mirrored one. *)
LEMMA SetStaysClose ==
  ASSUME NEW p \in Policies, NEW x \in Bit, NEW m \in Bit, NEW y \in Bit, NEW w \in BOOLEAN,
         Close(p, x, m, w)
  PROVE  Close(p, XpredictX(p, x, y, w), m, w)
<1>1. CASE x = 0 /\ y = 0
  BY <1>1, Bits DEF Close, XpredictX, Once
<1>2. CASE x = 0 /\ y = 1
  BY <1>2, Bits DEF Close, XpredictX, Once
<1>3. CASE x = 1 /\ y = 0
  BY <1>3, Bits DEF Close, XpredictX, Once
<1>4. CASE x = 1 /\ y = 1
  BY <1>4, Bits DEF Close, XpredictX, Once
<1> QED
  BY <1>1, <1>2, <1>3, <1>4, Bits

(* What update() writes for a desired value that is close brings it. *)
LEMMA UpdateTable ==
  ASSUME NEW p \in Policies, NEW d \in Bit, NEW m \in Bit, NEW w \in BOOLEAN,
         Close(p, d, m, w)
  PROVE  \/ HwWritten(p, m, XupdateX(p, d, m), w) = d
         \/ p \in SideEffect /\ m = d
<1>1. CASE d = 0 /\ m = 0
  BY <1>1 DEF Close, XupdateX, HwWritten, Once, Policies, ClearedByRead, SetByRead,
              WriteOnly, SideEffect
<1>2. CASE d = 0 /\ m = 1
  BY <1>2 DEF Close, XupdateX, HwWritten, Once, Policies, ClearedByRead, SetByRead,
              WriteOnly, SideEffect
<1>3. CASE d = 1 /\ m = 0
  BY <1>3 DEF Close, XupdateX, HwWritten, Once, Policies, ClearedByRead, SetByRead,
              WriteOnly, SideEffect
<1>4. CASE d = 1 /\ m = 1
  BY <1>4 DEF Close, XupdateX, HwWritten, Once, Policies, ClearedByRead, SetByRead,
              WriteOnly, SideEffect
<1> QED
  BY <1>1, <1>2, <1>3, <1>4, Bits

(* What the write of a field writes to its siblings leaves them alone. *)
LEMMA AdjustedTable ==
  ASSUME NEW p \in Policies, NEW m \in Bit, NEW b \in BOOLEAN,
         p \notin SideEffect \cup Once \cup {"W1CRS"}
  PROVE  LET v == CASE p \in {"RO", "RC", "RS", "W1C", "W1S", "W1T", "W1SRC"} -> 0
                    [] p \in {"W0C", "W0S", "W0T", "W0SRC", "W0CRS"} -> 1
                    [] p \in SideEffect -> 0
                    [] OTHER -> m
         IN  HwWritten(p, m, v, b) = m
BY DEF HwWritten, Once, Policies, ClearedByRead, SetByRead, WriteOnly, SideEffect

LEMMA PoliciesTyped ==
  ASSUME env \in Settings
  PROVE  /\ \A f \in Fields : env.acc[f] \in Policies
         /\ env.single \subseteq Fields /\ None \notin Fields
         /\ env.kills \subseteq Operations /\ env.on \subseteq Fields
         /\ env.errors \in BOOLEAN
BY RegAssumption DEF Setting

LEMMA SetKeepsClose ==
  ASSUME env \in Settings, NEW r \in Regs, CloseReg(env, r)
  PROVE  /\ \A v \in Value : /\ CloseReg(env, SetAll(r, v))
                              /\ SetAll(r, v).mir = r.mir
                              /\ SetAll(r, v).written = r.written
         /\ \A f \in Fields : \A x \in Bit : /\ CloseReg(env, Set(r, f, x))
                                            /\ Set(r, f, x).mir = r.mir
                                            /\ Set(r, f, x).written = r.written
<1> DEFINE p(f, x) == XpredictX(env.acc[f], r.des[f], x, r.written[f])
<1>1. ASSUME NEW f \in Fields, NEW x \in Bit
      PROVE  /\ Close(env.acc[f], r.des[f], r.mir[f], r.written[f])
             /\ Close(env.acc[f], p(f, x), r.mir[f], r.written[f])
  <2>1. env.acc[f] \in Policies
    BY PoliciesTyped
  <2>2. r.des[f] \in Bit /\ r.mir[f] \in Bit /\ r.written[f] \in BOOLEAN
    BY DEF Regs, Value
  <2>3. Close(env.acc[f], r.des[f], r.mir[f], r.written[f])
    BY DEF CloseReg
  <2> QED
    BY <2>1, <2>2, <2>3, SetStaysClose
<1>2. \A v : SetAll(r, v) = [r EXCEPT !.des = [f \in Fields |-> p(f, v[f])]]
  BY DEF SetAll
<1>3. \A f, x : Set(r, f, x) = [r EXCEPT !.des = [r.des EXCEPT ![f] = p(f, x)]]
  BY DEF Set
<1> HIDE DEF p
<1>4. ASSUME NEW d, NEW s, s = [r EXCEPT !.des = d],
             \A g \in Fields : d[g] = r.des[g] \/ \E x \in Bit : d[g] = p(g, x)
      PROVE  CloseReg(env, s) /\ s.mir = r.mir /\ s.written = r.written
  <2>1. s.mir = r.mir /\ s.written = r.written /\ s.des = d
    BY <1>4 DEF Regs
  <2>2. \A g \in Fields : Close(env.acc[g], d[g], r.mir[g], r.written[g])
    BY <1>1, <1>4, Bits
  <2> QED
    BY <2>1, <2>2 DEF CloseReg
<1>5. ASSUME NEW v \in Value
      PROVE  /\ CloseReg(env, SetAll(r, v))
             /\ SetAll(r, v).mir = r.mir /\ SetAll(r, v).written = r.written
  <2> DEFINE d == [f \in Fields |-> p(f, v[f])]
             s == SetAll(r, v)
  <2>1. \A g \in Fields : \E x \in Bit : d[g] = p(g, x)
    BY ValuesAreBits
  <2>2. s = [r EXCEPT !.des = d]
    BY <1>2
  <2> HIDE DEF d, s
  <2>3. CloseReg(env, s) /\ s.mir = r.mir /\ s.written = r.written
    BY <1>4, <2>1, <2>2
  <2> QED
    BY <2>3 DEF s
<1>6. ASSUME NEW f \in Fields, NEW x \in Bit
      PROVE  /\ CloseReg(env, Set(r, f, x))
             /\ Set(r, f, x).mir = r.mir /\ Set(r, f, x).written = r.written
  <2> DEFINE d == [r.des EXCEPT ![f] = p(f, x)]
             s == Set(r, f, x)
  <2>1. \A g \in Fields : d[g] = r.des[g] \/ \E y \in Bit : d[g] = p(g, y)
    BY DEF Regs, Value
  <2>2. s = [r EXCEPT !.des = d]
    BY <1>3
  <2> HIDE DEF d, s
  <2>3. CloseReg(env, s) /\ s.mir = r.mir /\ s.written = r.written
    BY <1>4, <2>1, <2>2
  <2> QED
    BY <2>3 DEF s
<1> QED
  BY <1>5, <1>6

(* A prediction makes the desired value of a field the mirrored one. *)
LEMMA PredictionKeepsClose ==
  ASSUME NEW r \in Regs, CloseReg(env, r), NEW R, NEW v
  PROVE  /\ \A w \in BOOLEAN : CloseReg(env, Predicted(r, R, v, w))
         /\ CloseReg(env, PredictWrite(r, R, v)) /\ CloseReg(env, PredictRead(r, R, v))
<1>1. ASSUME NEW F, NEW u, NEW w \in BOOLEAN PROVE CloseReg(env, Predicted(r, F, u, w))
  <2> DEFINE s == Predicted(r, F, u, w)
  <2>1. ASSUME NEW f \in Fields PROVE Close(env.acc[f], s.des[f], s.mir[f], s.written[f])
    <3>1. CASE f \in F
      <4>1. s.des[f] = u[f] /\ s.mir[f] = u[f]
        BY <3>1 DEF Predicted
      <4> QED
        BY <4>1, CloseWhenEqual
    <3>2. CASE f \notin F
      <4>1. s.des[f] = r.des[f] /\ s.mir[f] = r.mir[f] /\ s.written[f] = r.written[f]
        BY <3>2 DEF Predicted, Regs
      <4> QED
        BY <4>1 DEF CloseReg
    <3> QED
      BY <3>1, <3>2
  <2> QED
    BY <2>1 DEF CloseReg
<1> QED
  BY <1>1 DEF PredictWrite, PredictRead

-----------------------------------------------------------------------------
Inner == {"busW", "busR", "rawW", "rawR", "backW", "backR"}

(* What a process does inside an access is known from the mirror alone. *)
LEMMA TracksByMirror ==
  ASSUME NEW e, NEW c, NEW h, NEW r, NEW s, s.mir = r.mir, s.written = r.written
  PROVE  /\ Synced(e, h, r) <=> Synced(e, h, s)
         /\ Tracks(e, c, h, r) <=> Tracks(e, c, h, s)
<1>1. Synced(e, h, r) <=> Synced(e, h, s)
  BY DEF Synced, Agrees
<1>2. /\ Written(e, c, h, r) <=> Written(e, c, h, s)
      /\ ReadOut(e, c, h, r) <=> ReadOut(e, c, h, s)
      /\ WillArrive(e, c, r) <=> WillArrive(e, c, s)
      /\ WillSpare(e, c, r) <=> WillSpare(e, c, s)
  BY DEF Written, ReadOut, WillArrive, WillSpare, Agrees
<1> QED
  BY <1>1, <1>2 DEF Tracks

(* A step of the only process that is inside, or comes in. *)
LEMMA AloneTracks ==
  ASSUME MInv, thr \in [Threads -> Calls], NEW t \in Threads, NEW c,
         thr' = [thr EXCEPT ![t] = c], env' = env, CloseReg(env, reg'), Known(env, c),
         Predictable => /\ \A x \in Threads \ {t} : ~Inside(x)
                        /\ c.pc \in Inner => Tracks(env, c, hw', reg')
                        /\ c.pc \notin Inner \cup {"dead"} => Synced(env, hw', reg')
  PROVE  MInv'
<1>1. thr'[t] = c /\ \A x \in Threads \ {t} : thr'[x] = thr[x]
  OBVIOUS
<1>2. \A x \in Threads : Known(env, thr[x])'
  BY <1>1 DEF MInv
<1>3. ASSUME Predictable'
      PROVE  /\ \A x \in Threads : Inside(x)' => Tracks(env, thr[x], hw, reg)'
             /\ Quiet' => Synced(env, hw, reg)'
  <2>1. Predictable
    BY <1>3 DEF Predictable, Orderly
  <2>2. ASSUME NEW x \in Threads, Inside(x)' PROVE x = t /\ c.pc \in Inner
    BY <1>1, <2>1, <2>2 DEF Inside, Pc, Inner
  <2>3. Quiet' => c.pc \notin Inner \cup {"dead"}
    BY <1>1 DEF Quiet, Inside, Pc, Inner
  <2> QED
    BY <1>1, <2>1, <2>2, <2>3
<1> QED
  BY <1>2, <1>3 DEF MInv

(* A step that sets the desired values at most, of a process outside. *)
LEMMA BesideTracks ==
  ASSUME MInv, thr \in [Threads -> Calls], NEW t \in Threads, NEW c,
         thr' = [thr EXCEPT ![t] = c], UNCHANGED <<env, hw>>,
         reg'.mir = reg.mir, reg'.written = reg.written, CloseReg(env, reg'),
         Known(env, c), ~Engaged(t), c.pc \notin Inner \cup {"dead"}
  PROVE  MInv'
<1>1. thr'[t] = c /\ \A x \in Threads \ {t} : thr'[x] = thr[x]
  OBVIOUS
<1>2. \A x \in Threads : Known(env, thr[x])'
  BY <1>1 DEF MInv
<1>3. ASSUME Predictable'
      PROVE  /\ \A x \in Threads : Inside(x)' => Tracks(env, thr[x], hw, reg)'
             /\ Quiet' => Synced(env, hw, reg)'
  <2>1. Predictable
    BY <1>3 DEF Predictable, Orderly
  <2>2. ASSUME NEW x \in Threads, Inside(x)' PROVE Inside(x) /\ thr'[x] = thr[x]
    BY <1>1, <2>2 DEF Inside, Pc, Inner
  <2>3. Quiet' => Quiet
    BY <1>1 DEF Quiet, Engaged, Inside, Pc
  <2>4. \A x \in Threads : Inside(x)' => Tracks(env, thr[x], hw, reg)
    BY <2>1, <2>2 DEF MInv
  <2>5. Quiet' => Synced(env, hw, reg)
    BY <2>1, <2>3 DEF MInv
  <2> QED
    BY <2>2, <2>4, <2>5, TracksByMirror
<1> QED
  BY <1>2, <1>3 DEF MInv

-----------------------------------------------------------------------------
LEMMA InitTracks == Init => MInv
<1> SUFFICES ASSUME Init PROVE MInv
  OBVIOUS
<1>1. /\ \A f \in Fields : reg.des[f] = 0 /\ reg.mir[f] = 0 /\ hw.val[f] = 0
      /\ \A f \in Fields : reg.written[f] = FALSE /\ f \notin hw.once
      /\ \A t \in Threads : thr[t].pc = "idle"
  BY DEF Init, Zero, NoCall
<1>2. CloseReg(env, reg)
  BY <1>1, CloseWhenEqual DEF CloseReg
<1>3. Synced(env, hw, reg)
  BY <1>1 DEF Synced, Agrees
<1>4. \A t \in Threads : ~Inside(t) /\ Known(env, thr[t])
  BY <1>1 DEF Inside, Pc, Known
<1> QED
  BY <1>2, <1>3, <1>4 DEF MInv

(* A call is entered where the mirror agrees with the hardware. *)
LEMMA EnterTracks ==
  ASSUME LInv, MInv, NEW t \in Threads, ~Engaged(t), NEW c \in Calls, NEW r \in Regs,
         NEW l, Enter(t, c, r, l), Orderly => Available(lock, t),
         CloseReg(env, r), r.mir = reg.mir, r.written = reg.written,
         c.op \in env.ops, c.ok, c.op \in {"update", "mirror"} => c.fld = None,
         c.op = "fwrite" => c.fld \in env.on,
         c.op = "update" /\ c.exp # None => WillArrive(env, c, reg)
  PROVE  MInv'
<1> DEFINE m == IF c.op \in {"write", "update", "bwrite"} THEN SetAll(r, c.val) ELSE r
           v == IF c.op = "fwrite" /\ c.fld \notin env.single
                THEN Adjusted(r, c.fld, c.val) ELSE c.val
           e == IF c.op = "mirror" THEN Expected(r) ELSE c.exp
           d == [c EXCEPT !.pc = FirstAccess(c.op), !.exp = e, !.val = v]
<1>1. /\ env' = env /\ hw' = hw /\ reg' = m
      /\ c.bad => thr' = [thr EXCEPT ![t] = NoCall]
      /\ ~c.bad => thr' = [thr EXCEPT ![t] = d]
  BY DEF Enter
<1>2. /\ env \in Settings /\ thr \in [Threads -> Calls] /\ c.val \in Value
      /\ c.op \in Operations /\ c.bad \in BOOLEAN
  BY Types, SettingTypes DEF LInv, Calls
<1>3. CloseReg(env, m) /\ m.mir = reg.mir /\ m.written = reg.written
  BY <1>2, SetKeepsClose
<1>4. Predictable => (\A x \in Threads : ~Inside(x)) /\ Synced(env, hw, m)
  <2> SUFFICES ASSUME Predictable PROVE (\A x \in Threads : ~Inside(x)) /\ Synced(env, hw, m)
    OBVIOUS
  <2>1. \A x \in Threads : ~Engaged(x)
    BY AvailableIsFree DEF Predictable
  <2>2. Quiet
    BY <2>1 DEF Quiet, Engaged
  <2>3. Synced(env, hw, reg)
    BY <2>2 DEF MInv
  <2> HIDE DEF m
  <2> QED
    BY <1>3, <2>1, <2>3, TracksByMirror DEF Engaged
<1>5. CASE c.bad
  <2>1. NoCall.pc = "idle"
    BY DEF NoCall
  <2>2. Known(env, NoCall) /\ NoCall.pc \notin Inner \cup {"dead"}
    BY <2>1 DEF Known, Inner
  <2>3. thr' = [thr EXCEPT ![t] = NoCall] /\ hw' = hw /\ env' = env /\ reg' = m
    BY <1>1, <1>5
  <2> HIDE DEF m
  <2> QED
    BY <1>2, <1>3, <1>4, <2>2, <2>3, AloneTracks
<1>6. CASE ~c.bad
  <2>1. /\ d.pc = FirstAccess(c.op) /\ d.op = c.op /\ d.fld = c.fld /\ d.ok = c.ok
        /\ d.val = v /\ d.exp = e
    <3> HIDE DEF v, e
    <3> QED
      BY DEF Calls
  <2>2. d.pc \in {"busW", "busR", "rawW", "rawR"}
    BY <2>1 DEF FirstAccess
  <2>3. d.op = "update" /\ d.exp # None => WillArrive(env, d, m)
    <3>1. d.op = "update" => d.val = c.val /\ d.exp = c.exp
      BY <2>1
    <3> HIDE DEF d, m
    <3> QED
      BY <1>3, <2>1, <3>1 DEF WillArrive
  <2>4. d.op = "fwrite" /\ d.fld \notin env.single => WillSpare(env, d, m)
    <3> SUFFICES ASSUME d.op = "fwrite", d.fld \notin env.single PROVE WillSpare(env, d, m)
      OBVIOUS
    <3>1. d.val = Adjusted(r, c.fld, c.val) /\ d.fld = c.fld
      BY <2>1
    <3> HIDE DEF d, m
    <3> SUFFICES ASSUME NEW g \in Fields \ {d.fld}, NEW b \in BOOLEAN,
                        env.acc[g] \notin SideEffect \cup Once \cup {"W1CRS"}
                 PROVE  HwWritten(env.acc[g], m.mir[g], d.val[g], b) = m.mir[g]
      BY DEF WillSpare
    <3>2. env.acc[g] \in Policies /\ r.mir[g] \in Bit
      BY <1>2, PoliciesTyped DEF Regs, Value
    <3>3. d.val[g] = CASE env.acc[g] \in {"RO", "RC", "RS", "W1C", "W1S", "W1T", "W1SRC"} -> 0
                       [] env.acc[g] \in {"W0C", "W0S", "W0T", "W0SRC", "W0CRS"} -> 1
                       [] env.acc[g] \in SideEffect -> 0
                       [] OTHER -> r.mir[g]
      BY <3>1 DEF Adjusted
    <3> QED
      BY <1>3, <3>2, <3>3, AdjustedTable
  <2>5. Known(env, d)
    <3> HIDE DEF d
    <3> QED
      BY <2>1, <2>2 DEF Known
  <2>6. Predictable => Tracks(env, d, hw, m)
    <3>1. /\ d.pc = "busW" => d.op \in {"write", "update", "fwrite"}
          /\ d.pc = "busR" => d.op \in {"read", "mirror", "fread"}
          /\ d.pc = "rawR" => d.op \in {"bwrite", "bread", "peek", "fpoke"}
          /\ d.pc = "rawW" => d.op \in {"bwrite", "poke", "fpoke"}
      <4> HIDE DEF d
      <4> QED
        BY <1>2, <2>1 DEF FirstAccess, Operations
    <3>2. d.op = "mirror" => d.exp = reg.mir
      BY <2>1 DEF Expected
    <3> HIDE DEF d, m
    <3> QED
      BY <1>3, <1>4, <2>1, <2>2, <2>3, <2>4, <3>1, <3>2 DEF Tracks
  <2>7. d.pc \in Inner
    BY <2>2 DEF Inner
  <2>8. thr' = [thr EXCEPT ![t] = d] /\ hw' = hw /\ env' = env /\ reg' = m
    BY <1>1, <1>6
  <2> HIDE DEF m, d
  <2> QED
    BY <1>2, <1>3, <1>4, <2>5, <2>6, <2>7, <2>8, AloneTracks
<1> QED
  BY <1>2, <1>5, <1>6

LEMMA CallTracks ==
  ASSUME LInv, MInv, NEW t \in Threads, NEW op \in env.ops, NEW f \in env.on \cup {None},
         NEW w \in Value, NEW bad \in BOOLEAN, Call(t, op, f, w, bad)
  PROVE  MInv'
<1> DEFINE up == [g \in Fields |-> XupdateX(env.acc[g], reg.des[g], reg.mir[g])]
           x == IF op = "update" THEN up ELSE w
           e == IF op = "update" THEN reg.des ELSE None
           c == [NoCall EXCEPT !.op = op, !.fld = f, !.bad = bad, !.val = x, !.exp = e]
           r == IF op = "fwrite" THEN Set(reg, f, w[f]) ELSE reg
           d == [c EXCEPT !.pc = "wait", !.exp = None]
<1>1. /\ Pc(t) = "idle" /\ Undisturbed(t)
      /\ (f # None) = (op \in {"fwrite", "fread", "fpoke"})
  BY DEF Call
<1>2. IF op \in {"poke", "peek"} /\ lock.byField
      THEN Enter(t, c, r, lock)
      ELSE IF Available(lock, t)
      THEN Enter(t, c, r, Acquired(lock, t))
      ELSE /\ thr' = [thr EXCEPT ![t] = d] /\ reg' = r /\ UNCHANGED <<env, hw, lock>>
  BY DEF Call, NoCall
<1>3. /\ env \in Settings /\ reg \in Regs /\ thr \in [Threads -> Calls]
      /\ CloseReg(env, reg)
  BY Types DEF LInv, MInv
<1>4. x \in Value /\ e \in Value \cup {None} /\ op \in Operations /\ f \in Fields \cup {None}
  <2>1. reg.des \in Value /\ reg.mir \in Value
    BY <1>3 DEF Regs
  <2>2. up \in Value
    BY <2>1, TablesGiveBits DEF Value
  <2> QED
    BY <1>3, <2>1, <2>2, SettingTypes
<1>5. r \in Regs /\ CloseReg(env, r) /\ r.mir = reg.mir /\ r.written = reg.written
  <2>1. CASE op = "fwrite"
    <3>1. f \in Fields /\ w[f] \in Bit
      BY <1>1, <1>4, <2>1 DEF Value
    <3> QED
      BY <1>3, <2>1, <3>1, SetTypes, SetKeepsClose
  <2> QED
    BY <1>3, <2>1
<1>6. /\ c \in Calls /\ c.op = op /\ c.fld = f /\ c.ok = TRUE /\ c.val = x /\ c.exp = e
      /\ d.pc = "wait" /\ d.op = op /\ d.fld = f /\ d.ok = TRUE /\ d.exp = None
  <2> HIDE DEF x, e
  <2> QED
    BY <1>4, ZeroIsValue DEF NoCall, Calls
<1>7. ~Engaged(t)
  BY <1>1 DEF Engaged, Inside
<1>8. op \in {"update", "mirror"} => f = None
  BY <1>1
<1>9. op = "fwrite" => f \in env.on
  BY <1>1
<1>10. c.op = "update" => WillArrive(env, c, reg)
  <2> SUFFICES ASSUME c.op = "update", NEW g \in Fields
               PROVE  LET h == HwWritten(env.acc[g], reg.mir[g], c.val[g], reg.written[g])
                      IN  h = c.exp[g] \/ (env.acc[g] \in SideEffect /\ reg.mir[g] = c.exp[g])
    BY DEF WillArrive
  <2>1. c.val[g] = XupdateX(env.acc[g], reg.des[g], reg.mir[g]) /\ c.exp[g] = reg.des[g]
    BY <1>6
  <2>2. /\ env.acc[g] \in Policies /\ reg.des[g] \in Bit /\ reg.mir[g] \in Bit
        /\ reg.written[g] \in BOOLEAN
    BY <1>3, PoliciesTyped DEF Regs, Value
  <2>3. Close(env.acc[g], reg.des[g], reg.mir[g], reg.written[g])
    BY <1>3 DEF CloseReg
  <2> HIDE DEF c
  <2> QED
    BY <2>1, <2>2, <2>3, UpdateTable
<1>11. ASSUME NEW l, Enter(t, c, r, l), Orderly => Available(lock, t) PROVE MInv'
  <2> HIDE DEF c, r
  <2> QED
    BY <1>5, <1>6, <1>7, <1>8, <1>9, <1>10, <1>11, EnterTracks
<1> HIDE DEF c, r
<1>12. CASE op \in {"poke", "peek"} /\ lock.byField
  <2>1. ~Orderly
    BY <1>1, <1>7, <1>12, ByFieldExcludes
  <2> QED
    BY <1>2, <1>11, <1>12, <2>1
<1>13. CASE ~(op \in {"poke", "peek"} /\ lock.byField) /\ Available(lock, t)
  BY <1>2, <1>11, <1>13
<1>14. CASE ~(op \in {"poke", "peek"} /\ lock.byField) /\ ~Available(lock, t)
  <2>1. thr' = [thr EXCEPT ![t] = d] /\ reg' = r /\ UNCHANGED <<env, hw>>
    BY <1>2, <1>14
  <2> HIDE DEF d
  <2>2. Known(env, d)
    BY <1>6, <1>8, <1>9 DEF Known
  <2>3. d.pc \notin Inner \cup {"dead"}
    BY <1>6 DEF Inner
  <2> QED
    BY <1>3, <1>5, <1>7, <2>1, <2>2, <2>3, BesideTracks
<1> QED
  BY <1>12, <1>13, <1>14

LEMMA LockTracks ==
  ASSUME LInv, MInv, NEW t \in Threads, Lock(t)
  PROVE  MInv'
<1>1. reg \in Regs /\ lock \in Locks /\ thr[t] \in Calls /\ CloseReg(env, reg)
  BY Types DEF LInv, MInv
<1>2. /\ ~Engaged(t) /\ Available(lock, t) /\ thr[t].pc = "wait"
      /\ Enter(t, thr[t], reg, Acquired(lock, t))
  BY DEF Lock, Engaged, Inside, Pc
<1>3. Known(env, thr[t])
  BY DEF MInv
<1>4. /\ thr[t].op \in env.ops /\ thr[t].ok /\ thr[t].exp = None
      /\ thr[t].op \in {"update", "mirror"} => thr[t].fld = None
      /\ thr[t].op = "fwrite" => thr[t].fld \in env.on
  BY <1>2, <1>3 DEF Known
<1> QED
  BY <1>1, <1>2, <1>4, EnterTracks

-----------------------------------------------------------------------------
(* While a process is inside nobody else is. *)
LEMMA InsideAlone ==
  ASSUME LInv, MInv, NEW t \in Threads, Inside(t), Predictable
  PROVE  /\ \A x \in Threads \ {t} : ~Inside(x)
         /\ Tracks(env, thr[t], hw, reg)
BY DEF LInv, MInv, Custody, Predictable, Engaged

(* An access goes on: what the call is for stays. *)
LEMMA GoesOn ==
  ASSUME LInv, MInv, NEW t \in Threads, Inside(t), NEW c, thr' = [thr EXCEPT ![t] = c],
         c.pc \in Inner, c.op = thr[t].op, c.fld = thr[t].fld, env' = env,
         CloseReg(env, reg'), Predictable => Tracks(env, c, hw', reg')
  PROVE  MInv'
<1>1. Known(env, thr[t]) /\ thr \in [Threads -> Calls]
  BY Types DEF LInv, MInv
<1>2. Known(env, c)
  BY <1>1 DEF Known, Inside, Pc, Inner
<1>3. Predictable => \A x \in Threads \ {t} : ~Inside(x)
  BY InsideAlone
<1> QED
  BY <1>1, <1>2, <1>3, AloneTracks

(* An access ends. *)
LEMMA Ends ==
  ASSUME LInv, MInv, NEW t \in Threads, Inside(t), NEW r, Return(t, r),
         CloseReg(env, r), Predictable => Synced(env, hw, r)
  PROVE  MInv'
<1>1. thr' = [thr EXCEPT ![t] = NoCall] /\ env' = env /\ hw' = hw /\ reg' = r
  BY DEF Return
<1>2. Known(env, NoCall) /\ NoCall.pc \notin Inner \cup {"dead"}
  BY DEF Known, Inner, NoCall
<1>3. thr \in [Threads -> Calls]
  BY Types DEF LInv
<1>4. Predictable => \A x \in Threads \ {t} : ~Inside(x)
  BY InsideAlone
<1> QED
  BY <1>1, <1>2, <1>3, <1>4, AloneTracks

LEMMA BusWriteTracks ==
  ASSUME LInv, MInv, NEW t \in Threads, BusWrite(t)
  PROVE  MInv'
<1> DEFINE c == thr[t]
           d == [c EXCEPT !.pc = "backW"]
           n == [c EXCEPT !.pc = "backW", !.ok = FALSE]
<1>1. /\ env \in Settings /\ reg \in Regs /\ thr \in [Threads -> Calls] /\ c \in Calls
      /\ hw.val \in Value /\ c.val \in Value /\ CloseReg(env, reg)
  BY Types DEF LInv, MInv, Calls
<1>2. Inside(t) /\ c.pc = "busW" /\ UNCHANGED <<env, reg>>
  BY DEF BusWrite, Inside, Pc
<1>3. Predictable => /\ Tracks(env, c, hw, reg) /\ Synced(env, hw, reg)
                     /\ c.ok /\ c.op \in {"write", "update", "fwrite"}
  BY <1>2, InsideAlone DEF Tracks
<1>4. /\ d.pc = "backW" /\ d.op = c.op /\ d.fld = c.fld /\ d.ok = c.ok /\ d.val = c.val
      /\ n.pc = "backW" /\ n.op = c.op /\ n.fld = c.fld /\ n.ok = FALSE
  BY <1>1 DEF Calls
<1>5. ASSUME hw' = [val |-> [f \in Fields |->
                       IF f \in Touched(c)
                       THEN HwWritten(env.acc[f], hw.val[f], c.val[f], f \in hw.once)
                       ELSE hw.val[f]],
                    once |-> hw.once \cup Touched(c)],
             thr' = [thr EXCEPT ![t] = d]
      PROVE  MInv'
  <2>1. ASSUME Predictable PROVE Written(env, d, hw', reg)
    <3> SUFFICES ASSUME NEW f \in Fields
                 PROVE  IF f \in Reached(env, d)
                        THEN /\ hw'.val[f] = XpredictX(env.acc[f], reg.mir[f], d.val[f],
                                                       reg.written[f])
                             /\ f \in hw'.once
                        ELSE Agrees(env, hw', reg, f)
      BY DEF Written
    <3>1. Reached(env, d) = Touched(c)
      BY <1>4 DEF Reached, Touched
    <3>2. /\ Agrees(env, hw, reg, f) /\ env.acc[f] \in Policies /\ c.val[f] \in Bit
          /\ reg.mir[f] \in Bit /\ reg.written[f] \in BOOLEAN
      BY <1>1, <1>3, <2>1, PoliciesTyped DEF Synced, Regs, Value
    <3>3. /\ hw'.val[f] = IF f \in Touched(c)
                          THEN HwWritten(env.acc[f], hw.val[f], c.val[f], f \in hw.once)
                          ELSE hw.val[f]
          /\ f \in hw'.once <=> (f \in hw.once \/ f \in Touched(c))
      BY <1>5
    <3>4. HwWritten(env.acc[f], reg.mir[f], c.val[f], f \in hw.once)
            = XpredictX(env.acc[f], reg.mir[f], c.val[f], reg.written[f])
      <4> DEFINE b == f \in hw.once
      <4>1. b \in BOOLEAN
        OBVIOUS
      <4>2. env.acc[f] \in Once => b = reg.written[f]
        BY <3>2 DEF Agrees
      <4> HIDE DEF b
      <4>3. HwWritten(env.acc[f], reg.mir[f], c.val[f], b)
              = HwWritten(env.acc[f], reg.mir[f], c.val[f], reg.written[f])
        BY <3>2, <4>1, <4>2, OnlyOnceIsOnce
      <4>4. HwWritten(env.acc[f], reg.mir[f], c.val[f], b)
              = XpredictX(env.acc[f], reg.mir[f], c.val[f], reg.written[f])
        BY <3>2, <4>3, PredictionIsWriting
      <4> QED
        BY <4>4 DEF b
    <3> HIDE DEF c, d
    <3> QED
      BY <1>4, <3>1, <3>2, <3>3, <3>4 DEF Agrees
  <2>2. Predictable => Tracks(env, d, hw', reg)
    <3> HIDE DEF c, d
    <3> QED
      BY <1>3, <1>4, <2>1 DEF Tracks, Raw
  <2>3. d.pc \in Inner
    BY <1>4 DEF Inner
  <2> HIDE DEF c, d
  <2> QED
    BY <1>1, <1>2, <1>4, <1>5, <2>2, <2>3, GoesOn DEF c
<1>6. ASSUME env.errors, hw' = hw, thr' = [thr EXCEPT ![t] = n] PROVE MInv'
  <2>1. Predictable => c.fld \notin env.single
    BY <1>6 DEF Predictable
  <2>2. Predictable => Tracks(env, n, hw', reg)
    <3> HIDE DEF c, n
    <3> QED
      BY <1>3, <1>4, <1>6, <2>1 DEF Tracks, Raw
  <2>3. n.pc \in Inner
    BY <1>4 DEF Inner
  <2> HIDE DEF c, n
  <2> QED
    BY <1>1, <1>2, <1>4, <1>6, <2>2, <2>3, GoesOn DEF c
<1> QED
  BY <1>1, <1>5, <1>6 DEF BusWrite

LEMMA BusReadTracks ==
  ASSUME LInv, MInv, NEW t \in Threads, BusRead(t)
  PROVE  MInv'
<1> DEFINE c == thr[t]
           g == [f \in Fields |->
                   IF f \in Touched(c) /\ env.acc[f] \notin WriteOnly THEN hw.val[f] ELSE 0]
           d == [c EXCEPT !.pc = "backR", !.got = g]
           n == [c EXCEPT !.pc = "backR", !.ok = FALSE]
<1>1. /\ hw \in [val : Value, once : SUBSET Fields] /\ thr \in [Threads -> Calls]
      /\ c \in Calls /\ CloseReg(env, reg)
  BY Types DEF LInv, MInv
<1>2. Inside(t) /\ c.pc = "busR" /\ UNCHANGED <<env, reg>>
  BY DEF BusRead, Inside, Pc
<1>3. Predictable => /\ Synced(env, hw, reg) /\ c.ok
                     /\ c.op \in {"read", "mirror", "fread"}
  BY <1>2, InsideAlone DEF Tracks
<1>4. /\ d.pc = "backR" /\ d.op = c.op /\ d.fld = c.fld /\ d.ok = c.ok /\ d.got = g
      /\ n.pc = "backR" /\ n.op = c.op /\ n.fld = c.fld /\ n.ok = FALSE
  <2> HIDE DEF g
  <2> QED
    BY <1>1 DEF Calls
<1>5. ASSUME hw' = [hw EXCEPT !.val = [f \in Fields |->
                       IF f \in Touched(c) THEN HwRead(env.acc[f], hw.val[f]) ELSE hw.val[f]]],
             thr' = [thr EXCEPT ![t] = d]
      PROVE  MInv'
  <2>1. ASSUME Predictable PROVE ReadOut(env, d, hw', reg)
    <3> SUFFICES ASSUME NEW f \in Fields
                 PROVE  /\ env.acc[f] \in Once => (reg.written[f] <=> f \in hw'.once)
                        /\ hw'.val[f] = IF f \in Reached(env, d)
                                        THEN HwRead(env.acc[f], reg.mir[f]) ELSE reg.mir[f]
                        /\ f \in Reached(env, d) /\ env.acc[f] \notin WriteOnly =>
                             d.got[f] = reg.mir[f]
      BY DEF ReadOut
    <3>1. Reached(env, d) = Touched(c)
      BY <1>4 DEF Reached, Touched
    <3>2. Agrees(env, hw, reg, f)
      BY <1>3, <2>1 DEF Synced
    <3>3. /\ hw'.val[f] = IF f \in Touched(c) THEN HwRead(env.acc[f], hw.val[f])
                          ELSE hw.val[f]
          /\ hw'.once = hw.once
      BY <1>1, <1>5
    <3>4. f \in Touched(c) /\ env.acc[f] \notin WriteOnly => d.got[f] = hw.val[f]
      BY <1>4
    <3> HIDE DEF c, d
    <3> QED
      BY <3>1, <3>2, <3>3, <3>4 DEF Agrees
  <2>2. Predictable => Tracks(env, d, hw', reg)
    <3> HIDE DEF c, d
    <3> QED
      BY <1>3, <1>4, <2>1 DEF Tracks, Raw
  <2>3. d.pc \in Inner
    BY <1>4 DEF Inner
  <2> HIDE DEF c, d
  <2> QED
    BY <1>1, <1>2, <1>4, <1>5, <2>2, <2>3, GoesOn DEF c
<1>6. ASSUME env.errors, hw' = hw, thr' = [thr EXCEPT ![t] = n] PROVE MInv'
  <2>1. Predictable => c.fld \notin env.single
    BY <1>6 DEF Predictable
  <2>2. Predictable => Tracks(env, n, hw', reg)
    <3> HIDE DEF c, n
    <3> QED
      BY <1>3, <1>4, <1>6, <2>1 DEF Tracks, Raw
  <2>3. n.pc \in Inner
    BY <1>4 DEF Inner
  <2> HIDE DEF c, n
  <2> QED
    BY <1>1, <1>2, <1>4, <1>6, <2>2, <2>3, GoesOn DEF c
<1> QED
  BY <1>1, <1>5, <1>6 DEF BusRead

LEMMA RawTracks ==
  ASSUME LInv, MInv, NEW t \in Threads, RawWrite(t) \/ RawRead(t)
  PROVE  MInv'
<1> DEFINE c == thr[t]
           d == [c EXCEPT !.pc = "backW"]
           n == [c EXCEPT !.pc = "backR", !.got = hw.val]
<1>1. /\ hw \in [val : Value, once : SUBSET Fields] /\ thr \in [Threads -> Calls]
      /\ c \in Calls /\ CloseReg(env, reg)
  BY Types DEF LInv, MInv
<1>2. Inside(t) /\ UNCHANGED <<env, reg>>
  BY DEF RawWrite, RawRead, Inside, Pc
<1>3. Predictable => Tracks(env, c, hw, reg)
  BY <1>2, InsideAlone
<1>4. /\ d.pc = "backW" /\ d.op = c.op /\ d.fld = c.fld /\ d.val = c.val
      /\ n.pc = "backR" /\ n.op = c.op /\ n.fld = c.fld /\ n.got = hw.val
  BY <1>1 DEF Calls
<1>5. d.pc \in Inner /\ n.pc \in Inner
  BY <1>4 DEF Inner
<1>6. CASE RawWrite(t)
  <2>1. c.pc = "rawW" /\ thr' = [thr EXCEPT ![t] = d] /\ hw'.val = c.val
    BY <1>1, <1>6 DEF RawWrite, Pc
  <2>2. Predictable => Tracks(env, d, hw', reg)
    <3> HIDE DEF c, d
    <3> QED
      BY <1>3, <1>4, <2>1 DEF Tracks
  <2> HIDE DEF c, d
  <2> QED
    BY <1>1, <1>2, <1>4, <1>5, <2>1, <2>2, GoesOn DEF c
<1>7. CASE RawRead(t)
  <2>1. c.pc = "rawR" /\ thr' = [thr EXCEPT ![t] = n] /\ hw' = hw
    BY <1>1, <1>7 DEF RawRead, Pc
  <2>2. Predictable => Tracks(env, n, hw', reg)
    <3> HIDE DEF c, n
    <3> QED
      BY <1>3, <1>4, <2>1 DEF Tracks
  <2> HIDE DEF c, n
  <2> QED
    BY <1>1, <1>2, <1>4, <1>5, <2>1, <2>2, GoesOn DEF c
<1> QED
  BY <1>6, <1>7

(* The mirror is predicted with what the hardware has. *)
LEMMA PredictedSynced ==
  ASSUME NEW e, NEW h, NEW r \in Regs, NEW v, NEW w \in BOOLEAN, v = h.val,
         w => \A f \in Fields : e.acc[f] \notin Once,
         ~w => Synced(e, h, r)
  PROVE  Synced(e, h, Predicted(r, Fields, v, w))
<1> SUFFICES ASSUME NEW f \in Fields PROVE Agrees(e, h, Predicted(r, Fields, v, w), f)
  BY DEF Synced
<1> DEFINE s == Predicted(r, Fields, v, w)
<1>1. s.mir[f] = v[f] /\ (s.written[f] <=> r.written[f] \/ w)
  BY DEF Predicted
<1>2. ~w => Agrees(e, h, r, f)
  BY DEF Synced
<1> HIDE DEF s
<1>3. Agrees(e, h, s, f)
  BY <1>1, <1>2 DEF Agrees
<1> QED
  BY <1>3 DEF s

LEMMA CompletedTracks ==
  ASSUME LInv, MInv, NEW t \in Threads, Completed(t)
  PROVE  MInv'
<1> DEFINE c == thr[t]
           v == IF c.op = "fpoke" THEN [c.got EXCEPT ![c.fld] = c.val[c.fld]]
                ELSE [f \in Fields |->
                        XpredictX(env.acc[f], c.got[f], c.val[f], reg.written[f])]
           d == [c EXCEPT !.pc = "rawW", !.val = v]
           p == Predicted(reg, Fields, c.got, FALSE)
<1>1. /\ reg \in Regs /\ thr \in [Threads -> Calls] /\ c \in Calls /\ CloseReg(env, reg)
  BY Types DEF LInv, MInv
<1>2. /\ Inside(t) /\ c.pc = "backR" /\ c.op \in {"bwrite", "fpoke"}
      /\ UNCHANGED <<env, hw>> /\ thr' = [thr EXCEPT ![t] = d]
      /\ reg' = IF c.op = "fpoke" THEN p ELSE reg
  BY DEF Completed, Inside, Pc
<1>3. Predictable => Synced(env, hw, reg) /\ c.got = hw.val
  BY <1>2, InsideAlone DEF Tracks, Raw
<1>4. d.pc = "rawW" /\ d.op = c.op /\ d.fld = c.fld
  <2> HIDE DEF v
  <2> QED
    BY <1>1 DEF Calls
<1>5. CloseReg(env, p) /\ (Predictable => Synced(env, hw, p))
  BY <1>1, <1>3, PredictionKeepsClose, PredictedSynced
<1>6. CloseReg(env, reg') /\ (Predictable => Synced(env, hw, reg'))
  <2> HIDE DEF p
  <2> QED
    BY <1>1, <1>2, <1>3, <1>5
<1>7. Predictable => Tracks(env, d, hw', reg')
  <2> HIDE DEF c, d
  <2> QED
    BY <1>2, <1>4, <1>6 DEF Tracks
<1>8. d.pc \in Inner
  BY <1>4 DEF Inner
<1> HIDE DEF c, d
<1> QED
  BY <1>2, <1>4, <1>6, <1>7, <1>8, GoesOn DEF c

LEMMA WriteReturnTracks ==
  ASSUME LInv, MInv, NEW t \in Threads, WriteReturns(t)
  PROVE  MInv'
<1> DEFINE c == thr[t]
           p == Predicted(reg, Fields, c.val, TRUE)
           q == PredictWrite(reg, Touched(c), c.val)
           r == IF c.op \in Raw THEN p
                ELSE IF c.ok \/ c.fld \in env.single THEN q ELSE reg
<1>1. reg \in Regs /\ CloseReg(env, reg) /\ Known(env, c)
  BY Types DEF LInv, MInv
<1>2. Inside(t) /\ c.pc = "backW" /\ Return(t, r)
  BY DEF WriteReturns, Inside, Pc
<1>3. Predictable => Tracks(env, c, hw, reg)
  BY <1>2, InsideAlone
<1>4. CloseReg(env, p) /\ CloseReg(env, q)
  BY <1>1, PredictionKeepsClose
<1>5. ASSUME Predictable, c.op \in Raw PROVE Synced(env, hw, p)
  <2>1. c.op \in {"bwrite", "poke", "fpoke"} /\ hw.val = c.val
    BY <1>2, <1>3, <1>5 DEF Tracks
  <2>2. \A f \in Fields : env.acc[f] \notin Once
    BY <1>1, <1>2, <1>5, <2>1 DEF Known, Predictable
  <2> QED
    BY <1>1, <2>1, <2>2, PredictedSynced
<1>6. ASSUME Written(env, c, hw, reg) PROVE Synced(env, hw, q)
  <2> SUFFICES ASSUME NEW f \in Fields PROVE Agrees(env, hw, q, f)
    BY DEF Synced
  <2>1. /\ q.mir[f] = IF f \in Touched(c)
                      THEN XpredictX(env.acc[f], reg.mir[f], c.val[f], reg.written[f])
                      ELSE reg.mir[f]
        /\ q.written[f] <=> (reg.written[f] \/ f \in Touched(c))
    BY DEF PredictWrite, Predicted
  <2>2. Touched(c) = Reached(env, c)
    BY DEF Touched, Reached
  <2>3. IF f \in Reached(env, c)
        THEN /\ hw.val[f] = XpredictX(env.acc[f], reg.mir[f], c.val[f], reg.written[f])
             /\ f \in hw.once
        ELSE Agrees(env, hw, reg, f)
    BY <1>6 DEF Written
  <2> HIDE DEF q, c
  <2> QED
    BY <2>1, <2>2, <2>3 DEF Agrees
<1> HIDE DEF p, q, c
<1>7. CloseReg(env, r)
  BY <1>1, <1>4
<1>8. Predictable => Synced(env, hw, r)
  BY <1>2, <1>3, <1>5, <1>6 DEF Tracks, Raw
<1> QED
  BY <1>2, <1>7, <1>8, Ends

LEMMA ReadReturnTracks ==
  ASSUME LInv, MInv, NEW t \in Threads, ReadReturns(t)
  PROVE  MInv'
<1> DEFINE c == thr[t]
           p == Predicted(reg, Fields, c.got, FALSE)
           q == PredictRead(reg, Touched(c), c.got)
           r == IF c.op \in Raw THEN p
                ELSE IF c.ok \/ c.fld \in env.single THEN q ELSE reg
<1>1. reg \in Regs /\ CloseReg(env, reg)
  BY Types DEF LInv, MInv
<1>2. Inside(t) /\ c.pc = "backR" /\ Return(t, r)
  BY DEF ReadReturns, Inside, Pc
<1>3. Predictable => Tracks(env, c, hw, reg)
  BY <1>2, InsideAlone
<1>4. CloseReg(env, p) /\ CloseReg(env, q)
  BY <1>1, PredictionKeepsClose
<1>5. ASSUME Predictable, c.op \in Raw PROVE Synced(env, hw, p)
  <2>1. Synced(env, hw, reg) /\ c.got = hw.val
    BY <1>2, <1>3, <1>5 DEF Tracks
  <2> QED
    BY <1>1, <2>1, PredictedSynced
<1>6. ASSUME ReadOut(env, c, hw, reg) PROVE Synced(env, hw, q)
  <2> SUFFICES ASSUME NEW f \in Fields PROVE Agrees(env, hw, q, f)
    BY DEF Synced
  <2>1. /\ q.mir[f] = IF f \in Touched(c) /\ env.acc[f] \notin WriteOnly
                      THEN HwRead(env.acc[f], c.got[f]) ELSE reg.mir[f]
        /\ q.written[f] <=> reg.written[f]
    BY DEF PredictRead, Predicted
  <2>2. Touched(c) = Reached(env, c)
    BY DEF Touched, Reached
  <2>3. /\ env.acc[f] \in Once => (reg.written[f] <=> f \in hw.once)
        /\ hw.val[f] = IF f \in Reached(env, c) THEN HwRead(env.acc[f], reg.mir[f])
                       ELSE reg.mir[f]
        /\ f \in Reached(env, c) /\ env.acc[f] \notin WriteOnly => c.got[f] = reg.mir[f]
    BY <1>6 DEF ReadOut
  <2>4. env.acc[f] \in WriteOnly => HwRead(env.acc[f], reg.mir[f]) = reg.mir[f]
    BY DEF WriteOnly, HwRead, ClearedByRead, SetByRead
  <2> HIDE DEF q, c
  <2> QED
    BY <2>1, <2>2, <2>3, <2>4 DEF Agrees
<1> HIDE DEF p, q, c
<1>7. CloseReg(env, r)
  BY <1>1, <1>4
<1>8. Predictable => Synced(env, hw, r)
  BY <1>2, <1>3, <1>5, <1>6 DEF Tracks, Raw
<1> QED
  BY <1>2, <1>7, <1>8, Ends

LEMMA BackdoorReturnTracks ==
  ASSUME LInv, MInv, NEW t \in Threads, BackdoorReadReturns(t)
  PROVE  MInv'
<1> DEFINE c == thr[t]
           d == [c EXCEPT !.pc = "rawW", !.val = ReadEffect(c.got)]
           p == Predicted(reg, Fields, Masked(c.got), FALSE)
<1>1. /\ reg \in Regs /\ CloseReg(env, reg) /\ Known(env, c) /\ c \in Calls
      /\ thr \in [Threads -> Calls]
  BY Types DEF LInv, MInv
<1>2. c.op = "bread" /\ c.pc \in {"backR", "backW"} /\ Inside(t)
  BY DEF BackdoorReadReturns, Inside, Pc
<1>3. Predictable => /\ c.pc = "backR" /\ Synced(env, hw, reg) /\ c.got = hw.val
                     /\ ReadEffect(c.got) = c.got /\ Masked(c.got) = c.got
  <2> SUFFICES ASSUME Predictable
               PROVE  /\ c.pc = "backR" /\ Synced(env, hw, reg) /\ c.got = hw.val
                      /\ ReadEffect(c.got) = c.got /\ Masked(c.got) = c.got
    OBVIOUS
  <2>1. Tracks(env, c, hw, reg)
    BY <1>2, InsideAlone
  <2>2. c.pc = "backR" /\ Synced(env, hw, reg) /\ c.got = hw.val
    BY <1>2, <2>1 DEF Tracks, Raw
  <2>3. \A f \in Fields : env.acc[f] \notin ClearedByRead \cup SetByRead \cup WriteOnly
    BY <1>1, <1>2 DEF Known, Predictable
  <2>4. c.got \in [Fields -> Bit]
    BY <1>1 DEF Calls, Value
  <2> HIDE DEF c
  <2> QED
    BY <2>2, <2>3, <2>4 DEF ReadEffect, Masked, HwRead
<1>4. CASE c.pc = "backR" /\ ReadEffect(c.got) # c.got
  <2>1. thr' = [thr EXCEPT ![t] = d] /\ UNCHANGED <<env, hw, reg>>
    BY <1>4 DEF BackdoorReadReturns, Pc
  <2>2. d.pc = "rawW" /\ d.op = c.op /\ d.fld = c.fld
    BY <1>1 DEF Calls
  <2>3. d.pc \in Inner
    BY <2>2 DEF Inner
  <2> HIDE DEF d
  <2> QED
    BY <1>1, <1>2, <1>3, <1>4, <2>1, <2>2, <2>3, GoesOn
<1>5. CASE ~(c.pc = "backR" /\ ReadEffect(c.got) # c.got)
  <2>1. Return(t, p)
    BY <1>5 DEF BackdoorReadReturns, Pc
  <2>2. CloseReg(env, p)
    BY <1>1, PredictionKeepsClose
  <2>3. Predictable => Synced(env, hw, p)
    BY <1>1, <1>3, PredictedSynced
  <2> HIDE DEF p
  <2> QED
    BY <1>2, <2>1, <2>2, <2>3, Ends
<1> QED
  BY <1>4, <1>5

LEMMA KillTracks ==
  ASSUME LInv, MInv, NEW t \in Threads, Kill(t)
  PROVE  MInv'
<1> DEFINE n == [NoCall EXCEPT !.pc = "dead"]
<1>1. thr \in [Threads -> Calls] /\ env \in Settings /\ CloseReg(env, reg)
  BY Types DEF LInv, MInv
<1>2. /\ Pc(t) # "idle" /\ thr[t].op \in env.kills /\ UNCHANGED <<env, hw, reg>>
      /\ thr' = [thr EXCEPT ![t] = IF Inside(t) THEN n ELSE NoCall]
  BY DEF Kill
<1>3. NoCall.pc = "idle" /\ n.pc = "dead"
  BY DEF NoCall
<1>4. /\ Known(env, NoCall) /\ Known(env, n) /\ n.pc \notin Inner /\ n.pc = "dead"
      /\ NoCall.pc \notin Inner \cup {"dead"}
  BY <1>3 DEF Known, Inner
<1> HIDE DEF n
<1>5. CASE Inside(t)
  <2>1. Predictable => \A x \in Threads \ {t} : ~Inside(x)
    BY <1>5, InsideAlone
  <2> QED
    BY <1>1, <1>2, <1>4, <1>5, <2>1, AloneTracks
<1>6. CASE ~Inside(t) /\ Pc(t) = "dead"
  <2>1. ~Predictable
    <3> SUFFICES ASSUME Predictable PROVE FALSE
      OBVIOUS
    <3>1. thr[t].op = "none"
      BY <1>6 DEF LInv, Predictable, Custody, Engaged
    <3>2. "none" \notin env.kills
      BY <1>1, SettingTypes DEF Operations
    <3> QED
      BY <1>2, <3>1, <3>2
  <2>2. thr' = [thr EXCEPT ![t] = NoCall] /\ env' = env /\ reg' = reg
    BY <1>2, <1>6
  <2> QED
    BY <1>1, <1>4, <2>1, <2>2, AloneTracks
<1>7. CASE ~Inside(t) /\ Pc(t) # "dead"
  <2>1. thr' = [thr EXCEPT ![t] = NoCall] /\ ~Engaged(t)
    BY <1>2, <1>7 DEF Engaged
  <2> QED
    BY <1>1, <1>2, <1>4, <2>1, BesideTracks
<1> QED
  BY <1>5, <1>6, <1>7

LEMMA ResetTracks ==
  ASSUME LInv, MInv, Reset
  PROVE  MInv'
<1>1. /\ \A f \in Fields : reg'.des[f] = 0 /\ reg'.mir[f] = 0 /\ hw'.val[f] = 0
      /\ \A f \in Fields : reg'.written[f] = FALSE /\ f \notin hw'.once
      /\ env' = env
      /\ \A t \in Threads : /\ ~Inside(t)
                            /\ thr'[t] = IF Pc(t) = "dead" THEN NoCall ELSE thr[t]
  BY DEF Reset, Zero
<1>2. CloseReg(env, reg')
  BY <1>1, CloseWhenEqual DEF CloseReg
<1>3. Synced(env, hw', reg')
  BY <1>1 DEF Synced, Agrees
<1>4. ASSUME NEW t \in Threads PROVE ~Inside(t)' /\ Known(env, thr'[t])
  <2>1. CASE Pc(t) = "dead"
    <3>1. thr'[t].pc = "idle"
      BY <1>1, <2>1 DEF NoCall
    <3> QED
      BY <3>1 DEF Known, Inside, Pc
  <2>2. CASE Pc(t) # "dead"
    BY <1>1, <2>2 DEF MInv, Inside, Pc
  <2> QED
    BY <2>1, <2>2
<1> QED
  BY <1>1, <1>2, <1>3, <1>4 DEF MInv

LEMMA SetTracks ==
  ASSUME LInv, MInv, NEW f \in Fields, NEW v \in Bit, SetDesired(f, v)
  PROVE  MInv'
<1>1. reg' = Set(reg, f, v) /\ UNCHANGED <<env, hw, thr>>
  BY DEF SetDesired
<1>2. env \in Settings /\ reg \in Regs /\ CloseReg(env, reg)
  BY Types DEF LInv, MInv
<1>3. CloseReg(env, reg') /\ reg'.mir = reg.mir /\ reg'.written = reg.written
  BY <1>1, <1>2, SetKeepsClose
<1>4. /\ Predictable' = Predictable /\ Quiet' = Quiet
      /\ \A t \in Threads : Inside(t)' = Inside(t)
  BY <1>1 DEF Predictable, Orderly, Quiet, Inside, Pc
<1>5. /\ Synced(env, hw, reg) => Synced(env, hw, reg')
      /\ \A t \in Threads : Tracks(env, thr[t], hw, reg) => Tracks(env, thr[t], hw, reg')
  BY <1>3, TracksByMirror
<1> QED
  BY <1>1, <1>3, <1>4, <1>5 DEF MInv

LEMMA MirrorInvariant == Spec => [](LInv /\ MInv)
<1>1. ASSUME LInv, MInv, [Next]_vars PROVE MInv'
  <2>1. ASSUME NEW t \in Threads, Access(t) PROVE MInv'
    BY <1>1, <2>1, CallTracks, LockTracks, BusWriteTracks, BusReadTracks, RawTracks,
       WriteReturnTracks, ReadReturnTracks, BackdoorReturnTracks, CompletedTracks,
       KillTracks DEF Access
  <2>2. CASE UNCHANGED vars
    BY <1>1, <2>2 DEF vars, MInv, Predictable, Orderly, Quiet, Inside, Pc
  <2> QED
    BY <1>1, <2>1, <2>2, ResetTracks, SetTracks DEF Next
<1>2. Init => MInv
  BY InitTracks
<1> QED
  BY <1>1, <1>2, LockInvariant, PTL DEF Spec

-----------------------------------------------------------------------------
(* A process is behind its bus write if it has just made it. *)
(* A process comes back from the bus by the access over the bus.           *)
LEMMA BackFromBus ==
  ASSUME LInv, [Next]_vars, NEW t \in Threads, Pc(t) \in {"busW", "busR"},
         thr'[t].pc \in {"backW", "backR"}
  PROVE  BusWrite(t) \/ BusRead(t)
<1>1. thr \in [Threads -> Calls] /\ thr[t].pc \in {"busW", "busR"}
  BY Types DEF LInv, Pc
<1>2. ASSUME NEW x \in Threads, Access(x) PROVE x = t
  <2>1. \E c : thr' = [thr EXCEPT ![x] = c]
    <3>1. ASSUME NEW op, NEW f, NEW v, NEW bad, Call(x, op, f, v, bad)
          PROVE  \E c : thr' = [thr EXCEPT ![x] = c]
      BY <3>1 DEF Call, Enter
    <3>2. CASE Lock(x)
      BY <3>2 DEF Lock, Enter
    <3>3. CASE BusWrite(x) \/ BusRead(x) \/ RawWrite(x) \/ RawRead(x)
      BY <1>1, <3>3 DEF BusWrite, BusRead, RawWrite, RawRead
    <3>4. CASE \/ WriteReturns(x) \/ ReadReturns(x) \/ BackdoorReadReturns(x)
               \/ Completed(x) \/ Kill(x)
      BY <1>1, <3>4 DEF WriteReturns, ReadReturns, BackdoorReadReturns, Completed, Kill,
                        Return
    <3> QED
      BY <1>2, <3>1, <3>2, <3>3, <3>4 DEF Access
  <2> QED
    BY <1>1, <2>1
<1>3. CASE Access(t)
  <2>1. /\ \A op, f, v, bad : ~Call(t, op, f, v, bad)
        /\ ~Lock(t)
    <3>1. ASSUME NEW op, NEW f, NEW v, NEW bad PROVE ~Call(t, op, f, v, bad)
      <4>1. Call(t, op, f, v, bad) => Pc(t) = "idle"
        BY Zenon DEF Call
      <4> QED
        BY <1>1, <4>1 DEF Pc
    <3>2. ~Lock(t)
      BY <1>1 DEF Lock, Pc
    <3> QED
      BY <3>1, <3>2
  <2>2. ~RawWrite(t) /\ ~RawRead(t) /\ ~WriteReturns(t)
    BY <1>1 DEF RawWrite, RawRead, WriteReturns, Pc
  <2>3. ~ReadReturns(t) /\ ~BackdoorReadReturns(t) /\ ~Completed(t)
    BY <1>1 DEF ReadReturns, BackdoorReadReturns, Completed, Pc
  <2>4. ~Kill(t)
    BY <1>1 DEF Kill, NoCall
  <2> QED
    BY <1>3, <2>1, <2>2, <2>3, <2>4 DEF Access
<1>4. ~Reset
  BY <1>1 DEF Reset, Pc
<1>5. \A f, v : ~SetDesired(f, v)
  BY <1>1 DEF SetDesired
<1>6. ~UNCHANGED vars
  BY <1>1 DEF vars
<1> QED
  BY <1>2, <1>3, <1>4, <1>5, <1>6 DEF Next

(* What a write over the bus does to one field. *)
LEMMA BusWriteDoes ==
  ASSUME LInv, MInv, Predictable, NEW t \in Threads, BusWrite(t), NEW f \in Fields
  PROVE  LET c == thr[t]
         IN  \/ /\ f \in Touched(c) => /\ hw'.val[f] = HwWritten(env.acc[f], reg.mir[f], c.val[f],
                                                               reg.written[f])
                                       /\ f \in hw'.once
                /\ f \notin Touched(c) => /\ hw'.val[f] = hw.val[f]
                                          /\ f \in hw'.once <=> f \in hw.once
             \/ hw' = hw /\ ~thr'[t].ok
<1> DEFINE c == thr[t]
<1>1. thr \in [Threads -> Calls]
  BY Types DEF LInv
<1>2. Inside(t) /\ c.pc = "busW"
  BY DEF BusWrite, Inside, Pc
<1>3. Agrees(env, hw, reg, f)
  BY <1>2, InsideAlone DEF Tracks, Synced
<1>4. \/ /\ hw'.val[f] = IF f \in Touched(c)
                         THEN HwWritten(env.acc[f], hw.val[f], c.val[f], f \in hw.once)
                         ELSE hw.val[f]
         /\ hw'.once = hw.once \cup Touched(c)
      \/ hw' = hw /\ ~thr'[t].ok
  <2> DEFINE n == [c EXCEPT !.pc = "backW", !.ok = FALSE]
             v == [g \in Fields |->
                     IF g \in Touched(c)
                     THEN HwWritten(env.acc[g], hw.val[g], c.val[g], g \in hw.once)
                     ELSE hw.val[g]]
  <2>1. n.ok = FALSE
    BY <1>1 DEF Calls
  <2>2. \/ hw' = [val |-> v, once |-> hw.once \cup Touched(c)]
        \/ hw' = hw /\ thr' = [thr EXCEPT ![t] = n]
    BY <1>1 DEF BusWrite
  <2>3. CASE hw' = [val |-> v, once |-> hw.once \cup Touched(c)]
    BY <2>3
  <2>4. CASE hw' = hw /\ thr' = [thr EXCEPT ![t] = n]
    <3> HIDE DEF n
    <3> QED
      BY <1>1, <2>1, <2>4
  <2> QED
    BY <2>2, <2>3, <2>4
<1>5. HwWritten(env.acc[f], reg.mir[f], c.val[f], f \in hw.once)
        = HwWritten(env.acc[f], reg.mir[f], c.val[f], reg.written[f])
  <2> DEFINE b == f \in hw.once
  <2>1. b \in BOOLEAN /\ reg.written[f] \in BOOLEAN
    BY Types DEF LInv, Regs
  <2>2. env.acc[f] \in Once => b = reg.written[f]
    BY <1>3, <2>1 DEF Agrees
  <2> HIDE DEF b
  <2>3. HwWritten(env.acc[f], reg.mir[f], c.val[f], b)
          = HwWritten(env.acc[f], reg.mir[f], c.val[f], reg.written[f])
    BY <2>1, <2>2, OnlyOnceIsOnce
  <2> QED
    BY <2>3 DEF b
<1> HIDE DEF c
<1>6. hw.val[f] = reg.mir[f]
  BY <1>3 DEF Agrees
<1> QED
  BY <1>4, <1>5, <1>6 DEF c

(* In a predictable test the mirrored value is what the hardware has       *)
(* whenever no process is at work, under every policy of every field.      *)
THEOREM MirrorIsRight == Spec => [](Predictable => MirrorTracks)
<1>1. LInv /\ MInv => (Predictable => MirrorTracks)
  <2> SUFFICES ASSUME LInv, MInv, Predictable, Quiet PROVE reg.mir = hw.val
    BY DEF MirrorTracks
  <2>1. reg.mir \in Value /\ hw.val \in Value
    BY Types DEF LInv, Regs
  <2>2. \A f \in Fields : reg.mir[f] = hw.val[f]
    BY DEF MInv, Synced, Agrees
  <2> QED
    BY <2>1, <2>2 DEF Value
<1> QED
  BY <1>1, MirrorInvariant, PTL

LEMMA TestStays ==
  ASSUME [Next]_vars
  PROVE  env' = env
<1>1. ASSUME NEW t \in Threads, Access(t) PROVE env' = env
  <2>1. ASSUME NEW op, NEW f, NEW v, NEW bad, Call(t, op, f, v, bad) PROVE env' = env
    BY <2>1 DEF Call, Enter
  <2>2. CASE Lock(t)
    BY <2>2 DEF Lock, Enter
  <2>3. CASE BusWrite(t) \/ BusRead(t) \/ RawWrite(t) \/ RawRead(t)
    BY <2>3 DEF BusWrite, BusRead, RawWrite, RawRead
  <2>4. CASE \/ WriteReturns(t) \/ ReadReturns(t) \/ BackdoorReadReturns(t)
             \/ Completed(t) \/ Kill(t)
    BY <2>4 DEF WriteReturns, ReadReturns, BackdoorReadReturns, Completed, Kill, Return
  <2> QED
    BY <1>1, <2>1, <2>2, <2>3, <2>4 DEF Access
<1> QED
  BY <1>1 DEF Next, SetDesired, Reset, vars

(* In a predictable test a mirror() that checks finds what it expects,     *)
(* under every policy and whoever waits for the register meanwhile.        *)
THEOREM MirrorsAgree == Spec /\ Predictable => MirrorAgrees
<1> DEFINE A == \A t \in Threads :
       /\ Pc(t) = "busR" /\ thr[t].op = "mirror"
       /\ thr'[t].pc = "backR" /\ thr'[t].ok
       => \A f \in Fields : env.acc[f] \notin WriteOnly =>
            thr'[t].got[f] = thr[t].exp[f]
<1>1. ASSUME LInv, MInv, Predictable, [Next]_vars PROVE A
  <2> SUFFICES ASSUME NEW t \in Threads, Pc(t) = "busR", thr[t].op = "mirror",
                      thr'[t].pc = "backR", thr'[t].ok, NEW f \in Fields,
                      env.acc[f] \notin WriteOnly
               PROVE  thr'[t].got[f] = thr[t].exp[f]
    OBVIOUS
  <2>1. BusRead(t)
    BY <1>1, BackFromBus DEF BusWrite, Pc
  <2>2. Inside(t) /\ thr[t].pc = "busR" /\ thr \in [Threads -> Calls]
    BY <1>1, Types DEF Inside, Pc, LInv
  <2>3. Synced(env, hw, reg) /\ thr[t].exp = reg.mir
    BY <1>1, <2>2, InsideAlone DEF Tracks
  <2>4. Touched(thr[t]) = Fields
    <3>1. thr[t].fld = None
      BY <1>1, <2>2 DEF MInv, Known
    <3>2. None \notin env.single
      BY <1>1, Types, PoliciesTyped DEF LInv
    <3> QED
      BY <3>1, <3>2 DEF Touched
  <2> DEFINE g == [h \in Fields |->
                     IF h \in Touched(thr[t]) /\ env.acc[h] \notin WriteOnly
                     THEN hw.val[h] ELSE 0]
             d == [thr[t] EXCEPT !.pc = "backR", !.got = g]
             n == [thr[t] EXCEPT !.pc = "backR", !.ok = FALSE]
  <2>5. thr' = [thr EXCEPT ![t] = d] \/ thr' = [thr EXCEPT ![t] = n]
    BY <2>1 DEF BusRead
  <2>6. d.got = g /\ n.ok = FALSE
    <3> HIDE DEF g
    <3> QED
      BY <2>2 DEF Calls
  <2>7. thr'[t].got = g
    <3> HIDE DEF d, n, g
    <3> QED
      BY <2>2, <2>5, <2>6
  <2>8. g[f] = hw.val[f]
    BY <2>4
  <2> QED
    BY <2>3, <2>7, <2>8 DEF Synced, Agrees
<1>2. Predictable /\ [Next]_vars => Predictable'
  BY TestStays DEF Predictable, Orderly
<1> HIDE DEF A
<1>3. Spec /\ Predictable => [][A]_vars
  BY <1>1, <1>2, MirrorInvariant, PTL DEF Spec
<1> QED
  BY <1>3 DEF A, MirrorAgrees

(* In a predictable test update() brings the hardware to the desired value *)
(* of its call, under every policy of every field, if no other access      *)
(* comes before it.                                                        *)
THEOREM UpdatesArrive == Spec /\ Predictable => UpdateArrives
<1> DEFINE A == \A t \in Threads :
       /\ Pc(t) = "busW" /\ thr[t].op = "update" /\ thr[t].exp # None
       /\ thr'[t].pc = "backW" /\ thr'[t].ok
       => \A f \in Fields :
            hw'.val[f] = thr[t].exp[f] \/
              (env.acc[f] \in SideEffect /\ hw.val[f] = thr[t].exp[f])
<1>1. ASSUME LInv, MInv, Predictable, [Next]_vars PROVE A
  <2> SUFFICES ASSUME NEW t \in Threads, Pc(t) = "busW", thr[t].op = "update",
                      thr[t].exp # None, thr'[t].pc = "backW", thr'[t].ok, NEW f \in Fields
               PROVE  \/ hw'.val[f] = thr[t].exp[f]
                      \/ env.acc[f] \in SideEffect /\ hw.val[f] = thr[t].exp[f]
    OBVIOUS
  <2>1. BusWrite(t)
    BY <1>1, BackFromBus DEF BusRead, Pc
  <2>2. Inside(t) /\ thr[t].pc = "busW"
    BY DEF Inside, Pc
  <2>3. Synced(env, hw, reg) /\ WillArrive(env, thr[t], reg)
    BY <1>1, <2>2, InsideAlone DEF Tracks
  <2>4. Touched(thr[t]) = Fields
    <3>1. thr[t].fld = None
      BY <1>1, <2>2 DEF MInv, Known
    <3>2. None \notin env.single
      BY <1>1, Types, PoliciesTyped DEF LInv
    <3> QED
      BY <3>1, <3>2 DEF Touched
  <2>5. hw'.val[f] = HwWritten(env.acc[f], reg.mir[f], thr[t].val[f], reg.written[f])
    BY <1>1, <2>1, <2>4, BusWriteDoes
  <2> QED
    BY <2>3, <2>5 DEF WillArrive, Synced, Agrees
<1>2. Predictable /\ [Next]_vars => Predictable'
  BY TestStays DEF Predictable, Orderly
<1> HIDE DEF A
<1>3. Spec /\ Predictable => [][A]_vars
  BY <1>1, <1>2, MirrorInvariant, PTL DEF Spec
<1> QED
  BY <1>3 DEF A, UpdateArrives

(* In a predictable test that spares them, the write of a field leaves the *)
(* other fields of its register as they are, under every policy that an    *)
(* access may leave alone.                                                 *)
THEOREM SiblingsAreSpared == Spec /\ Predictable /\ Sparing => SiblingsSpared
<1> DEFINE A == \A t \in Threads :
       Pc(t) = "busW" /\ thr[t].op = "fwrite" /\ thr'[t].pc = "backW" =>
         \A g \in Fields \ {thr[t].fld} :
           env.acc[g] \notin SideEffect =>
             /\ hw'.val[g] = hw.val[g]
             /\ env.acc[g] \in {"W1", "WO1"} => (g \in hw'.once) = (g \in hw.once)
<1>1. ASSUME LInv, MInv, Predictable, Sparing, [Next]_vars PROVE A
  <2> SUFFICES ASSUME NEW t \in Threads, Pc(t) = "busW", thr[t].op = "fwrite",
                      thr'[t].pc = "backW", NEW g \in Fields \ {thr[t].fld},
                      env.acc[g] \notin SideEffect
               PROVE  /\ hw'.val[g] = hw.val[g]
                      /\ env.acc[g] \in {"W1", "WO1"} => (g \in hw'.once) = (g \in hw.once)
    OBVIOUS
  <2>1. BusWrite(t)
    BY <1>1, BackFromBus DEF BusRead, Pc
  <2>2. Inside(t) /\ thr[t].pc = "busW"
    BY DEF Inside, Pc
  <2>3. Tracks(env, thr[t], hw, reg) /\ Synced(env, hw, reg)
    BY <1>1, <2>2, InsideAlone DEF Tracks
  <2>4. CASE thr[t].fld \in env.single
    <3>1. g \notin Touched(thr[t])
      BY <2>4 DEF Touched
    <3> QED
      BY <1>1, <2>1, <3>1, BusWriteDoes
  <2>5. CASE thr[t].fld \notin env.single
    <3>1. thr[t].fld \in env.on /\ "fwrite" \in env.ops
      BY <1>1, <2>2 DEF MInv, Known
    <3>2. env.acc[g] \notin Once \cup {"W1CRS"}
      BY <1>1, <2>5, <3>1 DEF Sparing
    <3>3. WillSpare(env, thr[t], reg)
      BY <2>2, <2>3, <2>5 DEF Tracks
    <3>4. reg.written[g] \in BOOLEAN /\ hw.val[g] = reg.mir[g]
      BY <1>1, <2>3, Types DEF LInv, Regs, Synced, Agrees
    <3>5. HwWritten(env.acc[g], reg.mir[g], thr[t].val[g], reg.written[g]) = reg.mir[g]
      BY <3>2, <3>3, <3>4 DEF WillSpare
    <3>6. hw'.val[g] = hw.val[g]
      BY <1>1, <2>1, <3>4, <3>5, BusWriteDoes
    <3> QED
      BY <3>2, <3>6 DEF Once
  <2> QED
    BY <2>4, <2>5
<1>2. Predictable /\ Sparing /\ [Next]_vars => Predictable' /\ Sparing'
  BY TestStays DEF Predictable, Orderly, Sparing
<1> HIDE DEF A
<1>3. Spec /\ Predictable /\ Sparing => [][A]_vars
  BY <1>1, <1>2, MirrorInvariant, PTL DEF Spec
<1> QED
  BY <1>3 DEF A, SiblingsSpared
=============================================================================
