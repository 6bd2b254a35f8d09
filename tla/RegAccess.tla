------------------------------ MODULE RegAccess ------------------------------
(***************************************************************************)
(* One uvm_reg with its fields, the hardware register behind it, and the   *)
(* processes that access both: the mirrored and desired values, prediction *)
(* by the access policy of each field, and the lock (XatomicX) around      *)
(* every access.                                                           *)
(*                                                                         *)
(* A call is the code up to the lock, the wait for the lock, and a step    *)
(* before and after each physical access, since a process blocks only in   *)
(* m_atomic.get, on the bus and in a backdoor task.  Prediction is         *)
(* automatic (set_auto_predict), every map has the rights RW, and a field  *)
(* is one bit: each policy acts on every bit alone.                        *)
(***************************************************************************)
EXTENDS Naturals, FiniteSets

CONSTANTS
  Fields,     \* the fields of the register
  Threads,    \* the processes that access it
  Settings,   \* what a test may be like, see Setting
  None        \* no process, no field, no expected value

VARIABLES
  env,        \* the setting of this test
  hw,         \* the hardware: val, and once: fields written since reset
  reg,        \* of the fields: mir: m_mirrored, des: m_desired, written: m_written
  lock,       \* key: m_atomic, owner: m_process, cnt: m_atomic_cnt, byField:
              \* m_is_locked_by_field
  thr         \* of each process: the call it is in, and where
vars == <<env, hw, reg, lock, thr>>

Bit == 0 .. 1
Value == [Fields -> Bit]
Zero == [f \in Fields |-> 0]
ClearedByRead == {"RC", "WRC", "WSRC", "W1SRC", "W0SRC"}
SetByRead == {"RS", "WRS", "WCRS", "W1CRS", "W0CRS"}
WriteOnly == {"WO", "WOC", "WOS", "WO1"}
(* Policies under which any write has an effect. *)
SideEffect == {"WC", "WS", "WCRS", "WSRC", "WOC", "WOS"}
Policies ==
  ClearedByRead \cup SetByRead \cup WriteOnly \cup SideEffect \cup
  {"RO", "RW", "W1C", "W1S", "W1T", "W0C", "W0S", "W0T", "W1"}
Operations ==
  {"write", "update", "read", "mirror", "bwrite", "bread", "poke", "peek",
   "fwrite", "fread", "fpoke"}
Raw == {"bwrite", "bread", "poke", "peek", "fpoke"}
Setting ==
  [acc : [Fields -> Policies], \* the policies of the fields
   procs : SUBSET Threads,     \* the processes that take part
   ops : SUBSET Operations,    \* what they call
   on : SUBSET Fields,         \* the fields that are accessed by themselves
   single : SUBSET Fields,     \* fields that is_indv_accessible() answers 1 for
   errors : BOOLEAN,           \* whether the bus may answer UVM_NOT_OK
   unmapped : BOOLEAN,         \* whether a call may name a map without the register
   slow : BOOLEAN,             \* whether backdoor tasks take time
   kills : SUBSET Operations]  \* calls whose process may be killed
ASSUME RegAssumption ==
  /\ IsFiniteSet(Fields) /\ Settings \subseteq Setting
  /\ None \notin Threads \cup Value \cup Fields

NoCall ==
  [pc |-> "idle", op |-> "none", fld |-> None, val |-> Zero, got |-> Zero,
   exp |-> None, ok |-> TRUE, bad |-> FALSE]
-----------------------------------------------------------------------------
(* The hardware.  What a policy does to a bit on a write and on a read. *)
HwWritten(p, cur, wr, once) ==
  LET takes == p \in {"RW", "WRC", "WRS", "WO"} \/ (p \in {"W1", "WO1"} /\ ~once)
      sets == \/ p \in {"WS", "WSRC", "WOS"}
              \/ wr = 1 /\ p \in {"W1S", "W1SRC"}
              \/ wr = 0 /\ p \in {"W0S", "W0SRC"}
      clears == \/ p \in {"WC", "WCRS", "WOC"}
                \/ wr = 1 /\ p \in {"W1C", "W1CRS"}
                \/ wr = 0 /\ p \in {"W0C", "W0CRS"}
      flips == (wr = 1 /\ p = "W1T") \/ (wr = 0 /\ p = "W0T")
  IN  IF takes THEN wr ELSE IF sets THEN 1 ELSE IF clears THEN 0
      ELSE IF flips THEN 1 - cur ELSE cur
HwRead(p, cur) ==
  IF p \in ClearedByRead THEN 0 ELSE IF p \in SetByRead THEN 1 ELSE cur
-----------------------------------------------------------------------------
(* uvm_reg_field. *)
(* XpredictX, and the same table in set(). *)
XpredictX(p, cur, wr, written) ==
  CASE p \in {"RO", "RC", "RS"} -> cur
    [] p \in {"WC", "WCRS", "WOC"} -> 0
    [] p \in {"WS", "WSRC", "WOS"} -> 1
    [] p \in {"W1C", "W1CRS"} -> cur * (1 - wr)
    [] p \in {"W0C", "W0CRS"} -> cur * wr
    [] p \in {"W1S", "W1SRC"} -> 1 - (1 - cur) * (1 - wr)
    [] p \in {"W0S", "W0SRC"} -> 1 - (1 - cur) * wr
    [] p = "W1T" -> (cur + wr) % 2
    [] p = "W0T" -> (cur + 1 - wr) % 2
    [] p \in {"W1", "WO1"} -> IF written THEN cur ELSE wr
    [] OTHER -> wr
(* The desired value is written, whatever the policy. *)
XupdateXPlain(p, des, mir) == des
(* XupdateX: what to write for the desired value. *)
XupdateX(p, des, mir) ==
  CASE p \in {"W1C", "W0S", "W1CRS", "W0SRC"} -> 1 - des
    [] p = "W1T" -> (des + mir) % 2
    [] p = "W0T" -> (1 + des + mir) % 2
    [] OTHER -> des
Set(r, f, v) ==
  [r EXCEPT !.des[f] = XpredictX(env.acc[f], @, v, r.written[f])]
SetAll(r, v) ==
  [r EXCEPT !.des = [f \in Fields |-> XpredictX(env.acc[f], @[f], v[f], r.written[f])]]
(* do_predict of the fields F with what an access has written or read.     *)
Predicted(r, F, v, written) ==
  [mir |-> [f \in Fields |-> IF f \in F THEN v[f] ELSE r.mir[f]],
   des |-> [f \in Fields |-> IF f \in F THEN v[f] ELSE r.des[f]],
   written |-> [f \in Fields |-> r.written[f] \/ (written /\ f \in F)]]
PredictWrite(r, F, v) ==
  Predicted(r, F,
    [f \in Fields |-> XpredictX(env.acc[f], r.mir[f], v[f], r.written[f])], TRUE)

(* Fields that read as zero are predicted too. *)
PredictReadAll(r, F, v) ==
  Predicted(r, F, [f \in Fields |-> HwRead(env.acc[f], v[f])], FALSE)
PredictRead(r, F, v) ==
  Predicted(r, {f \in F : env.acc[f] \notin WriteOnly},
    [f \in Fields |-> HwRead(env.acc[f], v[f])], FALSE)
NeedsUpdate ==
  \E f \in Fields : env.acc[f] \notin {"RO", "RC", "RS"} /\ reg.mir[f] # reg.des[f]
(* Fields that toggle are written with their mirrored value. *)
AdjustedToggles(r, f, v) ==
  [g \in Fields |->
     IF g = f THEN v[f]
     ELSE CASE env.acc[g] \in {"RO", "RC", "RS", "W1C", "W1S", "W1SRC"} -> 0
            [] env.acc[g] \in {"W0C", "W0S", "W0SRC", "W0CRS"} -> 1
            [] env.acc[g] \in SideEffect -> 0
            [] OTHER -> r.mir[g]]
(* What a write of field f writes to the other fields of the register. *)
Adjusted(r, f, v) ==
  [g \in Fields |->
     IF g = f THEN v[f]
     ELSE CASE env.acc[g] \in {"RO", "RC", "RS", "W1C", "W1S", "W1T", "W1SRC"} -> 0
            [] env.acc[g] \in {"W0C", "W0S", "W0T", "W0SRC", "W0CRS"} -> 1
            [] env.acc[g] \in SideEffect -> 0
            [] OTHER -> r.mir[g]]
-----------------------------------------------------------------------------
Available(l, t) == l.owner = t \/ l.key = 1
Acquired(l, t) ==
  IF l.owner = t THEN [l EXCEPT !.cnt = @ + 1]
  ELSE [l EXCEPT !.key = 0, !.owner = t]
Released(l) ==
  IF l.cnt > 0 THEN [l EXCEPT !.cnt = @ - 1]
  ELSE [l EXCEPT !.key = 1, !.owner = None]
(* A write locks once more around do_write of the register. *)
Nests(c) ==
  c.op \in {"write", "update", "bwrite"} \/ (c.op = "fwrite" /\ c.fld \notin env.single)
-----------------------------------------------------------------------------
Init ==
  /\ env \in Settings
  /\ hw = [val |-> Zero, once |-> {}]
  /\ reg = [mir |-> Zero, des |-> Zero, written |-> [f \in Fields |-> FALSE]]
  /\ lock = [key |-> 1, owner |-> None, cnt |-> 0, byField |-> FALSE]
  /\ thr = [t \in Threads |-> NoCall]

Pc(t) == thr[t].pc
Inside(t) == Pc(t) \in {"busW", "busR", "rawW", "rawR", "backW", "backR"}
(* A backdoor that takes no time is not interrupted. *)
Undisturbed(t) ==
  env.slow \/ \A x \in Threads \ {t} : ~(Inside(x) /\ thr[x].op \in Raw)
(* set(), called by a test *)
SetDesired(f, v) ==
  /\ \A t \in Threads : Undisturbed(t)
  /\ reg' = Set(reg, f, v)
  /\ UNCHANGED <<env, hw, lock, thr>>
(* The physical access that comes first. *)
FirstAccess(op) ==
  CASE op \in {"write", "update", "fwrite"} -> "busW"
    [] op \in {"read", "mirror", "fread"} -> "busR"
    [] op = "poke" -> "rawW"
    [] OTHER -> "rawR"
(* What a mirror() expects to read, in the mutant what is desired. *)
ExpectedDesired(r) == r.des
Expected(r) == r.mir
(* With the lock: the desired value is set, the expected value is taken,   *)
(* and the access begins, unless the map does not have the register.       *)
Enter(t, c, r, l) ==
  LET m == IF c.op \in {"write", "update", "bwrite"} THEN SetAll(r, c.val) ELSE r
  IN  /\ reg' = m
      /\ IF c.bad
         THEN /\ thr' = [thr EXCEPT ![t] = NoCall]
              /\ lock' = IF c.op = "fread" THEN l ELSE Released(l)
         ELSE /\ thr' = [thr EXCEPT ![t] =
                   [c EXCEPT !.pc = FirstAccess(c.op),
                             !.exp = IF c.op = "mirror" THEN Expected(r) ELSE @,
                             !.val = IF c.op = "fwrite" /\ c.fld \notin env.single
                                     THEN Adjusted(r, c.fld, @) ELSE @]]
              /\ lock' = [IF Nests(c) THEN Acquired(l, t) ELSE l
                            EXCEPT !.byField = @ \/ c.op = "fpoke"]
      /\ UNCHANGED <<env, hw>>
(* A call up to the lock.  update() decides and computes what to write,    *)
(* and the write of a field sets the desired value, before the lock; poke  *)
(* and peek do not lock while a field's poke has.                          *)
Call(t, op, f, v, bad) ==
  LET up == [g \in Fields |-> XupdateX(env.acc[g], reg.des[g], reg.mir[g])]
      c == [NoCall EXCEPT !.op = op, !.fld = f, !.bad = bad,
                          !.val = IF op = "update" THEN up ELSE v,
                          !.exp = IF op = "update" THEN reg.des ELSE @]
      r == IF op = "fwrite" THEN Set(reg, f, v[f]) ELSE reg
  IN  /\ t \in env.procs /\ op \in env.ops
      /\ Pc(t) = "idle" /\ Undisturbed(t)
      /\ (f # None) = (op \in {"fwrite", "fread", "fpoke"})
      /\ op \in {"update", "read", "mirror", "bread", "peek", "fread"} => v = Zero
      /\ bad => env.unmapped /\ op \notin Raw
      /\ op = "update" => NeedsUpdate
      /\ IF op \in {"poke", "peek"} /\ lock.byField
         THEN Enter(t, c, r, lock)
         ELSE IF Available(lock, t)
         THEN Enter(t, c, r, Acquired(lock, t))
         ELSE /\ thr' = [thr EXCEPT ![t] = [c EXCEPT !.pc = "wait", !.exp = None]]
              /\ reg' = r
              /\ UNCHANGED <<env, hw, lock>>
Lock(t) ==
  /\ Pc(t) = "wait" /\ Undisturbed(t)
  /\ Available(lock, t)
  /\ Enter(t, thr[t], reg, Acquired(lock, t))
-----------------------------------------------------------------------------
(* The physical access.  The bus may answer UVM_NOT_OK. *)
Touched(c) == IF c.fld \in env.single THEN {c.fld} ELSE Fields
BusWrite(t) ==
  LET c == thr[t] IN
  /\ Pc(t) = "busW" /\ Undisturbed(t)
  /\ \/ /\ hw' = [val |-> [f \in Fields |->
                     IF f \in Touched(c)
                     THEN HwWritten(env.acc[f], hw.val[f], c.val[f], f \in hw.once)
                     ELSE hw.val[f]],
                  once |-> hw.once \cup Touched(c)]
        /\ thr' = [thr EXCEPT ![t].pc = "backW"]
     \/ /\ env.errors
        /\ thr' = [thr EXCEPT ![t].pc = "backW", ![t].ok = FALSE]
        /\ UNCHANGED hw
  /\ UNCHANGED <<env, reg, lock>>
BusRead(t) ==
  LET c == thr[t] IN
  /\ Pc(t) = "busR" /\ Undisturbed(t)
  /\ \/ /\ hw' = [hw EXCEPT !.val = [f \in Fields |->
                    IF f \in Touched(c) THEN HwRead(env.acc[f], @[f]) ELSE @[f]]]
        /\ thr' = [thr EXCEPT ![t].pc = "backR",
                     ![t].got = [f \in Fields |->
                       IF f \in Touched(c) /\ env.acc[f] \notin WriteOnly
                       THEN hw.val[f] ELSE 0]]
     \/ /\ env.errors
        /\ thr' = [thr EXCEPT ![t].pc = "backR", ![t].ok = FALSE]
        /\ UNCHANGED hw
  /\ UNCHANGED <<env, reg, lock>>
(* A backdoor that fails is left out: a backdoor access is always carried     *)
(* through.                                                                  *)
RawWrite(t) ==
  /\ Pc(t) = "rawW" /\ Undisturbed(t)
  /\ hw' = [hw EXCEPT !.val = thr[t].val]
  /\ thr' = [thr EXCEPT ![t].pc = "backW"]
  /\ UNCHANGED <<env, reg, lock>>
RawRead(t) ==
  /\ Pc(t) = "rawR" /\ Undisturbed(t)
  /\ thr' = [thr EXCEPT ![t].pc = "backR", ![t].got = hw.val]
  /\ UNCHANGED <<env, hw, reg, lock>>
-----------------------------------------------------------------------------
(* An access that failed keeps the lock. *)
ReturnLocked(t, r) ==
  /\ reg' = r
  /\ thr' = [thr EXCEPT ![t] = NoCall]
  /\ lock' = CASE (thr[t].op \in {"poke", "peek"} /\ lock.byField) \/ ~thr[t].ok -> lock
               [] thr[t].op = "fpoke" -> [Released(lock) EXCEPT !.byField = FALSE]
               [] Nests(thr[t]) -> Released(Released(lock))
               [] OTHER -> Released(lock)
  /\ UNCHANGED <<env, hw>>
(* After an access: the mirror is predicted and the lock given back.  A    *)
(* field that is accessed by itself is predicted whatever the status.      *)
Return(t, r) ==
  /\ reg' = r
  /\ thr' = [thr EXCEPT ![t] = NoCall]
  /\ lock' = CASE thr[t].op \in {"poke", "peek"} /\ lock.byField -> lock
               [] thr[t].op = "fpoke" -> [Released(lock) EXCEPT !.byField = FALSE]
               [] Nests(thr[t]) -> Released(Released(lock))
               [] OTHER -> Released(lock)
  /\ UNCHANGED <<env, hw>>
WriteReturns(t) ==
  LET c == thr[t] IN
  /\ Pc(t) = "backW" /\ Undisturbed(t)
  /\ c.op # "bread"
  /\ Return(t, IF c.op \in Raw THEN Predicted(reg, Fields, c.val, TRUE)
               ELSE IF c.ok \/ c.fld \in env.single
               THEN PredictWrite(reg, Touched(c), c.val) ELSE reg)
ReadReturns(t) ==
  LET c == thr[t] IN
  /\ Pc(t) = "backR" /\ Undisturbed(t)
  /\ c.op \in {"read", "mirror", "fread", "peek"}
  /\ Return(t, IF c.op \in Raw THEN Predicted(reg, Fields, c.got, FALSE)
               ELSE IF c.ok \/ c.fld \in env.single
               THEN PredictRead(reg, Touched(c), c.got) ELSE reg)
(* read() through the backdoor does to the hardware what a bus read would. *)
ReadEffect(v) == [f \in Fields |-> HwRead(env.acc[f], v[f])]
Masked(v) == [f \in Fields |-> IF env.acc[f] \in WriteOnly THEN 0 ELSE v[f]]
BackdoorReadReturns(t) ==
  LET c == thr[t] IN
  /\ c.op = "bread" /\ Undisturbed(t)
  /\ IF Pc(t) = "backR" /\ ReadEffect(c.got) # c.got
     THEN /\ thr' = [thr EXCEPT ![t].pc = "rawW", ![t].val = ReadEffect(c.got)]
          /\ UNCHANGED <<env, hw, reg, lock>>
     ELSE /\ Pc(t) \in {"backR", "backW"}
          /\ Return(t, Predicted(reg, Fields, Masked(c.got), FALSE))
(* What write() through the backdoor and the poke of a field have read is  *)
(* completed to what they write.                                           *)
Completed(t) ==
  LET c == thr[t]
      v == IF c.op = "fpoke" THEN [c.got EXCEPT ![c.fld] = c.val[c.fld]]
           ELSE [f \in Fields |-> XpredictX(env.acc[f], c.got[f], c.val[f], reg.written[f])]
  IN  /\ Pc(t) = "backR" /\ Undisturbed(t)
      /\ c.op \in {"bwrite", "fpoke"}
      /\ thr' = [thr EXCEPT ![t].pc = "rawW", ![t].val = v]
      /\ reg' = IF c.op = "fpoke" THEN Predicted(reg, Fields, c.got, FALSE) ELSE reg
      /\ UNCHANGED <<env, hw, lock>>
-----------------------------------------------------------------------------
Kill(t) ==
  /\ Pc(t) # "idle" /\ thr[t].op \in env.kills /\ Undisturbed(t)
  /\ thr' = [thr EXCEPT ![t] =
               IF Inside(t) THEN [NoCall EXCEPT !.pc = "dead"] ELSE NoCall]
  /\ UNCHANGED <<env, hw, reg, lock>>
(* reset(), together with the hardware and while no process is at work. *)
Reset ==
  /\ \A t \in Threads : ~Inside(t)
  /\ hw' = [val |-> Zero, once |-> {}]
  /\ reg' = [mir |-> Zero, des |-> Zero, written |-> [f \in Fields |-> FALSE]]
  /\ lock' = [lock EXCEPT !.key = 1, !.owner = None]
  /\ thr' = [t \in Threads |-> IF Pc(t) = "dead" THEN NoCall ELSE thr[t]]
  /\ UNCHANGED env
Access(t) ==
  \/ \E op \in env.ops, f \in env.on \cup {None}, v \in Value, bad \in BOOLEAN :
       Call(t, op, f, v, bad)
  \/ Lock(t)
  \/ BusWrite(t) \/ BusRead(t) \/ RawWrite(t) \/ RawRead(t)
  \/ WriteReturns(t) \/ ReadReturns(t) \/ BackdoorReadReturns(t) \/ Completed(t)
  \/ Kill(t)
Next ==
  \/ \E t \in Threads : Access(t)
  \/ \E f \in Fields, v \in Bit : SetDesired(f, v)
  \/ Reset
Spec == Init /\ [][Next]_vars
-----------------------------------------------------------------------------
TypeOK ==
  /\ env \in Settings
  /\ hw \in [val : Value, once : SUBSET Fields]
  /\ reg \in [mir : Value, des : Value, written : [Fields -> BOOLEAN]]
  /\ lock \in [key : Bit, owner : Threads \cup {None}, cnt : Nat, byField : BOOLEAN]
  /\ thr \in [Threads ->
       [pc : {"idle", "wait", "busW", "busR", "rawW", "rawR", "backW", "backR", "dead"},
        op : Operations \cup {"none"}, fld : Fields \cup {None}, val : Value,
        got : Value, exp : Value \cup {None}, ok : BOOLEAN, bad : BOOLEAN]]
Quiet == \A t \in Threads : ~Inside(t) /\ Pc(t) # "dead"
(* Two processes never access the register at once. *)
OneHolder == \A t, x \in Threads : Inside(t) /\ Inside(x) => t = x
(* When no process is at work, and no process was killed at work since the *)
(* last reset(), the register can be locked: "Put back a key in the        *)
(* semaphore if it is checked out in case a thread was killed".            *)
LockComesBack ==
  Quiet => lock = [key |-> 1, owner |-> None, cnt |-> 0, byField |-> FALSE]
(* When no process is at work the mirrored value is what the hardware has, *)
(* whatever the policies of the fields.                                    *)
MirrorTracks == Quiet => reg.mir = hw.val
(* A mirror() that checks finds no mismatch: what it expects is taken under *)
(* the lock, and is still right when the bus reads.                        *)
MirrorAgrees ==
  [][\A t \in Threads :
       /\ Pc(t) = "busR" /\ thr[t].op = "mirror"
       /\ thr'[t].pc = "backR" /\ thr'[t].ok
       => \A f \in Fields : env.acc[f] \notin WriteOnly =>
            thr'[t].got[f] = thr[t].exp[f]]_vars
(* The write of a field leaves the others alone: they are written so that  *)
(* nothing happens, or the field cannot be spared ("These might have side  *)
(* effects! Bad!").                                                        *)
SiblingsSpared ==
  [][\A t \in Threads :
       Pc(t) = "busW" /\ thr[t].op = "fwrite" /\ thr'[t].pc = "backW" =>
         \A g \in Fields \ {thr[t].fld} :
           env.acc[g] \notin SideEffect =>
             /\ hw'.val[g] = hw.val[g]
             /\ env.acc[g] \in {"W1", "WO1"} => (g \in hw'.once) = (g \in hw.once)]_vars
(* update() brings the hardware to the desired value of its call, if no    *)
(* other access comes before it.                                           *)
UpdateArrives ==
  [][\A t \in Threads :
       /\ Pc(t) = "busW" /\ thr[t].op = "update" /\ thr[t].exp # None
       /\ thr'[t].pc = "backW" /\ thr'[t].ok
       => \A f \in Fields :
            hw'.val[f] = thr[t].exp[f] \/
              (env.acc[f] \in SideEffect /\ hw.val[f] = thr[t].exp[f])]_vars
=============================================================================
