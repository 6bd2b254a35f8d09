------------------------------ MODULE HdlProofs ------------------------------
(***************************************************************************)
(* What the HDL access functions may change, for any design, any paths and *)
(* any of the four simulators: nothing but what the path names, and what   *)
(* was forced stays until it is released.  What they return: a read, the   *)
(* value of what the path names, a write that reports success, the value   *)
(* in the design, a release, the design free to drive again.               *)
(***************************************************************************)
EXTENDS HdlRegister, QueuesProofs, TLAPS

Holding == UNION {[Positions(o) -> Logic \cup {Unset}] : o \in Object}

DesignOK(d) ==
  /\ d \in Design
  /\ \A o \in Object : d.val[o] \in Values(o) /\ d.drv[o] \in Values(o)
LibOK(s) == s \in Lib /\ DesignOK(s.d)

HdlTypeOK ==
  /\ tool \in Tools
  /\ LibOK(lib)
  /\ hold \in [Object -> Holding]
  /\ \A o \in Object : hold[o] \in [Positions(o) -> Logic \cup {Unset}]

HInv == HdlTypeOK /\ ForceHolds

(* From design d to e nothing changes but what path p names; nothing that  *)
(* is forced changes, and nothing else is forced; bits are values for part *)
(* of what p names; what p names is forced to the value v, has it where it *)
(* is not forced, is free.                                                 *)
Frame(d, e, p) ==
  \A o \in Object : \A i \in Positions(o) :
    (p.obj = o /\ i \in Named(p)) \/ Same(d, e, o, i)
ForcedKept(d, e) ==
  \A o \in Object :
    /\ e.forced[o] \subseteq d.forced[o]
    /\ \A i \in d.forced[o] \cap Positions(o) :
         i \in e.forced[o] /\ e.val[o][i] = d.val[o][i]
PartOf(bits, p) == \E at \in SUBSET Named(p) : bits \in [at -> StdLogic]
Lands(e, p, v) ==
  \A i \in Named(p) : i \in e.forced[p.obj] /\ e.val[p.obj][i] = v[Index(p, i)]
Laid(e, p, v) ==
  \A i \in Named(p) : i \in e.forced[p.obj] \/ e.val[p.obj][i] = v[Index(p, i)]
Freed(e, p) == Named(p) \cap e.forced[p.obj] = {}

(* A write with flag has the effect that its name says.                    *)
Releasing == {"release", "releaseKV"}
Works(flag, e, p, v) ==
  /\ flag = "force" => Lands(e, p, v)
  /\ flag = "deposit" => Laid(e, p, v)
  /\ flag \in Releasing => Freed(e, p)

(* A path that can be written so: the value is wide enough, or not looked  *)
(* at, and the object is no constant.                                      *)
Takes(p, flag) ==
  KindOf(p) # "constant" /\ (Width(p) <= MaxWidth \/ flag \in Releasing)

(* What is put at some of the positions a path names changes nothing else, *)
(* and a deposit nothing that is forced.                                   *)
LEMMA PutChanges ==
  ASSUME NEW d, DesignOK(d), NEW p \in Path, p.obj \in Object,
         NEW bits, PartOf(bits, p), NEW flag
  PROVE  /\ DesignOK(Put(d, p.obj, bits, flag))
         /\ Frame(d, Put(d, p.obj, bits, flag), p)
         /\ flag = "deposit" => ForcedKept(d, Put(d, p.obj, bits, flag))
<1> DEFINE o == p.obj  e == Put(d, o, bits, flag)
<1> PICK at \in SUBSET Named(p) : bits \in [at -> StdLogic]
  BY DEF PartOf
<1>1. at \subseteq Positions(o) /\ at \subseteq Nat
  BY DEF Named, Positions
<1>2. /\ d.val[o] \in Values(o) /\ d.drv[o] \in Values(o)
      /\ d.forced[o] \subseteq Nat
  BY DEF DesignOK, Design
<1>3. ASSUME NEW g \in Values(o), NEW S \in SUBSET Positions(o), NEW w \in [S -> StdLogic]
      PROVE  /\ Over(g, w) \in Values(o)
             /\ \A i \in Positions(o) : Over(g, w)[i] = IF i \in S THEN w[i] ELSE g[i]
  BY DEF Over, Values
<1>4. ASSUME NEW S \in SUBSET Positions(o)
      PROVE  On(d.drv[o], S) \in [S -> StdLogic]
  BY <1>2 DEF On, Values
<1>5. ASSUME NEW S \in SUBSET at
      PROVE  On(bits, S) \in [S -> StdLogic]
  BY DEF On
<1>6. PICK nv \in Values(o), nf \in SUBSET Nat :
        /\ e = [val |-> [d.val EXCEPT ![o] = nv], drv |-> d.drv,
                forced |-> [d.forced EXCEPT ![o] = nf]]
        /\ \A i \in Positions(o) : i \notin at =>
             nv[i] = d.val[o][i] /\ (i \in nf <=> i \in d.forced[o])
        /\ flag = "deposit" =>
             /\ nf \subseteq d.forced[o]
             /\ \A i \in Positions(o) : i \in d.forced[o] =>
                  i \in nf /\ nv[i] = d.val[o][i]
  <2>0. d = [val |-> d.val, drv |-> d.drv, forced |-> d.forced]
        /\ d.val = [d.val EXCEPT ![o] = @] /\ d.forced = [d.forced EXCEPT ![o] = @]
    BY DEF DesignOK, Design
  <2>1. CASE Attr[o].kind = "constant"
    <3>1. e = d
      BY <2>1 DEF Put
    <3> QED
      BY <3>1, <2>0, <1>2
  <2>2. CASE Attr[o].kind # "constant" /\ flag = "deposit"
    <3> DEFINE S == Free(d, o, at)  nv == Over(d.val[o], On(bits, S))
    <3>1. e = [d EXCEPT !.val[o] = nv]
      BY <2>2, <1>1 DEF Put
    <3>2. S \subseteq at /\ S \subseteq Positions(o) /\ \A i \in S : i \notin d.forced[o]
      BY <1>1 DEF Free
    <3>3. nv \in Values(o) /\ \A i \in Positions(o) : i \notin S => nv[i] = d.val[o][i]
      BY <1>2, <1>3, <1>5, <3>2
    <3>4. e = [val |-> [d.val EXCEPT ![o] = nv], drv |-> d.drv,
               forced |-> [d.forced EXCEPT ![o] = d.forced[o]]]
      BY <3>1, <2>0
    <3> QED
      BY <1>2, <3>2, <3>3, <3>4
  <2>3. CASE Attr[o].kind # "constant" /\ flag = "force"
    <3> DEFINE nv == Over(d.val[o], bits)  nf == d.forced[o] \cup at
    <3>1. e = [d EXCEPT !.val[o] = nv, !.forced[o] = nf]
      BY <2>3 DEF Put
    <3>2. nv \in Values(o) /\ \A i \in Positions(o) :
                               nv[i] = IF i \in at THEN bits[i] ELSE d.val[o][i]
      <4>1. at \in SUBSET Positions(o)
        BY <1>1
      <4> QED
        BY <4>1, <1>2, <1>3
    <3>3. e = [val |-> [d.val EXCEPT ![o] = nv], drv |-> d.drv,
               forced |-> [d.forced EXCEPT ![o] = nf]]
      BY <3>1, <2>0
    <3>4. nf \in SUBSET Nat /\ \A i : i \notin at => (i \in nf <=> i \in d.forced[o])
      BY <1>1, <1>2
    <3> HIDE DEF nv, nf
    <3> QED
      BY <2>3, <3>2, <3>3, <3>4
  <2>4. CASE Attr[o].kind # "constant" /\ flag = "release"
    <3> DEFINE S == IF Resolved(o) THEN at \cap d.forced[o] ELSE {}
               nv == Over(d.val[o], On(d.drv[o], S))  nf == d.forced[o] \ at
    <3>1. e = [d EXCEPT !.val[o] = nv, !.forced[o] = nf]
      BY <2>4 DEF Put
    <3>2. nv \in Values(o) /\ \A i \in Positions(o) : i \notin at => nv[i] = d.val[o][i]
      <4>1. S \in SUBSET at /\ S \in SUBSET Positions(o)
        BY <1>1
      <4>2. On(d.drv[o], S) \in [S -> StdLogic]
        BY <1>4, <4>1
      <4> HIDE DEF S
      <4>3. /\ nv \in Values(o)
            /\ \A i \in Positions(o) :
                 nv[i] = IF i \in S THEN On(d.drv[o], S)[i] ELSE d.val[o][i]
        BY <1>2, <1>3, <4>1, <4>2
      <4> HIDE DEF nv
      <4> QED
        BY <4>1, <4>3
    <3>3. e = [val |-> [d.val EXCEPT ![o] = nv], drv |-> d.drv,
               forced |-> [d.forced EXCEPT ![o] = nf]]
      BY <3>1, <2>0
    <3>4. nf \in SUBSET Nat /\ \A i : i \notin at => (i \in nf <=> i \in d.forced[o])
      BY <1>2
    <3> HIDE DEF nv, nf
    <3> QED
      BY <2>4, <3>2, <3>3, <3>4
  <2>5. CASE Attr[o].kind # "constant" /\ flag \notin {"deposit", "force", "release"}
    <3>1. e = [d EXCEPT !.forced[o] = d.forced[o] \ at]
      BY <2>5 DEF Put
    <3>2. e = [val |-> [d.val EXCEPT ![o] = d.val[o]], drv |-> d.drv,
               forced |-> [d.forced EXCEPT ![o] = d.forced[o] \ at]]
      BY <3>1, <2>0
    <3> QED
      BY <1>2, <2>5, <3>2
  <2> QED
    BY <2>1, <2>2, <2>3, <2>4, <2>5
<1> HIDE DEF e
<1>7. DesignOK(e)
  BY <1>6 DEF DesignOK, Design
<1>8. Frame(d, e, p)
  BY <1>6 DEF Frame, Same, DesignOK, Design
<1>9. flag = "deposit" => ForcedKept(d, e)
  BY <1>6 DEF ForcedKept, DesignOK, Design
<1> QED
  BY <1>7, <1>8, <1>9 DEF e

(* What is put at the whole of a path has the effect its flag says.        *)
LEMMA PutWorks ==
  ASSUME NEW d, DesignOK(d), NEW p \in Path, p.obj \in Object,
         KindOf(p) # "constant", NEW v, NEW bits \in [Named(p) -> StdLogic], NEW flag,
         flag \notin Releasing => \A i \in Named(p) : bits[i] = v[Index(p, i)]
  PROVE  Works(flag, Put(d, p.obj, bits, flag), p, v)
<1> DEFINE o == p.obj  e == Put(d, o, bits, flag)
<1>1. \A i \in Named(p) : i \in DOMAIN d.val[o]
  BY DEF Named, DesignOK, Values
<1>2. d.val \in [Object -> UNION {Values(x) : x \in Object}]
      /\ d.forced \in [Object -> SUBSET Nat] /\ o \in Object
      /\ d = [val |-> d.val, drv |-> d.drv, forced |-> d.forced]
  BY DEF DesignOK, Design
<1>3. CASE flag = "force"
  <2> DEFINE nv == Over(d.val[o], bits)  nf == d.forced[o] \cup Named(p)
  <2>1. e = [d EXCEPT !.val[o] = nv, !.forced[o] = nf]
    BY <1>3 DEF Put, KindOf
  <2>2. \A i \in Named(p) : nv[i] = bits[i]
    BY <1>1 DEF Over
  <2> HIDE DEF nv, nf
  <2>3. e.val[o] = nv /\ e.forced[o] = nf
    BY <1>2, <2>1
  <2> QED
    BY <1>3, <2>2, <2>3 DEF Works, Lands, Releasing, nf
<1>4. CASE flag = "deposit"
  <2> DEFINE at == Free(d, o, Named(p))  nv == Over(d.val[o], On(bits, at))
  <2>1. e = [d EXCEPT !.val[o] = nv]
    BY <1>4 DEF Put, KindOf
  <2>2. \A i \in Named(p) : i \in d.forced[o] \/ nv[i] = bits[i]
    BY <1>1 DEF Over, On, Free
  <2> HIDE DEF nv
  <2>3. e.val[o] = nv /\ e.forced[o] = d.forced[o]
    BY <1>2, <2>1
  <2> QED
    BY <1>4, <2>2, <2>3 DEF Works, Laid, Releasing
<1>5. CASE flag \in Releasing
  <2> DEFINE nf == d.forced[o] \ Named(p)
  <2>1. PICK nv : e = [d EXCEPT !.val[o] = nv, !.forced[o] = nf]
                  \/ e = [d EXCEPT !.forced[o] = nf]
    BY <1>5 DEF Put, KindOf, Releasing
  <2> HIDE DEF nf
  <2>2. e.forced[o] = nf
    BY <1>2, <2>1
  <2> QED
    BY <1>5, <2>2 DEF Works, Freed, Releasing, nf
<1> QED
  BY <1>3, <1>4, <1>5 DEF Works

(* The bits a path selects are counted from 0, and there is at least one.  *)
LEMMA PathWidth ==
  ASSUME NEW p \in Path
  PROVE  /\ Width(p) \in Nat \ {0}
         /\ \A i \in Named(p) : Index(p, i) \in 0 .. Width(p) - 1
BY DesignAssumption DEF Path, Width, Named, Size

(* A value laid over a path, whatever its width.                           *)
LEMMA SpreadType ==
  ASSUME NEW p \in Path, NEW n, NEW v \in Data
  PROVE  PartOf(Spread(p, n, v), p)
BY DEF PartOf, Spread, Data, StdLogic, Logic

(* The whole of it, and exactly where the value is wide enough.            *)
LEMMA SpreadWhole ==
  ASSUME NEW p \in Path, NEW v \in Data
  PROVE  /\ Spread(p, Width(p), v) \in [Named(p) -> StdLogic]
         /\ Width(p) <= MaxWidth =>
              \A i \in Named(p) : Spread(p, Width(p), v)[i] = v[Index(p, i)]
<1>1. \A i \in Named(p) : /\ Index(p, i) < Width(p)
                          /\ Width(p) <= MaxWidth => Index(p, i) \in Bits
  BY PathWidth, DesignAssumption DEF Bits
<1>2. {j \in Named(p) : Index(p, j) < Width(p)} = Named(p)
  BY <1>1
<1> QED
  BY <1>1, <1>2 DEF Spread, Data, StdLogic, Logic

(* A value that the path takes works when it is laid over the whole of it. *)
LEMMA SpreadWorks ==
  ASSUME NEW d, DesignOK(d), NEW p \in Path, p.obj \in Object, NEW v \in Data,
         NEW flag, Takes(p, flag)
  PROVE  Works(flag, Put(d, p.obj, Spread(p, Width(p), v), flag), p, v)
<1> DEFINE bits == Spread(p, Width(p), v)
<1>1. bits \in [Named(p) -> StdLogic]
  BY SpreadWhole
<1>2. flag \notin Releasing => \A i \in Named(p) : bits[i] = v[Index(p, i)]
  BY SpreadWhole DEF Takes
<1> HIDE DEF bits
<1>3. Works(flag, Put(d, p.obj, bits, flag), p, v)
  BY <1>1, <1>2, PutWorks DEF Takes
<1> QED
  BY <1>3 DEF bits

-----------------------------------------------------------------------------
(* What a call must leave, and what one that fails should leave.           *)

Leaves(s, p, r) == LibOK(r.s) /\ Frame(s.d, r.s.d, p)
Spared(s, r) == r.ret = 0 => r.finish = TRUE \/ r.s.d = s.d

(* A call that leaves the design as it is.                                 *)
LEMMA SameLeaves ==
  ASSUME NEW s, LibOK(s), NEW p, NEW r, LibOK(r.s), r.s.d = s.d
  PROVE  Leaves(s, p, r) /\ Spared(s, r) /\ ForcedKept(s.d, r.s.d)
BY DEF Leaves, Spared, Frame, Same, ForcedKept

(* A call that puts something at what the path names.                      *)
LEMMA PutLeaves ==
  ASSUME NEW s, LibOK(s), NEW p \in Path, p.obj \in Object,
         NEW bits, PartOf(bits, p), NEW flag, NEW r,
         r.s.d = Put(s.d, p.obj, bits, flag),
         r.s = [d |-> r.s.d, partsel |-> s.partsel]
  PROVE  /\ Leaves(s, p, r)
         /\ flag = "deposit" => ForcedKept(s.d, r.s.d)
<1>1. /\ DesignOK(r.s.d) /\ Frame(s.d, r.s.d, p)
      /\ flag = "deposit" => ForcedKept(s.d, r.s.d)
  BY PutChanges DEF LibOK
<1>2. LibOK(r.s)
  BY <1>1 DEF LibOK, Lib, DesignOK
<1> QED
  BY <1>1, <1>2 DEF Leaves

-----------------------------------------------------------------------------
(* Questa                                                                  *)

(* HdlQuesta means by its own HdlDesign what this module means.            *)
LEMMA QuestaDesign ==
  /\ \A d, o, b, f : Questa!Put(d, o, b, f) = Put(d, o, b, f)
  /\ \A p, n, v : Questa!Spread(p, n, v) = Spread(p, n, v)
  /\ \A p : /\ Questa!Width(p) = Width(p) /\ Questa!Named(p) = Named(p)
            /\ Questa!Handle(p) = Handle(p) /\ Questa!Reached(p) = Reached(p)
  /\ \A p, i : Questa!Index(p, i) = Index(p, i)
  /\ \A p, l : Questa!IsA(p, l) = IsA(p, l)
  /\ \A o : Questa!Size(o) = Size(o) /\ Questa!Positions(o) = Positions(o)
  /\ \A d, p : Questa!Content(d, p) = Content(d, p)
  /\ \A v, n, b : Questa!Copied(v, n, b) = Copied(v, n, b)
  /\ \A n : Questa!Chunks(n) = Chunks(n)
BY DEF Questa!Content, Content, Questa!Copied, Copied, Questa!Chunks, Chunks,
       Questa!Put, Put, Questa!Resolved, Resolved, Questa!Over, Over, Questa!On, On,
       Questa!Free, Free, Questa!Spread, Spread, Questa!Named, Named, Questa!Index,
       Index, Questa!Width, Width, Questa!Positions, Positions, Questa!Size, Size,
       Questa!Handle, Handle, Questa!Exists, Exists, Questa!Position, Position,
       Questa!IsA, IsA, Questa!Reached, Reached, Questa!Bits, Bits

(* What Questa writes to a VHDL signal.                                    *)
LEMMA QuestaVhdl ==
  ASSUME NEW s, NEW p \in Path, IsA(p, "vhdl"), Width(p) <= MaxWidth,
         NEW v \in Data, NEW flag
  PROVE  \E bits \in [Named(p) -> StdLogic] :
           /\ Questa!uvm_register_set_vhdl(s, p, v, flag).ret = 1
           /\ Questa!uvm_register_set_vhdl(s, p, v, flag).s =
                [s EXCEPT !.d = Put(@, p.obj, bits,
                   IF flag = "release" \/ p.sel = "all" THEN flag ELSE "deposit")]
           /\ p.sel = "all" => \A i \in Named(p) : bits[i] = v[Index(p, i)]
<1> DEFINE size == Size(p.obj)
           vector == Questa!vecval_to_string(size, v)
           digit(i) == IF p.sel = "bit" THEN vector[size - 1 - i]
                       ELSE vector[size - 1 - Index(p, i)]
           bits == [i \in Named(p) |-> IF p.sel = "all" \/ digit(i) = "1"
                                       THEN digit(i) ELSE "0"]
           kind == IF flag = "release" \/ p.sel = "all" THEN flag ELSE "deposit"
<1>1. Questa!uvm_register_set_vhdl(s, p, v, flag) =
        Questa!Done([s EXCEPT !.d = Put(@, p.obj, bits, kind)], v)
  BY QuestaDesign DEF Questa!uvm_register_set_vhdl
<1>2. p.sel = "all" => \A i \in Named(p) : bits[i] = v[Index(p, i)] /\ bits[i] \in Logic
  <2> SUFFICES ASSUME p.sel = "all", NEW i \in Named(p)
               PROVE  bits[i] = v[Index(p, i)] /\ bits[i] \in Logic
    OBVIOUS
  <2>1. size \in Nat /\ i \in 0 .. size - 1 /\ Index(p, i) = i /\ i \in Bits
    BY PathWidth, DesignAssumption DEF IsA, Size, Named, Positions, Index, Width, Bits
  <2>2. vector[size - 1 - i] = v[i]
    BY <2>1 DEF Questa!vecval_to_string
  <2> QED
    BY <2>1, <2>2 DEF Data
<1>3. bits \in [Named(p) -> StdLogic]
  BY <1>2 DEF StdLogic, Logic
<1> HIDE DEF bits, kind
<1>4. /\ Questa!Done([s EXCEPT !.d = Put(@, p.obj, bits, kind)], v).ret = 1
      /\ Questa!Done([s EXCEPT !.d = Put(@, p.obj, bits, kind)], v).s =
           [s EXCEPT !.d = Put(@, p.obj, bits, kind)]
  BY DEF Questa!Done, Questa!Outcome
<1> QED
  BY <1>1, <1>2, <1>3, <1>4 DEF kind

(* A write of Questa changes what the path names, and a force that         *)
(* succeeds lands where it is exact.                                       *)
LEMMA QuestaSet ==
  ASSUME NEW s, LibOK(s), NEW p \in Path, NEW v \in Data, NEW flag,
         IsA(p, "vhdl") => Width(p) <= MaxWidth
  PROVE  LET r == Questa!Set(s, p, v, flag) IN
         /\ Leaves(s, p, r) /\ (p.sel = "slice" \/ Spared(s, r))
         /\ flag = "deposit" => ForcedKept(s.d, r.s.d)
         /\ r.ret = 1 => p.obj \in Object
         /\ IsA(p, "vhdl") => r.ret = 1
         /\ r.ret = 1 /\ Takes(p, flag)
              /\ (IsA(p, "vhdl") => p.sel = "all" \/ flag = "release")
              => Works(flag, r.s.d, p, v)
<1> DEFINE r == Questa!Set(s, p, v, flag)
<1>1. CASE IsA(p, "vhdl")
  <2>1. r = Questa!uvm_register_set_vhdl(s, p, v, flag)
    BY <1>1, QuestaDesign DEF Questa!Set, Questa!uvm_is_vhdl_path
  <2> HIDE DEF r
  <2> DEFINE kind == IF flag = "release" \/ p.sel = "all" THEN flag ELSE "deposit"
  <2>2. PICK bits \in [Named(p) -> StdLogic] :
          /\ r.ret = 1
          /\ r.s = [s EXCEPT !.d = Put(@, p.obj, bits, kind)]
          /\ p.sel = "all" => \A i \in Named(p) : bits[i] = v[Index(p, i)]
    BY <1>1, <2>1, QuestaVhdl
  <2>3. p.obj \in Object /\ PartOf(bits, p)
    BY <1>1, <2>2 DEF IsA, PartOf
  <2>4. flag = "deposit" => kind = "deposit"
    OBVIOUS
  <2>5. p.sel = "all" \/ flag = "release" => kind = flag
    OBVIOUS
  <2> HIDE DEF kind
  <2>6. /\ r.s.d = Put(s.d, p.obj, bits, kind) /\ DesignOK(s.d)
        /\ r.s = [d |-> r.s.d, partsel |-> s.partsel]
    BY <2>2 DEF LibOK, Lib
  <2>7. Leaves(s, p, r) /\ (kind = "deposit" => ForcedKept(s.d, r.s.d))
    BY <2>3, <2>6, PutLeaves
  <2>8. Takes(p, flag) /\ (p.sel = "all" \/ flag = "release") => Works(flag, r.s.d, p, v)
    <3> SUFFICES ASSUME Takes(p, flag), p.sel = "all" \/ flag = "release"
                 PROVE  Works(flag, r.s.d, p, v)
      OBVIOUS
    <3>1. flag \notin Releasing => \A i \in Named(p) : bits[i] = v[Index(p, i)]
      BY <2>2 DEF Releasing
    <3>2. KindOf(p) # "constant" /\ r.s.d = Put(s.d, p.obj, bits, flag)
      BY <2>5, <2>6 DEF Takes
    <3>3. Works(flag, Put(s.d, p.obj, bits, flag), p, v)
      BY <2>2, <2>3, <2>6, <3>1, <3>2, PutWorks
    <3> QED
      BY <3>2, <3>3
  <2> QED
    BY <1>1, <2>2, <2>3, <2>4, <2>7, <2>8 DEF r, Spared
<1>2. CASE ~ IsA(p, "vhdl") /\ p.sel = "slice"
  <2> DEFINE n == Reached(p)
             t == IF n = 0 THEN s
                  ELSE [s EXCEPT !.d = Put(@, p.obj, Spread(p, n, v), flag)]
  <2>1. r = Questa!uvm_hdl_set_vlog_partsel(s, p, v, flag)
    BY <1>2, QuestaDesign DEF Questa!Set, Questa!uvm_is_vhdl_path, Questa!uvm_hdl_set_vlog
  <2>2. r.s = t /\ (r.ret = 1 => n = Width(p))
    BY <2>1, QuestaDesign DEF Questa!uvm_hdl_set_vlog_partsel, Questa!Done, Questa!Refused,
       Questa!Outcome
  <2> HIDE DEF r
  <2>3. CASE n = 0
    <3>1. r.s = s /\ r.ret # 1
      BY <2>2, <2>3, PathWidth
    <3> QED
      BY <1>2, <3>1, SameLeaves DEF r
  <2>4. CASE n # 0
    <3>1. p.obj \in Object
      BY <2>4 DEF Reached, IsA
    <3>2. r.s = [s EXCEPT !.d = Put(@, p.obj, Spread(p, n, v), flag)]
      BY <2>2, <2>4
    <3>3. /\ r.s.d = Put(s.d, p.obj, Spread(p, n, v), flag) /\ DesignOK(s.d)
          /\ r.s = [d |-> r.s.d, partsel |-> s.partsel]
      BY <3>2 DEF LibOK, Lib
    <3>4. Leaves(s, p, r) /\ (flag = "deposit" => ForcedKept(s.d, r.s.d))
      <4>1. PartOf(Spread(p, n, v), p)
        BY SpreadType
      <4> QED
        BY <3>1, <3>3, <4>1, PutLeaves
    <3>5. r.ret = 1 /\ Takes(p, flag) => Works(flag, r.s.d, p, v)
      <4>1. r.ret = 1 => r.s.d = Put(s.d, p.obj, Spread(p, Width(p), v), flag)
        BY <2>2, <3>3
      <4> QED
        BY <3>1, <3>3, <4>1, SpreadWorks
    <3> QED
      BY <1>2, <3>1, <3>4, <3>5 DEF r
  <2> QED
    BY <2>3, <2>4
<1>3. CASE ~ IsA(p, "vhdl") /\ p.sel # "slice" /\ ~ Handle(p)
  <2>1. r.s = s /\ r.ret = 0
    BY <1>3, QuestaDesign DEF Questa!Set, Questa!uvm_is_vhdl_path, Questa!uvm_hdl_set_vlog,
       Questa!Refused, Questa!Outcome
  <2> HIDE DEF r
  <2> QED
    BY <1>3, <2>1, SameLeaves DEF r
<1>4. CASE ~ IsA(p, "vhdl") /\ p.sel # "slice" /\ Handle(p)
  <2>1. /\ r.s = [s EXCEPT !.d = Put(@, p.obj, Spread(p, Width(p), v), flag)]
        /\ r.ret = 1
    BY <1>4, QuestaDesign DEF Questa!Set, Questa!uvm_is_vhdl_path, Questa!uvm_hdl_set_vlog,
       Questa!Done, Questa!Outcome
  <2>2. p.obj \in Object
    BY <1>4 DEF Handle, IsA
  <2> HIDE DEF r
  <2>3. /\ r.s.d = Put(s.d, p.obj, Spread(p, Width(p), v), flag) /\ DesignOK(s.d)
        /\ r.s = [d |-> r.s.d, partsel |-> s.partsel]
    BY <2>1 DEF LibOK, Lib
  <2>4. Leaves(s, p, r) /\ (flag = "deposit" => ForcedKept(s.d, r.s.d))
    <3>1. PartOf(Spread(p, Width(p), v), p)
      BY SpreadType
    <3> QED
      BY <2>2, <2>3, <3>1, PutLeaves
  <2>5. Takes(p, flag) => Works(flag, r.s.d, p, v)
    BY <2>2, <2>3, SpreadWorks
  <2> QED
    BY <2>1, <2>2, <2>4, <2>5 DEF r, Spared
<1> QED
  BY <1>1, <1>2, <1>3, <1>4

(* Reading leaves the design alone, and succeeds if the path is found and  *)
(* fits.                                                                   *)
LEMMA QuestaGet ==
  ASSUME NEW s, LibOK(s), NEW p \in Path, NEW v
  PROVE  /\ \A r \in {Questa!uvm_hdl_get_vlog(s, p, v),
                     Questa!uvm_register_get_vhdl(s, p, v)} :
              LibOK(r.s) /\ r.s.d = s.d
         /\ Questa!uvm_register_get_vhdl(s, p, v).ret = 1
         /\ p.sel # "slice" /\ Handle(p) /\ Width(p) <= MaxWidth =>
              Questa!uvm_hdl_get_vlog(s, p, v).ret # 0
<1>1. \A b \in BOOLEAN : /\ LibOK([s EXCEPT !.partsel = b])
                         /\ [s EXCEPT !.partsel = b].d = s.d
  BY DEF LibOK, Lib, DesignOK
<1>2. \A w, q : Questa!uvm_hdl_get_vlog_partsel(s, q, w).s \in
                  {[s EXCEPT !.partsel = FALSE], [s EXCEPT !.partsel = TRUE]}
  BY DEF Questa!uvm_hdl_get_vlog_partsel, Questa!Done, Questa!Refused, Questa!Outcome
<1>3. \/ Questa!uvm_hdl_get_vlog(s, p, v).s = s
      \/ Questa!uvm_hdl_get_vlog(s, p, v).s \in
           {[s EXCEPT !.partsel = FALSE], [s EXCEPT !.partsel = TRUE]}
  BY <1>2, QuestaDesign DEF Questa!uvm_hdl_get_vlog, Questa!Done, Questa!Refused, Questa!Outcome
<1>4. /\ Questa!uvm_register_get_vhdl(s, p, v).s = s
      /\ Questa!uvm_register_get_vhdl(s, p, v).ret = 1
  BY DEF Questa!uvm_register_get_vhdl, Questa!Done, Questa!Outcome
<1>5. p.sel # "slice" /\ Handle(p) /\ Width(p) <= MaxWidth =>
        Questa!uvm_hdl_get_vlog(s, p, v).ret # 0
  BY QuestaDesign, PathWidth, DesignAssumption
     DEF Questa!uvm_hdl_get_vlog, Questa!Done, Questa!Refused, Questa!Outcome
<1> QED
  BY <1>1, <1>3, <1>4, <1>5

(* Questa's uvm_hdl_release_and_read changes what the path names.          *)
LEMMA QuestaReleaseAndRead ==
  ASSUME NEW s, LibOK(s), NEW p \in Path, NEW v \in Data,
         IsA(p, "vhdl") => Width(p) <= MaxWidth,
         NEW x \in Questa!uvm_hdl_release_and_read(s, p, v)
  PROVE  /\ Leaves(s, p, x)
         /\ p.sel = "slice" \/ Width(p) > MaxWidth \/ Spared(s, x)
<1> DEFINE r == Questa!Set(s, p, v, "release")
           q == IF p.sel = "slice" THEN [p EXCEPT !.sel = "bit", !.rhs = p.lhs] ELSE p
<1>1. Leaves(s, p, r) /\ (p.sel = "slice" \/ Spared(s, r))
  BY QuestaSet
<1>2. x = IF IsA(p, "vhdl") THEN Questa!uvm_register_get_vhdl(r.s, p, v)
          ELSE IF r.ret = 1 THEN Questa!uvm_hdl_get_vlog(r.s, q, v) ELSE r
  BY QuestaDesign DEF Questa!uvm_hdl_release_and_read, Questa!uvm_is_vhdl_path
<1>3. q \in Path
  BY DEF Path
<1>4. ~ IsA(p, "vhdl") /\ p.sel # "slice" /\ r.ret = 1 => Handle(p)
  BY QuestaDesign DEF Questa!Set, Questa!uvm_is_vhdl_path, Questa!uvm_hdl_set_vlog,
     Questa!Refused, Questa!Outcome
<1> HIDE DEF r
<1>5. LibOK(r.s)
  BY <1>1 DEF Leaves
<1>6. CASE IsA(p, "vhdl")
  <2>1. LibOK(x.s) /\ x.s.d = r.s.d /\ x.ret = 1
    BY <1>2, <1>5, <1>6, QuestaGet
  <2> QED
    BY <1>1, <2>1 DEF Leaves, Spared
<1>7. CASE ~ IsA(p, "vhdl") /\ r.ret = 1
  <2>1. x = Questa!uvm_hdl_get_vlog(r.s, q, v)
    BY <1>2, <1>7
  <2> HIDE DEF q
  <2>2. LibOK(x.s) /\ x.s.d = r.s.d
    BY <1>3, <1>5, <2>1, QuestaGet
  <2>3. p.sel # "slice" /\ Width(p) <= MaxWidth => x.ret # 0
    <3> SUFFICES ASSUME p.sel # "slice", Width(p) <= MaxWidth
                 PROVE  x.ret # 0
      OBVIOUS
    <3>1. q = p /\ Handle(p)
      BY <1>4, <1>7 DEF q
    <3> QED
      BY <1>5, <2>1, <3>1, QuestaGet
  <2>4. ~ Width(p) <= MaxWidth => Width(p) > MaxWidth
    BY PathWidth, DesignAssumption
  <2> QED
    BY <1>1, <2>2, <2>3, <2>4 DEF Leaves, Spared
<1>8. CASE ~ IsA(p, "vhdl") /\ r.ret # 1
  BY <1>1, <1>2, <1>8
<1> QED
  BY <1>6, <1>7, <1>8

(* uvm_hdl_check_path and uvm_hdl_read of Questa leave the design.         *)
LEMMA QuestaReads ==
  ASSUME NEW s, LibOK(s), NEW p \in Path, NEW v,
         NEW x \in Questa!uvm_hdl_check_path(s, p, v) \cup Questa!uvm_hdl_read(s, p, v)
  PROVE  LibOK(x.s) /\ x.s.d = s.d
<1>1. CASE x \in Questa!uvm_hdl_check_path(s, p, v)
  BY <1>1 DEF Questa!uvm_hdl_check_path, Questa!Outcome
<1>2. CASE x \in Questa!uvm_hdl_read(s, p, v)
  BY <1>2, QuestaGet DEF Questa!uvm_hdl_read
<1> QED
  BY <1>1, <1>2

-----------------------------------------------------------------------------
(* Xcelium                                                                 *)

(* HdlXcelium means by its own HdlDesign what this module means.           *)
LEMMA XceliumDesign ==
  /\ \A d, o, b, f : Xcelium!Put(d, o, b, f) = Put(d, o, b, f)
  /\ \A p, n, v : Xcelium!Spread(p, n, v) = Spread(p, n, v)
  /\ \A p : /\ Xcelium!Width(p) = Width(p) /\ Xcelium!Handle(p) = Handle(p)
            /\ Xcelium!Reached(p) = Reached(p) /\ Xcelium!KindOf(p) = KindOf(p)
  /\ \A p, l : Xcelium!IsA(p, l) = IsA(p, l)
  /\ \A d, p : Xcelium!Content(d, p) = Content(d, p)
  /\ \A v, n, b : Xcelium!Copied(v, n, b) = Copied(v, n, b)
  /\ \A n : Xcelium!Chunks(n) = Chunks(n)
BY DEF Xcelium!Content, Content, Xcelium!Copied, Copied, Xcelium!Chunks, Chunks,
       Xcelium!Put, Put, Xcelium!Resolved, Resolved, Xcelium!Over, Over, Xcelium!On, On,
       Xcelium!Free, Free, Xcelium!Spread, Spread, Xcelium!Named, Named, Xcelium!Index,
       Index, Xcelium!Width, Width, Xcelium!Positions, Positions, Xcelium!Size, Size,
       Xcelium!Handle, Handle, Xcelium!Exists, Exists, Xcelium!Position, Position,
       Xcelium!IsA, IsA, Xcelium!Reached, Reached, Xcelium!Bits, Bits,
       Xcelium!KindOf, KindOf

(* A write with Verilog flag f and VHDL flag g refuses, ends the           *)
(* simulation, or puts the value, or some of a slice.                      *)
LEMMA XceliumSteps ==
  ASSUME NEW s, NEW p \in Path, NEW v, NEW f, NEW g,
         NEW x \in Xcelium!Set(s, p, v, f, g)
  PROVE  \/ x.s = s /\ x.ret = 0
         \/ \E h \in {f, g} :
              /\ p.obj \in Object
              /\ x.s = [s EXCEPT !.d = Put(@, p.obj, Spread(p, Width(p), v), h)]
              /\ x.ret = 1
         \/ /\ p.sel = "slice" /\ p.obj \in Object /\ x.ret = 0
            /\ \E n \in Int : x.s = [s EXCEPT !.d = Put(@, p.obj, Spread(p, n, v), f)]
<1>1. CASE p.sel = "slice"
  <2> DEFINE n == Reached(p)
             t == IF n = 0 THEN s
                  ELSE [s EXCEPT !.d = Put(@, p.obj, Spread(p, n, v), f)]
  <2>1. x = Xcelium!uvm_hdl_set_vlog_partsel(s, p, v, f)
    BY <1>1 DEF Xcelium!Set, Xcelium!is_valid_path_slice
  <2>2. x.s = t /\ (IF n = Width(p) THEN x.ret = 1 ELSE x.ret = 0)
    BY <2>1, XceliumDesign DEF Xcelium!uvm_hdl_set_vlog_partsel, Xcelium!Done,
       Xcelium!Refused, Xcelium!Outcome
  <2>3. n # 0 => p.obj \in Object
    BY DEF Reached, IsA
  <2>4. n \in Int /\ Width(p) # 0
    BY PathWidth, DesignAssumption DEF Reached, Size, IsA, Path
  <2> HIDE DEF n
  <2> QED
    BY <1>1, <2>2, <2>3, <2>4
<1>2. CASE p.sel # "slice"
  <2>1. PICK l \in Xcelium!m_uvm_get_object_handle(p) :
          x = CASE l = "verilog" -> Xcelium!uvm_hdl_set_vlog(s, p, v, f)
                [] l = "vhdl" -> Xcelium!uvm_hdl_set_vhdl(s, p, v, g)
                [] OTHER -> Xcelium!Refused(s, v)
    BY <1>2 DEF Xcelium!Set, Xcelium!is_valid_path_slice
  <2>2. CASE l = "verilog"
    BY <2>1, <2>2, XceliumDesign DEF Xcelium!uvm_hdl_set_vlog, Xcelium!Done,
       Xcelium!Refused, Xcelium!Outcome, Handle, IsA
  <2>3. CASE l = "vhdl"
    BY <2>1, <2>3, XceliumDesign DEF Xcelium!uvm_hdl_set_vhdl, Xcelium!Done,
       Xcelium!Finish, Xcelium!Outcome, IsA
  <2>4. CASE l \notin {"verilog", "vhdl"}
    BY <2>1, <2>4 DEF Xcelium!Refused, Xcelium!Outcome
  <2> QED
    BY <2>2, <2>3, <2>4
<1> QED
  BY <1>1, <1>2

(* A write of Xcelium, by VPI or by VHPI, in one go or bit by bit.         *)
LEMMA XceliumSet ==
  ASSUME NEW s, LibOK(s), NEW p \in Path, NEW v \in Data, NEW f, NEW g,
         NEW x \in Xcelium!Set(s, p, v, f, g)
  PROVE  /\ Leaves(s, p, x) /\ (p.sel = "slice" \/ Spared(s, x))
         /\ f = "deposit" /\ g = "deposit" => ForcedKept(s.d, x.s.d)
         /\ x.ret = 1 => p.obj \in Object
         /\ x.ret = 1 => \E h \in {f, g} : Takes(p, h) => Works(h, x.s.d, p, v)
<1>1. CASE x.s = s /\ x.ret = 0
  BY <1>1, SameLeaves
<1>2. ASSUME NEW h \in {f, g}, p.obj \in Object, x.ret = 1,
             x.s = [s EXCEPT !.d = Put(@, p.obj, Spread(p, Width(p), v), h)]
      PROVE  /\ Leaves(s, p, x) /\ Spared(s, x)
             /\ h = "deposit" => ForcedKept(s.d, x.s.d)
             /\ Takes(p, h) => Works(h, x.s.d, p, v)
  <2>1. /\ x.s.d = Put(s.d, p.obj, Spread(p, Width(p), v), h) /\ DesignOK(s.d)
        /\ x.s = [d |-> x.s.d, partsel |-> s.partsel]
    BY <1>2 DEF LibOK, Lib
  <2>2. PartOf(Spread(p, Width(p), v), p)
    BY SpreadType
  <2>3. Leaves(s, p, x) /\ (h = "deposit" => ForcedKept(s.d, x.s.d))
    BY <1>2, <2>1, <2>2, PutLeaves
  <2>4. Takes(p, h) => Works(h, x.s.d, p, v)
    BY <1>2, <2>1, SpreadWorks
  <2> QED
    BY <1>2, <2>3, <2>4 DEF Spared
<1>3. ASSUME p.sel = "slice", p.obj \in Object, x.ret = 0, NEW n \in Int,
             x.s = [s EXCEPT !.d = Put(@, p.obj, Spread(p, n, v), f)]
      PROVE  /\ Leaves(s, p, x)
             /\ f = "deposit" => ForcedKept(s.d, x.s.d)
  <2>1. /\ x.s.d = Put(s.d, p.obj, Spread(p, n, v), f)
        /\ x.s = [d |-> x.s.d, partsel |-> s.partsel]
    BY <1>3 DEF LibOK, Lib
  <2>2. PartOf(Spread(p, n, v), p)
    BY SpreadType
  <2> QED
    BY <1>3, <2>1, <2>2, PutLeaves
<1>4. \/ x.s = s /\ x.ret = 0
      \/ \E h \in {f, g} :
           /\ p.obj \in Object
           /\ x.s = [s EXCEPT !.d = Put(@, p.obj, Spread(p, Width(p), v), h)]
           /\ x.ret = 1
      \/ /\ p.sel = "slice" /\ p.obj \in Object /\ x.ret = 0
         /\ \E n \in Int : x.s = [s EXCEPT !.d = Put(@, p.obj, Spread(p, n, v), f)]
  BY XceliumSteps
<1>5. CASE \E h \in {f, g} :
             /\ p.obj \in Object
             /\ x.s = [s EXCEPT !.d = Put(@, p.obj, Spread(p, Width(p), v), h)]
             /\ x.ret = 1
  <2>1. PICK h \in {f, g} :
          /\ p.obj \in Object
          /\ x.s = [s EXCEPT !.d = Put(@, p.obj, Spread(p, Width(p), v), h)]
          /\ x.ret = 1
    BY <1>5
  <2> QED
    BY <1>2, <2>1
<1>6. CASE /\ p.sel = "slice" /\ p.obj \in Object /\ x.ret = 0
           /\ \E n \in Int : x.s = [s EXCEPT !.d = Put(@, p.obj, Spread(p, n, v), f)]
  <2>1. PICK n \in Int : x.s = [s EXCEPT !.d = Put(@, p.obj, Spread(p, n, v), f)]
    BY <1>6
  <2> QED
    BY <1>3, <1>6, <2>1
<1> QED
  BY <1>1, <1>4, <1>5, <1>6

(* A read leaves the library and the design alone; one that fails without  *)
(* ending the simulation has not found the path, or it is too wide.        *)
LEMMA XceliumRead ==
  ASSUME NEW s, NEW p \in Path, NEW v, NEW l, NEW x \in Xcelium!Read(s, p, v, l)
  PROVE  /\ x.s = s
         /\ l = "verilog" /\ Handle(p) /\ Width(p) <= MaxWidth => x.ret # 0
         /\ l = "vhdl" => x.ret # 0 \/ x.finish = TRUE
<1>1. CASE l = "verilog"
  BY <1>1, XceliumDesign, PathWidth, DesignAssumption
     DEF Xcelium!Read, Xcelium!uvm_hdl_get_vlog, Xcelium!Done, Xcelium!Refused,
         Xcelium!Outcome
<1>2. CASE l = "vhdl"
  BY <1>2 DEF Xcelium!Read, Xcelium!uvm_hdl_get_vhdl, Xcelium!Done, Xcelium!Finish,
     Xcelium!Outcome
<1>3. CASE l \notin {"verilog", "vhdl"}
  BY <1>3 DEF Xcelium!Read, Xcelium!Refused, Xcelium!Outcome
<1> QED
  BY <1>1, <1>2, <1>3

LEMMA XceliumReadLeaves ==
  \A s, v, l : \A p \in Path : \A x \in Xcelium!Read(s, p, v, l) : x.s = s
BY XceliumRead

(* uvm_hdl_check_path and uvm_hdl_read of Xcelium leave the design.        *)
LEMMA XceliumReads ==
  ASSUME NEW s, NEW p \in Path, NEW v,
         NEW x \in Xcelium!uvm_hdl_check_path(s, p, v) \cup Xcelium!uvm_hdl_read(s, p, v)
  PROVE  x.s = s
<1>1. CASE x \in Xcelium!uvm_hdl_check_path(s, p, v)
  BY <1>1 DEF Xcelium!uvm_hdl_check_path, Xcelium!Outcome
<1>2. CASE x \in Xcelium!uvm_hdl_read(s, p, v) /\ p.sel = "slice"
  BY <1>2 DEF Xcelium!uvm_hdl_read, Xcelium!is_valid_path_slice,
     Xcelium!uvm_hdl_get_vlog_partsel, Xcelium!Done, Xcelium!Refused, Xcelium!Outcome
<1>3. CASE x \in Xcelium!uvm_hdl_read(s, p, v) /\ p.sel # "slice"
  <2>1. PICK l \in Xcelium!m_uvm_get_object_handle(p) : x \in Xcelium!Read(s, p, v, l)
    BY <1>3 DEF Xcelium!uvm_hdl_read, Xcelium!is_valid_path_slice
  <2> QED
    BY <2>1, XceliumRead
<1> QED
  BY <1>1, <1>2, <1>3

(* Xcelium releases, then reads.                                           *)
LEMMA XceliumReleaseAndRead ==
  ASSUME NEW s, LibOK(s), NEW p \in Path, NEW v \in Data,
         NEW x \in Xcelium!uvm_hdl_release_and_read(s, p, v)
  PROVE  /\ Leaves(s, p, x)
         /\ p.sel = "slice" \/ Width(p) > MaxWidth \/ Spared(s, x)
<1>1. CASE p.sel = "slice"
  <2>1. PICK r \in Xcelium!Set(s, p, v, "release", "releaseKV") :
          x = [r EXCEPT !.v = Xcelium!clear_value(@), !.ret = 0]
    BY <1>1 DEF Xcelium!uvm_hdl_release_and_read, Xcelium!uvm_hdl_release,
       Xcelium!is_valid_path_slice
  <2>2. Leaves(s, p, r)
    BY XceliumSet
  <2>3. r = Xcelium!uvm_hdl_set_vlog_partsel(s, p, v, "release")
    BY <1>1, <2>1 DEF Xcelium!Set, Xcelium!is_valid_path_slice
  <2>4. x.s = r.s
    BY <2>1, <2>3 DEF Xcelium!uvm_hdl_set_vlog_partsel, Xcelium!Done, Xcelium!Refused,
       Xcelium!Outcome
  <2> QED
    BY <1>1, <2>2, <2>4 DEF Leaves
<1>2. CASE p.sel # "slice"
  <2> DEFINE W(l) == IF l = "vhdl" THEN Xcelium!uvm_hdl_set_vhdl(s, p, v, "releaseKV")
                     ELSE Xcelium!uvm_hdl_set_vlog(s, p, v, "release")
  <2>1. PICK l \in Xcelium!m_uvm_get_object_handle(p) :
          \E y \in Xcelium!Read(W(l).s, p, v, l) :
            x = Xcelium!Outcome(y.s, y.v, y.ret, y.err \/ W(l).err, y.finish \/ W(l).finish)
    BY <1>2 DEF Xcelium!uvm_hdl_release_and_read, Xcelium!is_valid_path_slice
  <2> HIDE DEF W
  <2>2. PICK y \in Xcelium!Read(W(l).s, p, v, l) :
          x = Xcelium!Outcome(y.s, y.v, y.ret, y.err \/ W(l).err, y.finish \/ W(l).finish)
    BY <2>1
  <2>3. /\ y.s = W(l).s
        /\ l = "verilog" /\ Handle(p) /\ Width(p) <= MaxWidth => y.ret # 0
        /\ l = "vhdl" => y.ret # 0 \/ y.finish = TRUE
    BY XceliumRead
  <2>4. x.s = W(l).s /\ x.ret = y.ret /\ (y.finish = TRUE => x.finish = TRUE)
    BY <2>2, <2>3 DEF Xcelium!Outcome
  <2>5. PICK r \in Xcelium!Set(s, p, v, "release", "releaseKV") :
          (l \in {"verilog", "vhdl"} /\ r = W(l)) \/ (l \notin {"verilog", "vhdl"} /\ r.s = s)
    <3> DEFINE T(k) == CASE k = "verilog" -> Xcelium!uvm_hdl_set_vlog(s, p, v, "release")
                         [] k = "vhdl" -> Xcelium!uvm_hdl_set_vhdl(s, p, v, "releaseKV")
                         [] OTHER -> Xcelium!Refused(s, v)
    <3>1. T(l) \in Xcelium!Set(s, p, v, "release", "releaseKV")
      BY <1>2, <2>1 DEF Xcelium!Set, Xcelium!is_valid_path_slice
    <3>2. l \notin {"verilog", "vhdl"} => T(l).s = s
      BY DEF Xcelium!Refused, Xcelium!Outcome
    <3>3. l \in {"verilog", "vhdl"} => T(l) = W(l)
      BY DEF W
    <3> HIDE DEF T
    <3> QED
      BY <3>1, <3>2, <3>3
  <2>6. Leaves(s, p, r) /\ Spared(s, r)
    BY <1>2, XceliumSet
  <2>7. CASE l = "verilog"
    <3>1. ~ Handle(p) => W(l).s = s
      BY <2>7, XceliumDesign DEF W, Xcelium!uvm_hdl_set_vlog, Xcelium!Refused, Xcelium!Outcome
    <3>2. Handle(p) /\ Width(p) <= MaxWidth => x.ret # 0
      BY <2>3, <2>4, <2>7
    <3>3. ~ Width(p) <= MaxWidth => Width(p) > MaxWidth
      BY PathWidth, DesignAssumption
    <3> QED
      BY <2>4, <2>5, <2>6, <2>7, <3>1, <3>2, <3>3 DEF Leaves, Spared
  <2>8. CASE l = "vhdl"
    <3>1. x.ret # 0 \/ x.finish = TRUE
      BY <2>3, <2>4, <2>8
    <3> QED
      BY <2>4, <2>5, <2>6, <2>8, <3>1 DEF Leaves, Spared
  <2>9. CASE l \notin {"verilog", "vhdl"}
    <3>1. W(l).s = s
      BY <2>1, <2>9, XceliumDesign DEF W, Xcelium!m_uvm_get_object_handle, Xcelium!uvm_hdl_set_vlog,
         Xcelium!Refused, Xcelium!Outcome
    <3> QED
      BY <2>4, <3>1, SameLeaves
  <2> QED
    BY <2>7, <2>8, <2>9
<1> QED
  BY <1>1, <1>2

-----------------------------------------------------------------------------
(* VCS and VCSMX                                                           *)

(* HdlVcs means by its own HdlDesign what this module means.               *)
LEMMA VcsDesign ==
  /\ \A d, o, b, f : VcsMX!Put(d, o, b, f) = Put(d, o, b, f)
  /\ \A p, n, v : VcsMX!Spread(p, n, v) = Spread(p, n, v)
  /\ \A p : /\ VcsMX!Width(p) = Width(p) /\ VcsMX!Named(p) = Named(p)
            /\ VcsMX!KindOf(p) = KindOf(p)
  /\ \A p, l : VcsMX!IsA(p, l) = IsA(p, l)
  /\ \A o : VcsMX!Positions(o) = Positions(o)
  /\ \A n : VcsMX!Chunks(n) = Chunks(n)
  /\ \A b : VcsMX!Aval(b) = Aval(b)
  /\ \A d, p : VcsMX!Content(d, p) = Content(d, p)
  /\ \A v, n, b : VcsMX!Copied(v, n, b) = Copied(v, n, b)
BY DEF VcsMX!Content, Content, VcsMX!Copied, Copied, VcsMX!Position, Position,
       VcsMX!Put, Put, VcsMX!Resolved, Resolved, VcsMX!Over, Over, VcsMX!On, On,
       VcsMX!Free, Free, VcsMX!Spread, Spread, VcsMX!Named, Named, VcsMX!Index,
       Index, VcsMX!Width, Width, VcsMX!Positions, Positions, VcsMX!Size, Size,
       VcsMX!IsA, IsA, VcsMX!Bits, Bits, VcsMX!KindOf, KindOf, VcsMX!Chunks, Chunks,
       VcsMX!Aval, Aval

(* What the two share.                                                     *)
LEMMA VcsAlike ==
  /\ \A s, p, v, f : Vcs!uvm_hdl_set_vlog(s, p, v, f) = VcsMX!uvm_hdl_set_vlog(s, p, v, f)
  /\ \A s, p, v : Vcs!uvm_hdl_get_vlog(s, p, v) = VcsMX!uvm_hdl_get_vlog(s, p, v)
  /\ \A p : ~ Vcs!mhpiVhpiPli(p)
BY DEF Vcs!uvm_hdl_set_vlog, VcsMX!uvm_hdl_set_vlog, Vcs!uvm_hdl_get_vlog,
       VcsMX!uvm_hdl_get_vlog, Vcs!ByName, VcsMX!ByName, Vcs!vector_compat_type,
       VcsMX!vector_compat_type, Vcs!Done, VcsMX!Done, Vcs!Refused, VcsMX!Refused,
       Vcs!Outcome, VcsMX!Outcome, Vcs!Put, VcsMX!Put, Vcs!Resolved, VcsMX!Resolved,
       Vcs!Over, VcsMX!Over, Vcs!On, VcsMX!On, Vcs!Free, VcsMX!Free, Vcs!Spread,
       VcsMX!Spread, Vcs!Named, VcsMX!Named, Vcs!Index, VcsMX!Index, Vcs!Width,
       VcsMX!Width, Vcs!Positions, VcsMX!Positions, Vcs!Size, VcsMX!Size, Vcs!IsA,
       VcsMX!IsA, Vcs!Bits, VcsMX!Bits, Vcs!KindOf, VcsMX!KindOf, Vcs!Exists,
       VcsMX!Exists, Vcs!Position, VcsMX!Position, Vcs!Copied, VcsMX!Copied,
       Vcs!Content, VcsMX!Content, Vcs!Chunks, VcsMX!Chunks, Vcs!mhpiVhpiPli

(* uvm_hdl_set_vlog of VCS puts the value or refuses.                      *)
LEMMA VcsVlog ==
  ASSUME NEW s, LibOK(s), NEW p \in Path, NEW v \in Data, NEW flag, NEW x,
         x = VcsMX!uvm_hdl_set_vlog(s, p, v, flag)
  PROVE  /\ Leaves(s, p, x) /\ Spared(s, x)
         /\ flag = "deposit" => ForcedKept(s.d, x.s.d)
         /\ x.ret = 1 => p.obj \in Object /\ KindOf(p) # "constant"
         /\ x.ret = 1 /\ Takes(p, flag) => Works(flag, x.s.d, p, v)
<1>1. \/ x.s = s /\ x.ret = 0
      \/ /\ x.s = [s EXCEPT !.d = Put(@, p.obj, Spread(p, Width(p), v), flag)]
         /\ x.ret = 1 /\ p.obj \in Object /\ KindOf(p) # "constant"
  BY VcsDesign DEF VcsMX!uvm_hdl_set_vlog, VcsMX!ByName, VcsMX!Done, VcsMX!Refused,
     VcsMX!Outcome, IsA
<1>2. CASE x.s = s /\ x.ret = 0
  BY <1>2, SameLeaves
<1>3. CASE /\ x.s = [s EXCEPT !.d = Put(@, p.obj, Spread(p, Width(p), v), flag)]
           /\ x.ret = 1 /\ p.obj \in Object /\ KindOf(p) # "constant"
  <2> DEFINE bits == Spread(p, Width(p), v)
  <2>1. /\ x.s.d = Put(s.d, p.obj, bits, flag) /\ DesignOK(s.d)
        /\ x.s = [d |-> x.s.d, partsel |-> s.partsel]
    BY <1>3 DEF LibOK, Lib
  <2>2. PartOf(bits, p)
    BY SpreadType
  <2>3. p.obj \in Object
    BY <1>3
  <2>4. Takes(p, flag) => Works(flag, x.s.d, p, v)
    BY <1>3, <2>1, SpreadWorks
  <2>5. Leaves(s, p, x) /\ (flag = "deposit" => ForcedKept(s.d, x.s.d))
    <3> HIDE DEF bits
    <3> QED
      BY <2>1, <2>2, <2>3, PutLeaves
  <2> QED
    BY <1>3, <2>4, <2>5 DEF Spared
<1> QED
  BY <1>1, <1>2, <1>3

(* A set of positive numbers up to n that is not empty has a largest one.  *)
LEMMA LargestOf ==
  ASSUME NEW n \in Nat, NEW S \in SUBSET (1 .. n), S # {}
  PROVE  \E b \in S : \A c \in S : c <= b
<1> DEFINE R == {ss \in Nat \X Nat : ss[1] < ss[2]}
           T == {n - b : b \in S}
<1>1. IsWellFoundedOn(R, Nat)
  BY NatLessThanWellFounded DEF OpToRel
<1>2. \A b \in S : b \in Int /\ n - b \in Nat
  OBVIOUS
<1>3. T \subseteq Nat /\ T # {}
  BY <1>2
<1>4. PICK x \in T : \A y \in T : ~ (<<y, x>> \in R)
  <2> HIDE DEF R, T
  <2> QED
    BY <1>1, <1>3, WFMin
<1>5. PICK b \in S : x = n - b
  OBVIOUS
<1>6. ASSUME NEW c \in S
      PROVE  c <= b
  <2>1. n - c \in T /\ ~ (n - c < n - b)
    BY <1>2, <1>4, <1>5
  <2> QED
    BY <1>2, <2>1
<1> QED
  BY <1>6

(* The last word of a value of w bits begins below w, covers the rest of   *)
(* it, and ends within the caller's value.                                 *)
LEMMA LastWord ==
  ASSUME NEW w \in Nat \ {0}, w <= MaxWidth
  PROVE  LET low == (Chunks(w) - 1) * Word IN
         /\ low \in Nat /\ low < w /\ w <= low + Word /\ low + Word <= MaxWidth
<1> DEFINE c == (w - 1) \div Word  k == MaxWidth \div Word
<1>1. Word \in Nat \ {0} /\ MaxWidth \in Nat /\ MaxWidth % Word = 0
  BY DesignAssumption
<1>2. ASSUME NEW n \in Nat, NEW d \in Nat \ {0}
      PROVE  n \div d \in Nat /\ n % d \in 0 .. d - 1 /\ n = d * (n \div d) + (n % d)
  OBVIOUS
<1>3. c \in Nat /\ (w - 1) % Word \in 0 .. Word - 1 /\ w - 1 = Word * c + ((w - 1) % Word)
  <2>1. w - 1 \in Nat
    OBVIOUS
  <2> QED
    BY <1>1, <1>2, <2>1
<1>4. k \in Nat /\ MaxWidth = Word * k
  BY <1>1, <1>2
<1>5. (Chunks(w) - 1) * Word = Word * c
  BY <1>1, <1>3 DEF Chunks
<1> HIDE DEF c, k
<1>6. Word * c \in Nat /\ Word * c < w /\ w <= Word * c + Word
  BY <1>1, <1>3
<1>7. Word * c + Word <= Word * k
  <2>1. c < k
    BY <1>1, <1>3, <1>4, <1>6
  <2>2. PICK e \in Nat : k = c + 1 + e
    <3>1. k - c - 1 \in Nat /\ k = c + 1 + (k - c - 1)
      BY <1>3, <1>4, <2>1
    <3> QED
      BY <3>1
  <2>3. Word * k = Word * c + Word + Word * e /\ Word * e >= 0
    BY <1>1, <1>3, <2>2
  <2> QED
    BY <1>1, <1>3, <1>4, <2>2, <2>3
<1> QED
  BY <1>4, <1>5, <1>6, <1>7

(* The digits of the last word that uvm_hdl_dtob leaves out are zeros, and *)
(* those it has fit if nothing is set above the path.                      *)
LEMMA DigitsFit ==
  ASSUME NEW v \in Data, NEW w \in Nat \ {0}, w <= MaxWidth,
         \A b \in Bits : v[b] \in {"0", "1"} /\ (b >= w => v[b] = "0")
  PROVE  LET low == (Chunks(w) - 1) * Word
             have == VcsMX!uvm_hdl_dtob(v, Chunks(w) - 1) IN
         /\ have \in Nat /\ have <= w - low
         /\ \A b \in low + have .. w - 1 : v[b] = "0"
<1> DEFINE j == Chunks(w) - 1  low == j * Word
           ones == {b \in 1 .. Word - 1 : Aval(v[low + b]) = "1"}
           have == VcsMX!uvm_hdl_dtob(v, j)
<1>1. /\ low \in Nat /\ low < w /\ w <= low + Word /\ low + Word <= MaxWidth
      /\ Word \in Nat \ {0} /\ MaxWidth \in Nat
  BY LastWord, DesignAssumption
<1>2. have = IF ones = {} THEN 1 ELSE 1 + CHOOSE b \in ones : \A c \in ones : c <= b
  BY DEF VcsMX!uvm_hdl_dtob, VcsMX!Aval, Aval
<1> HIDE DEF j, low, have
<1>3. \A b \in 1 .. Word - 1 : low + b \in Bits
  BY <1>1 DEF Bits
<1>4. \A b \in low .. w - 1 : b \in Bits
  BY <1>1 DEF Bits
<1>5. \A b \in 1 .. Word - 1 : b \notin ones => v[low + b] = "0"
  BY <1>3 DEF Aval
<1>6. \A b \in ones : low + b < w
  BY <1>1, <1>3 DEF Aval
<1>7. CASE ones = {}
  <2>1. have = 1
    BY <1>2, <1>7
  <2>2. ASSUME NEW b \in low + 1 .. w - 1
        PROVE  v[b] = "0"
    <3>1. b - low \in 1 .. Word - 1 /\ low + (b - low) = b
      BY <1>1
    <3> QED
      BY <1>5, <1>7, <3>1
  <2> QED
    BY <1>1, <2>1, <2>2 DEF have, low, j
<1>8. CASE ones # {}
  <2>1. Word - 1 \in Nat /\ ones \in SUBSET (1 .. Word - 1)
    BY <1>1
  <2> DEFINE m == CHOOSE b \in ones : \A c \in ones : c <= b
  <2> HIDE DEF ones
  <2>2. m \in ones /\ \A c \in ones : c <= m
    BY <1>8, <2>1, LargestOf
  <2>3. have = 1 + m
    BY <1>2, <1>8
  <2> HIDE DEF m
  <2>4. m \in 1 .. Word - 1 /\ low + m < w
    BY <1>6, <2>1, <2>2
  <2>5. ASSUME NEW b \in low + 1 + m .. w - 1
        PROVE  v[b] = "0"
    <3>1. b - low \in 1 .. Word - 1 /\ low + (b - low) = b /\ ~ (b - low <= m)
      BY <1>1, <2>4
    <3> QED
      BY <1>5, <2>2, <3>1
  <2>6. have \in Nat /\ have <= w - low /\ low + have = low + 1 + m
    BY <1>1, <2>3, <2>4
  <2> QED
    BY <2>5, <2>6 DEF have, low, j
<1> QED
  BY <1>7, <1>8

(* uvm_hdl_set_mhdl of VCSMX: a force of digits 0 and 1 lands.             *)
LEMMA VcsMhdl ==
  ASSUME NEW s, LibOK(s), NEW p \in Path, IsA(p, "vhdl"), p.sel = "all",
         Width(p) <= MaxWidth, NEW v \in Data, NEW flag, NEW x,
         x = VcsMX!uvm_hdl_set_mhdl(s, p, v, flag)
  PROVE  /\ Leaves(s, p, x) /\ Spared(s, x)
         /\ flag = "deposit" => ForcedKept(s.d, x.s.d)
         /\ x.ret = 1
              /\ (\A b \in Bits : v[b] \in {"0", "1"} /\ (b >= Width(p) => v[b] = "0"))
              => Works(flag, x.s.d, p, v)
<1>0. CASE KindOf(p) = "constant"
  <2>1. x = VcsMX!Silent(s, v)
    BY <1>0, VcsDesign DEF VcsMX!uvm_hdl_set_mhdl
  <2>2. x.s = s /\ x.ret = 0
    BY <2>1 DEF VcsMX!Silent, VcsMX!Outcome
  <2> QED
    BY <2>2, SameLeaves
<1> SUFFICES ASSUME KindOf(p) # "constant"
             PROVE  /\ Leaves(s, p, x) /\ Spared(s, x)
                    /\ flag = "deposit" => ForcedKept(s.d, x.s.d)
                    /\ x.ret = 1
                         /\ (\A b \in Bits : v[b] \in {"0", "1"} /\ (b >= Width(p) => v[b] = "0"))
                         => Works(flag, x.s.d, p, v)
  BY <1>0
<1> DEFINE w == Width(p)
           low == (Chunks(w) - 1) * Word
           have == VcsMX!uvm_hdl_dtob(v, Chunks(w) - 1)
           fit == w - low
           sz == IF fit < have THEN fit ELSE have
           bits == [i \in Named(p) |->
                      IF i < low THEN Aval(v[i])
                      ELSE IF i - low < sz THEN Aval(v[i + have - sz]) ELSE "0"]
<1>1. p.obj \in Object /\ Named(p) = 0 .. w - 1 /\ \A i \in Named(p) : Index(p, i) = i
  BY PathWidth, DesignAssumption DEF IsA, Named, Positions, Index, Width, Size
<1>2. x = VcsMX!Done([s EXCEPT !.d = Put(@, p.obj, bits, flag)], v)
  <2>1. VcsMX!Positions(p.obj) = Named(p)
    BY <1>1, VcsDesign DEF Positions, Size, Width
  <2> QED
    BY <2>1, VcsDesign DEF VcsMX!uvm_hdl_set_mhdl
<1>3. bits \in [Named(p) -> {"0", "1"}]
  BY DEF Aval
<1>4. (\A b \in Bits : v[b] \in {"0", "1"} /\ (b >= w => v[b] = "0"))
        => \A i \in Named(p) : bits[i] = v[Index(p, i)]
  <2> SUFFICES ASSUME \A b \in Bits : v[b] \in {"0", "1"} /\ (b >= w => v[b] = "0"),
                      NEW i \in Named(p)
               PROVE  bits[i] = v[i]
    BY <1>1
  <2>1. w \in Nat \ {0} /\ w <= MaxWidth
    BY PathWidth
  <2>2. /\ have \in Nat /\ have <= w - low
        /\ \A b \in low + have .. w - 1 : v[b] = "0"
        /\ low \in Nat /\ low < w
    BY <2>1, DigitsFit, LastWord
  <2>3. i \in 0 .. w - 1 /\ i \in Bits /\ v[i] \in {"0", "1"}
    BY <1>1, <2>1, DesignAssumption DEF Bits
  <2> HIDE DEF low, have, w
  <2>4. sz = have
    BY <2>2, <2>1
  <2>5. CASE i < low
    BY <2>3, <2>5 DEF Aval
  <2>6. CASE ~ (i < low) /\ i - low < have
    BY <2>1, <2>2, <2>3, <2>4, <2>6 DEF Aval
  <2>7. CASE ~ (i < low) /\ ~ (i - low < have)
    <3>1. i \in low + have .. w - 1
      BY <2>1, <2>2, <2>3, <2>7
    <3> QED
      BY <2>2, <2>4, <2>7, <3>1
  <2> QED
    BY <2>5, <2>6, <2>7
<1> HIDE DEF bits
<1>5. PartOf(bits, p) /\ bits \in [Named(p) -> StdLogic]
  BY <1>3 DEF PartOf, StdLogic, Logic
<1>6. /\ x.ret = 1 /\ x.s.d = Put(s.d, p.obj, bits, flag) /\ DesignOK(s.d)
      /\ x.s = [d |-> x.s.d, partsel |-> s.partsel]
  BY <1>2 DEF VcsMX!Done, VcsMX!Outcome, LibOK, Lib
<1>7. Leaves(s, p, x) /\ (flag = "deposit" => ForcedKept(s.d, x.s.d))
  BY <1>1, <1>5, <1>6, PutLeaves
<1>8. (\A i \in Named(p) : bits[i] = v[Index(p, i)]) => Works(flag, x.s.d, p, v)
  <2> SUFFICES ASSUME \A i \in Named(p) : bits[i] = v[Index(p, i)]
               PROVE  Works(flag, x.s.d, p, v)
    OBVIOUS
  <2>1. Works(flag, Put(s.d, p.obj, bits, flag), p, v)
    BY <1>1, <1>5, <1>6, PutWorks
  <2> QED
    BY <1>6, <2>1
<1> QED
  BY <1>4, <1>6, <1>7, <1>8 DEF Spared, w

(* mhpi_release_force changes what the path names.                         *)
LEMMA VcsReleased ==
  ASSUME NEW s, LibOK(s), NEW p \in Path, p.obj \in Object, NEW v, NEW x,
         x \in {Vcs!Released(s, p, v), VcsMX!Released(s, p, v)}
  PROVE  /\ Leaves(s, p, x) /\ Spared(s, x)
         /\ KindOf(p) # "constant" => Works("release", x.s.d, p, v)
<1> DEFINE bits == [i \in Named(p) |-> "0"]
<1>1. Vcs!Released(s, p, v) = VcsMX!Released(s, p, v)
  BY DEF Vcs!Released, VcsMX!Released, Vcs!Done, VcsMX!Done, Vcs!Outcome, VcsMX!Outcome,
     Vcs!Put, VcsMX!Put, Vcs!Resolved, VcsMX!Resolved, Vcs!Over, VcsMX!Over, Vcs!On,
     VcsMX!On, Vcs!Free, VcsMX!Free, Vcs!Named, VcsMX!Named, Vcs!Index, VcsMX!Index,
     Vcs!Width, VcsMX!Width, Vcs!Positions, VcsMX!Positions, Vcs!Size, VcsMX!Size
<1>2. x = VcsMX!Done([s EXCEPT !.d = Put(@, p.obj, bits, "release")], v)
  BY <1>1, VcsDesign DEF VcsMX!Released
<1>3. bits \in [Named(p) -> StdLogic] /\ PartOf(bits, p)
  BY DEF PartOf, StdLogic, Logic
<1> HIDE DEF bits
<1>4. /\ x.ret = 1 /\ x.s.d = Put(s.d, p.obj, bits, "release") /\ DesignOK(s.d)
      /\ x.s = [d |-> x.s.d, partsel |-> s.partsel]
  BY <1>2 DEF VcsMX!Done, VcsMX!Outcome, LibOK, Lib
<1>5. KindOf(p) # "constant" => Works("release", x.s.d, p, v)
  <2>1. "release" \in Releasing
    BY DEF Releasing
  <2> QED
    BY <1>3, <1>4, <2>1, PutWorks
<1> QED
  BY <1>3, <1>4, <1>5, PutLeaves DEF Spared

(* A path that VCSMX finds as VHDL is a whole signal; what is not found is *)
(* left alone.                                                             *)
LEMMA VcsPaths ==
  ASSUME NEW s, NEW p, NEW v
  PROVE  /\ VcsMX!mhpiVhpiPli(p) => IsA(p, "vhdl") /\ p.sel = "all"
         /\ VcsMX!Known(p) => p.obj \in Object
         /\ VcsMX!Unknown(s, v).s = s /\ Vcs!Unknown(s, v).s = s
BY VcsDesign DEF VcsMX!mhpiVhpiPli, VcsMX!Known, VcsMX!ByName, IsA, VcsMX!Unknown, Vcs!Unknown,
   VcsMX!Refused, Vcs!Refused,
   VcsMX!Outcome, Vcs!Outcome

(* uvm_hdl_check_path and uvm_hdl_read of VCS leave the design.            *)
LEMMA VcsReads ==
  ASSUME NEW s, NEW p, NEW v,
         NEW x \in Vcs!uvm_hdl_check_path(s, p, v) \cup VcsMX!uvm_hdl_check_path(s, p, v)
                  \cup Vcs!uvm_hdl_read(s, p, v) \cup VcsMX!uvm_hdl_read(s, p, v)
  PROVE  x.s = s
<1>1. VcsMX!uvm_hdl_get_vlog(s, p, v).s = s /\ VcsMX!uvm_hdl_get_mhdl(s, p, v).s = s
  BY DEF VcsMX!uvm_hdl_get_vlog, VcsMX!uvm_hdl_get_mhdl, VcsMX!Done, VcsMX!Refused,
     VcsMX!Outcome
<1>2. CASE x \in Vcs!uvm_hdl_check_path(s, p, v) \cup VcsMX!uvm_hdl_check_path(s, p, v)
  BY <1>2 DEF Vcs!uvm_hdl_check_path, VcsMX!uvm_hdl_check_path, Vcs!Outcome, VcsMX!Outcome
<1>3. CASE x \in VcsMX!uvm_hdl_read(s, p, v)
  BY <1>1, <1>3, VcsPaths DEF VcsMX!uvm_hdl_read
<1>4. CASE x \in Vcs!uvm_hdl_read(s, p, v)
  BY <1>1, <1>4, VcsAlike, VcsPaths DEF Vcs!uvm_hdl_read
<1> QED
  BY <1>2, <1>3, <1>4

(* The functions that write or release put a value by VPI or by MHPI,      *)
(* release by MHPI, or find nothing.                                       *)
LEMMA VcsSteps ==
  ASSUME NEW s, NEW p, NEW v
  PROVE  /\ \A x \in Vcs!uvm_hdl_deposit(s, p, v) \cup VcsMX!uvm_hdl_deposit(s, p, v) :
              \/ x = VcsMX!uvm_hdl_set_vlog(s, p, v, "deposit")
              \/ /\ x \notin Vcs!uvm_hdl_deposit(s, p, v) /\ VcsMX!mhpiVhpiPli(p)
                 /\ x = VcsMX!uvm_hdl_set_mhdl(s, p, v, "deposit")
              \/ x.s = s /\ x.ret = 0
         /\ \A x \in Vcs!uvm_hdl_force(s, p, v) \cup VcsMX!uvm_hdl_force(s, p, v) :
              \/ x = VcsMX!uvm_hdl_set_vlog(s, p, v, "force")
              \/ /\ x \notin Vcs!uvm_hdl_force(s, p, v) /\ VcsMX!mhpiVhpiPli(p)
                 /\ x = VcsMX!uvm_hdl_set_mhdl(s, p, v, "force")
              \/ x.s = s /\ x.ret = 0
         /\ \A x \in Vcs!uvm_hdl_release(s, p, v) \cup VcsMX!uvm_hdl_release(s, p, v)
                     \cup Vcs!uvm_hdl_release_and_read(s, p, v)
                     \cup VcsMX!uvm_hdl_release_and_read(s, p, v) :
              \/ x = VcsMX!uvm_hdl_set_vlog(s, p, v, "release")
              \/ p.obj \in Object /\ x \in {Vcs!Released(s, p, v), VcsMX!Released(s, p, v)}
              \/ x.s = s /\ x.ret = 0
<1>1. \A x \in Vcs!uvm_hdl_deposit(s, p, v) \cup VcsMX!uvm_hdl_deposit(s, p, v) :
        \/ x = VcsMX!uvm_hdl_set_vlog(s, p, v, "deposit")
        \/ /\ x \notin Vcs!uvm_hdl_deposit(s, p, v) /\ VcsMX!mhpiVhpiPli(p)
           /\ x = VcsMX!uvm_hdl_set_mhdl(s, p, v, "deposit")
        \/ x.s = s /\ x.ret = 0
  BY VcsAlike, VcsPaths DEF Vcs!uvm_hdl_deposit, VcsMX!uvm_hdl_deposit, Vcs!Unknown,
     VcsMX!Unknown, Vcs!Refused, VcsMX!Refused, Vcs!Outcome, VcsMX!Outcome
<1>2. \A x \in Vcs!uvm_hdl_force(s, p, v) \cup VcsMX!uvm_hdl_force(s, p, v) :
        \/ x = VcsMX!uvm_hdl_set_vlog(s, p, v, "force")
        \/ /\ x \notin Vcs!uvm_hdl_force(s, p, v) /\ VcsMX!mhpiVhpiPli(p)
           /\ x = VcsMX!uvm_hdl_set_mhdl(s, p, v, "force")
        \/ x.s = s /\ x.ret = 0
  BY VcsAlike, VcsPaths DEF Vcs!uvm_hdl_force, VcsMX!uvm_hdl_force, Vcs!Unknown,
     VcsMX!Unknown, Vcs!Refused, VcsMX!Refused, Vcs!Outcome, VcsMX!Outcome
<1>3. \A x \in Vcs!uvm_hdl_release(s, p, v) \cup VcsMX!uvm_hdl_release(s, p, v) :
        \/ x = VcsMX!uvm_hdl_set_vlog(s, p, v, "release")
        \/ p.obj \in Object /\ x = VcsMX!Released(s, p, v)
        \/ x.s = s /\ x.ret = 0
  BY VcsAlike, VcsPaths DEF Vcs!uvm_hdl_release, VcsMX!uvm_hdl_release, IsA, Vcs!Unknown,
     VcsMX!Unknown, Vcs!Refused, VcsMX!Refused, Vcs!Outcome, VcsMX!Outcome
<1>4. \A x \in Vcs!uvm_hdl_release_and_read(s, p, v) :
        x = VcsMX!uvm_hdl_set_vlog(s, p, v, "release")
  BY VcsAlike DEF Vcs!uvm_hdl_release_and_read
<1>5. \A x \in VcsMX!uvm_hdl_release_and_read(s, p, v) :
        \/ p.obj \in Object /\ x = VcsMX!Released(s, p, v)
        \/ x.s = s /\ x.ret = 0
  BY VcsPaths DEF VcsMX!uvm_hdl_release_and_read, VcsMX!Unknown, VcsMX!Refused,
     VcsMX!Outcome
<1> QED
  BY <1>1, <1>2, <1>3, <1>4, <1>5

-----------------------------------------------------------------------------
(* What is read                                                            *)

(* The caller's value v shows the bits of design d that path p names.      *)
Shows(v, d, p) ==
  \A k \in 0 .. Width(p) - 1 : Content(d, p)[k] \in Logic => v[k] = Content(d, p)[k]

(* A number below a divisor has the quotient 0 and is its own remainder.   *)
LEMMA Below ==
  ASSUME NEW a \in Nat, NEW b \in Nat, a < b
  PROVE  a \div b = 0 /\ a % b = a
<1>1. a \div b \in Nat /\ a % b \in 0 .. b - 1 /\ a = b * (a \div b) + (a % b)
  OBVIOUS
<1>2. ASSUME NEW q \in Nat, q # 0
      PROVE  b * q >= b
  <2>1. q - 1 \in Nat /\ b * (q - 1) >= 0 /\ b * q = b * (q - 1) + b
    BY <1>2
  <2> QED
    BY <2>1
<1>3. a \div b = 0
  BY <1>1, <1>2
<1> QED
  BY <1>1, <1>3

(* One word holds a value that is no longer, and lies in the caller's.     *)
LEMMA FirstWord ==
  ASSUME NEW n \in Nat \ {0}, n <= Word
  PROVE  /\ Word \in Nat \ {0} /\ Word <= MaxWidth /\ MaxWidth \in Nat
         /\ Chunks(n) = 1
         /\ \A b \in 0 .. n - 1 : b \in Bits /\ b \div Word = 0 /\ b % Word = b
<1>1. Word \in Nat \ {0} /\ MaxWidth \in Nat \ {0}
  BY DesignAssumption
<1>2. Word <= MaxWidth
  <2>1. 1 \in Nat \ {0} /\ 1 <= MaxWidth
    BY <1>1
  <2> DEFINE low == (Chunks(1) - 1) * Word
  <2>2. low \in Nat /\ low + Word <= MaxWidth
    BY <2>1, LastWord
  <2> HIDE DEF low
  <2> QED
    BY <1>1, <2>2
<1>3. (n - 1) \div Word = 0
  <2>1. n - 1 \in Nat /\ n - 1 < Word
    BY <1>1
  <2> QED
    BY <1>1, <2>1, Below
<1>4. ASSUME NEW b \in 0 .. n - 1
      PROVE  b \in Bits /\ b \div Word = 0 /\ b % Word = b
  <2>1. b \in Nat /\ b < Word /\ b \in Bits
    BY <1>1, <1>2 DEF Bits
  <2> QED
    BY <1>1, <2>1, Below
<1> QED
  BY <1>1, <1>2, <1>3, <1>4 DEF Chunks

(* Words that are filled from a value show it.                             *)
LEMMA CopiedShows ==
  ASSUME NEW p \in Path, Width(p) <= MaxWidth, NEW v, NEW d
  PROVE  Shows(Copied(v, Width(p), Content(d, p)), d, p)
BY PathWidth, DesignAssumption DEF Shows, Copied, Bits

(* What Questa returns of VHDL that one word holds.                        *)
LEMMA QuestaShowsVhdl ==
  ASSUME NEW s, NEW p \in Path, Width(p) <= Word, NEW v
  PROVE  Shows(Questa!uvm_register_get_vhdl(s, p, v).v, s.d, p)
<1> DEFINE n == Width(p)
           array == [c \in 0 .. n - 1 |-> Content(s.d, p)[n - 1 - c]]
           str == Questa!vhdl_array_of_char2string(array)
<1>1. Questa!uvm_register_get_vhdl(s, p, v).v = Questa!string_to_vecval(str, n, v)
  BY QuestaDesign DEF Questa!uvm_register_get_vhdl, Questa!Done, Questa!Outcome
<1>2. n \in Nat \ {0} /\ n <= Word
  BY PathWidth
<1>3. /\ Word \in Nat \ {0} /\ Chunks(n) = 1
      /\ \A b \in 0 .. n - 1 : b \in Bits /\ b \div Word = 0 /\ b % Word = b
  BY <1>2, FirstWord
<1>4. ASSUME NEW k \in 0 .. n - 1, Content(s.d, p)[k] \in Logic
      PROVE  str[n - 1 - k] = Content(s.d, p)[k]
  <2>1. n - 1 - k \in 0 .. n - 1 /\ n - 1 - (n - 1 - k) = k
    BY <1>2
  <2>2. array[n - 1 - k] = Content(s.d, p)[k]
    BY <2>1
  <2> QED
    BY <1>4, <2>1, <2>2 DEF Questa!vhdl_array_of_char2string, Questa!Logic, Logic
<1>5. ASSUME NEW k \in 0 .. n - 1
      PROVE  Questa!string_to_vecval(str, n, v)[k] =
               IF str[n - 1 - k] \in Logic THEN str[n - 1 - k] ELSE "0"
  <2> HIDE DEF str, n
  <2> DEFINE len(j) == IF n - j * Word < Word THEN n - j * Word ELSE Word
             c(j, b) == IF b < len(j) THEN str[j * Word + len(j) - 1 - b] ELSE "0"
  <2>0. Questa!Bits = Bits /\ Questa!Logic = Logic
    BY DEF Questa!Bits, Bits, Questa!Logic, Logic
  <2>1. Questa!string_to_vecval(str, n, v)[k] =
          IF k \div Word >= Chunks(n) THEN v[k]
          ELSE IF c(k \div Word, k % Word) \in Logic THEN c(k \div Word, k % Word) ELSE "0"
    BY <1>3, <2>0, QuestaDesign DEF Questa!string_to_vecval
  <2>2. c(0, k) = str[n - 1 - k]
    <3>1. len(0) = n /\ k < n /\ 0 * Word + n - 1 - k = n - 1 - k
      BY <1>2, <1>3
    <3> HIDE DEF len
    <3> QED
      BY <3>1
  <2>3. k \div Word = 0 /\ k % Word = k /\ ~ (0 >= Chunks(n))
    BY <1>3
  <2> HIDE DEF c
  <2> QED
    BY <2>1, <2>2, <2>3
<1> HIDE DEF str
<1> QED
  BY <1>1, <1>4, <1>5 DEF Shows

(* What Questa returns of Verilog.                                         *)
LEMMA QuestaShowsVlog ==
  ASSUME NEW s, LibOK(s), NEW p \in Path, p.sel = "slice" => Width(p) <= MaxWidth, NEW v,
         Questa!uvm_hdl_get_vlog(s, p, v).ret = 1
  PROVE  Shows(Questa!uvm_hdl_get_vlog(s, p, v).v, s.d, p)
<1> DEFINE w == [b \in Bits |-> IF ~ s.partsel /\ b < MaxWidth - Word THEN "0" ELSE v[b]]
<1>0. Questa!Bits = Bits
  BY DEF Questa!Bits, Bits
<1>1. CASE p.sel = "slice"
  <2>1. Questa!uvm_hdl_get_vlog(s, p, v) = Questa!uvm_hdl_get_vlog_partsel(s, p, w)
    BY <1>0, <1>1 DEF Questa!uvm_hdl_get_vlog
  <2> HIDE DEF w
  <2>2. /\ Reached(p) = Width(p)
        /\ \A k \in Bits : k < Width(p) =>
             Questa!uvm_hdl_get_vlog(s, p, v).v[k] = Content(s.d, p)[k]
    BY <1>0, <2>1, QuestaDesign, PathWidth
       DEF Questa!uvm_hdl_get_vlog_partsel, Questa!Done, Questa!Refused, Questa!Outcome
  <2> QED
    BY <1>1, <2>2, PathWidth, DesignAssumption DEF Shows, Bits
<1>2. CASE p.sel # "slice"
  <2>1. /\ Width(p) <= MaxWidth
        /\ Questa!uvm_hdl_get_vlog(s, p, v).v = Copied(w, Width(p), Content(s.d, p))
    BY <1>0, <1>2, QuestaDesign, PathWidth, DesignAssumption
       DEF Questa!uvm_hdl_get_vlog, Questa!Done, Questa!Refused, Questa!Outcome
  <2> QED
    BY <2>1, CopiedShows
<1> QED
  BY <1>1, <1>2

(* What Xcelium returns of one read.                                       *)
LEMMA XceliumShows ==
  ASSUME NEW s, NEW p \in Path, IsA(p, "vhdl") => Width(p) <= Word, NEW v,
         NEW l, NEW x \in Xcelium!Read(s, p, v, l), x.ret = 1
  PROVE  Shows(x.v, s.d, p)
<1>1. CASE l = "verilog"
  <2>1. Width(p) <= MaxWidth /\ x.v = Copied(v, Width(p), Content(s.d, p))
    BY <1>1, XceliumDesign, PathWidth, DesignAssumption
       DEF Xcelium!Read, Xcelium!uvm_hdl_get_vlog, Xcelium!Done, Xcelium!Refused,
           Xcelium!Outcome
  <2> QED
    BY <2>1, CopiedShows
<1>2. CASE l = "vhdl"
  <2> DEFINE n == Width(p)
             of(b) == LET j == b \div Word
                          len == IF n - j * Word < Word THEN n - j * Word ELSE Word
                          k == b % Word IN
                      IF k < len
                      THEN Xcelium!Vhpi(Content(s.d, p)[n - 1 - (j * Word + len - 1 - k)])
                      ELSE "0"
             first == [b \in Bits |-> IF b < Chunks(n) * Word THEN of(b) ELSE "0"]
             scalar == [b \in 0 .. n - 1 |-> Xcelium!Vhpi(Content(s.d, p)[b])]
  <2>1. x \in Xcelium!uvm_hdl_get_vhdl(s, p, v)
    BY <1>2 DEF Xcelium!Read
  <2>2. IsA(p, "vhdl")
    BY <2>1, XceliumDesign DEF Xcelium!uvm_hdl_get_vhdl, Xcelium!Finish, Xcelium!Outcome
  <2>3. n \in Nat \ {0} /\ n <= Word
    BY <2>2, PathWidth
  <2>4. /\ Word \in Nat \ {0} /\ Word <= MaxWidth /\ MaxWidth \in Nat /\ Chunks(n) = 1
        /\ \A b \in 0 .. n - 1 : b \in Bits /\ b \div Word = 0 /\ b % Word = b
    BY <2>3, FirstWord
  <2>5. Xcelium!Bits = Bits
    BY DEF Xcelium!Bits, Bits
  <2>6. x.v = first \/ x.v = Copied(v, n, scalar)
    <3>1. x \in IF KindOf(p) # "vector" THEN {Xcelium!Done(s, Copied(v, n, scalar))}
                ELSE {Xcelium!Done(s, first)}
      BY <2>1, <2>2, <2>3, <2>5, XceliumDesign DEF Xcelium!uvm_hdl_get_vhdl
    <3> HIDE DEF first, scalar
    <3> QED
      BY <3>1 DEF Xcelium!Done, Xcelium!Outcome
  <2>7. \A b \in Logic : Xcelium!Vhpi(b) = b
    BY DEF Xcelium!Vhpi, Logic
  <2>8. ASSUME NEW k \in 0 .. n - 1
        PROVE  x.v[k] = Xcelium!Vhpi(Content(s.d, p)[k])
    <3>1. CASE x.v = Copied(v, n, scalar)
      <4>1. Copied(v, n, scalar)[k] = scalar[k]
        BY <2>3, <2>4 DEF Copied
      <4> QED
        BY <3>1, <4>1
    <3>2. CASE x.v = first
      <4> DEFINE len == IF n - 0 * Word < Word THEN n - 0 * Word ELSE Word
      <4>1. first[k] = IF k < Chunks(n) * Word
                       THEN IF k < len
                            THEN Xcelium!Vhpi(Content(s.d, p)[n - 1 - (0 * Word + len - 1 - k)])
                            ELSE "0"
                       ELSE "0"
        BY <2>4
      <4> HIDE DEF first
      <4>2. k < Chunks(n) * Word
        BY <2>3, <2>4
      <4>3. len = n /\ k < n /\ n - 1 - (0 * Word + n - 1 - k) = k
        BY <2>3, <2>4
      <4> QED
        BY <3>2, <4>1, <4>2, <4>3
    <3> QED
      BY <2>6, <3>1, <3>2
  <2> QED
    BY <2>7, <2>8 DEF Shows
<1>3. CASE l \notin {"verilog", "vhdl"}
  BY <1>3 DEF Xcelium!Read, Xcelium!Refused, Xcelium!Outcome
<1> QED
  BY <1>1, <1>2, <1>3

(* What VCSMX returns of a VHDL signal.                                    *)
LEMMA VcsShowsMhdl ==
  ASSUME NEW s, NEW p \in Path, NEW v, VcsMX!uvm_hdl_get_mhdl(s, p, v).ret = 1
  PROVE  Shows(VcsMX!uvm_hdl_get_mhdl(s, p, v).v, s.d, p)
<1> DEFINE n == Width(p)
           last1 == Chunks(n) - 1
           len(j) == IF j = last1 THEN n - last1 * Word ELSE Word
           w == [b \in Bits |->
                   LET j == b \div Word IN
                   IF j >= Chunks(n) THEN v[b]
                   ELSE IF b % Word < len(j) THEN VcsMX!Mhdl(Content(s.d, p)[b])
                   ELSE v[b - len(j)]]
<1>0. VcsMX!Bits = Bits
  BY DEF VcsMX!Bits, Bits
<1>1. n <= MaxWidth /\ VcsMX!uvm_hdl_get_mhdl(s, p, v).v = w
  BY <1>0, VcsDesign, PathWidth, DesignAssumption
     DEF VcsMX!uvm_hdl_get_mhdl, VcsMX!Done, VcsMX!Refused, VcsMX!Outcome
<1>2. n \in Nat \ {0} /\ Word \in Nat \ {0} /\ MaxWidth \in Nat
  BY PathWidth, DesignAssumption
<1>3. last1 = (n - 1) \div Word /\ Chunks(n) = last1 + 1 /\ last1 \in Nat
  BY <1>2 DEF Chunks
<1>4. \A b \in Logic : VcsMX!Mhdl(b) = b
  BY DEF VcsMX!Mhdl, Logic
<1>5. ASSUME NEW k \in 0 .. n - 1
      PROVE  k \in Bits /\ ~ (k \div Word >= Chunks(n)) /\ k % Word < len(k \div Word)
  <2> HIDE DEF n, last1
  <2>0. ASSUME NEW a \in Nat
        PROVE  a \div Word \in Nat /\ a % Word \in 0 .. Word - 1
               /\ a = Word * (a \div Word) + (a % Word)
    BY <1>2
  <2> DEFINE j == k \div Word  r == k % Word
  <2>1. j \in Nat /\ r \in 0 .. Word - 1 /\ k = Word * j + r
    BY <2>0
  <2>2. n - 1 < Word * last1 + Word
    <3>1. n - 1 \in Nat
      BY <1>2
    <3> QED
      BY <1>2, <1>3, <2>0, <3>1
  <2> HIDE DEF j, r
  <2>3. j <= last1
    <3>1. SUFFICES ASSUME j > last1 PROVE FALSE
      BY <1>3, <2>1
    <3>2. PICK e \in Nat : j = last1 + 1 + e
      <4>1. j - last1 - 1 \in Nat /\ j = last1 + 1 + (j - last1 - 1)
        BY <1>3, <2>1, <3>1
      <4> QED
        BY <4>1
    <3>3. Word * j = Word * last1 + Word + Word * e /\ Word * e >= 0
      BY <1>2, <1>3, <3>2
    <3> QED
      BY <1>2, <1>3, <2>1, <2>2, <3>3
  <2>4. r < len(j)
    <3>1. CASE j = last1
      <4>1. last1 * Word = Word * j
        BY <1>2, <1>3, <3>1
      <4> QED
        BY <1>2, <1>3, <2>1, <3>1, <4>1
    <3>2. CASE j # last1
      BY <1>2, <2>1, <3>2
    <3> QED
      BY <3>1, <3>2
  <2>5. ~ (j >= Chunks(n)) /\ k \in Bits
    BY <1>1, <1>2, <1>3, <2>1, <2>3 DEF Bits
  <2> QED
    BY <2>4, <2>5 DEF j, r
<1>6. ASSUME NEW k \in 0 .. n - 1
      PROVE  w[k] = VcsMX!Mhdl(Content(s.d, p)[k])
  <2> HIDE DEF len
  <2> QED
    BY <1>5
<1> HIDE DEF w
<1> QED
  BY <1>1, <1>4, <1>6 DEF Shows

(* What the two return of a read that succeeds.                            *)
LEMMA VcsShows ==
  ASSUME NEW s, NEW p \in Path, NEW v,
         NEW x \in Vcs!uvm_hdl_read(s, p, v) \cup VcsMX!uvm_hdl_read(s, p, v), x.ret = 1
  PROVE  Shows(x.v, s.d, p)
<1>1. \/ x = VcsMX!uvm_hdl_get_vlog(s, p, v)
      \/ x = VcsMX!uvm_hdl_get_mhdl(s, p, v)
      \/ x.ret = 0
  BY VcsAlike DEF Vcs!uvm_hdl_read, VcsMX!uvm_hdl_read, Vcs!Unknown, VcsMX!Unknown,
     Vcs!Refused, VcsMX!Refused, Vcs!Outcome, VcsMX!Outcome
<1>2. CASE x = VcsMX!uvm_hdl_get_vlog(s, p, v)
  <2>1. Width(p) <= MaxWidth /\ x.v = Copied(v, Width(p), Content(s.d, p))
    BY <1>2, VcsDesign, PathWidth, DesignAssumption
       DEF VcsMX!uvm_hdl_get_vlog, VcsMX!Done, VcsMX!Refused, VcsMX!Outcome
  <2> QED
    BY <2>1, CopiedShows
<1>3. CASE x = VcsMX!uvm_hdl_get_mhdl(s, p, v)
  BY <1>3, VcsShowsMhdl
<1> QED
  BY <1>1, <1>2, <1>3

-----------------------------------------------------------------------------
(* The functions of whichever simulator it is                              *)

Excused(p) == tool \in {"QUESTA", "XCELIUM"} /\ p.sel = "slice"

(* uvm_hdl_check_path and uvm_hdl_read change nothing in the design.       *)
LEMMA Reads ==
  ASSUME tool \in Tool, NEW s, LibOK(s), NEW p \in Path, NEW v,
         NEW x \in Check(s, p, v) \cup ReadOf(s, p, v)
  PROVE  LibOK(x.s) /\ x.s.d = s.d
<1>1. CASE tool = "QUESTA"
  BY <1>1, QuestaReads DEF Check, ReadOf
<1>2. CASE tool = "XCELIUM"
  BY <1>2, XceliumReads DEF Check, ReadOf
<1>3. CASE tool = "VCS" \/ tool = "VCSMX"
  BY <1>3, VcsReads DEF Check, ReadOf
<1> QED
  BY <1>1, <1>2, <1>3 DEF Tool

(* uvm_hdl_deposit changes what its path names, but not what is forced,   *)
(* and lays the value over the rest where it can.                          *)
LEMMA Deposits ==
  ASSUME tool \in Tool, NEW s, LibOK(s), NEW p \in Path, Writable(p), NEW v \in Data,
         NEW x \in DepositOf(s, p, v)
  PROVE  /\ Leaves(s, p, x) /\ (Excused(p) \/ Spared(s, x)) /\ ForcedKept(s.d, x.s.d)
         /\ x.ret = 1 /\ Exact(p, v) => p.obj \in Object /\ Laid(x.s.d, p, v)
<1>0. Takes(p, "deposit") <=> KindOf(p) # "constant"
  BY DEF Takes, Writable
<1>1. CASE tool = "QUESTA"
  BY <1>0, <1>1, QuestaSet
     DEF DepositOf, Questa!uvm_hdl_deposit, Writable, Defined, Excused, Exact, Works
<1>2. CASE tool = "XCELIUM"
  BY <1>0, <1>2, XceliumSet DEF DepositOf, Xcelium!uvm_hdl_deposit, Excused, Exact, Works
<1>3. CASE tool = "VCS" \/ tool = "VCSMX"
  <2>1. /\ x \in Vcs!uvm_hdl_deposit(s, p, v) \cup VcsMX!uvm_hdl_deposit(s, p, v)
        /\ tool = "VCSMX" \/ x \in Vcs!uvm_hdl_deposit(s, p, v)
    BY <1>3 DEF DepositOf
  <2>2. CASE x = VcsMX!uvm_hdl_set_vlog(s, p, v, "deposit")
    BY <1>0, <2>2, VcsVlog DEF Works
  <2>3. CASE x.s = s /\ x.ret = 0
    BY <2>3, SameLeaves
  <2>4. CASE /\ x \notin Vcs!uvm_hdl_deposit(s, p, v) /\ VcsMX!mhpiVhpiPli(p)
             /\ x = VcsMX!uvm_hdl_set_mhdl(s, p, v, "deposit")
    <3>1. IsA(p, "vhdl") /\ p.sel = "all" /\ Width(p) <= MaxWidth /\ tool = "VCSMX"
      BY <2>1, <2>4, VcsPaths DEF Writable
    <3>2. Exact(p, v) => \A b \in Bits : v[b] \in {"0", "1"} /\ (b >= Width(p) => v[b] = "0")
      BY <3>1 DEF Exact
    <3> QED
      BY <2>4, <3>1, <3>2, VcsMhdl DEF IsA, Works
  <2> QED
    BY <2>1, <2>2, <2>3, <2>4, VcsSteps
<1> QED
  BY <1>1, <1>2, <1>3 DEF Tool

(* uvm_hdl_force changes what its path names, and lands where it can.      *)
LEMMA Forces ==
  ASSUME tool \in Tool, NEW s, LibOK(s), NEW p \in Path, Writable(p), NEW v \in Data,
         NEW x \in ForceOf(s, p, v)
  PROVE  /\ Leaves(s, p, x) /\ (Excused(p) \/ Spared(s, x))
         /\ x.ret = 1 /\ Exact(p, v) => p.obj \in Object /\ Lands(x.s.d, p, v)
<1>0. Takes(p, "force") <=> KindOf(p) # "constant"
  BY DEF Takes, Writable
<1>1. CASE tool = "QUESTA"
  BY <1>0, <1>1, QuestaSet
     DEF ForceOf, Questa!uvm_hdl_force, Writable, Defined, Excused, Exact, Works
<1>2. CASE tool = "XCELIUM"
  BY <1>0, <1>2, XceliumSet DEF ForceOf, Xcelium!uvm_hdl_force, Excused, Exact, Works
<1>3. CASE tool = "VCS" \/ tool = "VCSMX"
  <2>1. /\ x \in Vcs!uvm_hdl_force(s, p, v) \cup VcsMX!uvm_hdl_force(s, p, v)
        /\ tool = "VCSMX" \/ x \in Vcs!uvm_hdl_force(s, p, v)
    BY <1>3 DEF ForceOf
  <2>2. CASE x = VcsMX!uvm_hdl_set_vlog(s, p, v, "force")
    BY <1>0, <2>2, VcsVlog DEF Works
  <2>3. CASE x.s = s /\ x.ret = 0
    BY <2>3, SameLeaves
  <2>4. CASE /\ x \notin Vcs!uvm_hdl_force(s, p, v) /\ VcsMX!mhpiVhpiPli(p)
             /\ x = VcsMX!uvm_hdl_set_mhdl(s, p, v, "force")
    <3>1. IsA(p, "vhdl") /\ p.sel = "all" /\ Width(p) <= MaxWidth /\ tool = "VCSMX"
      BY <2>1, <2>4, VcsPaths DEF Writable
    <3>2. Exact(p, v) => \A b \in Bits : v[b] \in {"0", "1"} /\ (b >= Width(p) => v[b] = "0")
      BY <3>1 DEF Exact
    <3> QED
      BY <2>4, <3>1, <3>2, VcsMhdl DEF IsA, Works
  <2> QED
    BY <2>1, <2>2, <2>3, <2>4, VcsSteps
<1> QED
  BY <1>1, <1>2, <1>3 DEF Tool

(* uvm_hdl_release changes what its path names, and frees it.              *)
LEMMA Releases ==
  ASSUME tool \in Tool, NEW s, LibOK(s), NEW p \in Path, Defined(p), NEW v \in Data,
         NEW x \in ReleaseOf(s, p, v)
  PROVE  /\ Leaves(s, p, x) /\ (Excused(p) \/ Spared(s, x))
         /\ x.ret = 1 /\ KindOf(p) # "constant" => Freed(x.s.d, p)
<1>0. /\ {"release", "releaseKV"} = Releasing
      /\ KindOf(p) # "constant" => \A h \in Releasing : Takes(p, h)
  BY DEF Takes, Releasing
<1>1. CASE tool = "QUESTA"
  BY <1>0, <1>1, QuestaSet DEF ReleaseOf, Questa!uvm_hdl_release, Defined, Excused, Works
<1>2. CASE tool = "XCELIUM"
  BY <1>0, <1>2, XceliumSet DEF ReleaseOf, Xcelium!uvm_hdl_release, Excused, Works
<1>3. CASE tool = "VCS" \/ tool = "VCSMX"
  <2>1. CASE x = VcsMX!uvm_hdl_set_vlog(s, p, v, "release")
    BY <1>0, <2>1, VcsVlog DEF Works
  <2>2. CASE p.obj \in Object /\ x \in {Vcs!Released(s, p, v), VcsMX!Released(s, p, v)}
    BY <1>0, <2>2, VcsReleased DEF Works
  <2>3. CASE x.s = s /\ x.ret = 0
    BY <2>3, SameLeaves
  <2> QED
    BY <1>3, <2>1, <2>2, <2>3, VcsSteps DEF ReleaseOf
<1> QED
  BY <1>1, <1>2, <1>3 DEF Tool

(* uvm_hdl_release_and_read changes what its path names.                   *)
LEMMA ReleasesAndReads ==
  ASSUME tool \in Tool, NEW s, LibOK(s), NEW p \in Path, Defined(p), NEW v \in Data,
         NEW x \in ReleaseAndReadOf(s, p, v)
  PROVE  Leaves(s, p, x) /\ (Excused(p) \/ Width(p) > MaxWidth \/ Spared(s, x))
<1>1. CASE tool = "QUESTA"
  BY <1>1, QuestaReleaseAndRead DEF ReleaseAndReadOf, Defined, Excused
<1>2. CASE tool = "XCELIUM"
  BY <1>2, XceliumReleaseAndRead DEF ReleaseAndReadOf, Excused
<1>3. CASE tool = "VCS" \/ tool = "VCSMX"
  <2>1. CASE x = VcsMX!uvm_hdl_set_vlog(s, p, v, "release")
    BY <2>1, VcsVlog
  <2>2. CASE p.obj \in Object /\ x \in {Vcs!Released(s, p, v), VcsMX!Released(s, p, v)}
    BY <2>2, VcsReleased
  <2>3. CASE x.s = s /\ x.ret = 0
    BY <2>3, SameLeaves
  <2> QED
    BY <1>3, <2>1, <2>2, <2>3, VcsSteps DEF ReleaseAndReadOf
<1> QED
  BY <1>1, <1>2, <1>3 DEF Tool

(* A read that succeeds returns what the path names.                       *)
LEMMA ReadsShow ==
  ASSUME tool \in Tool, NEW s, LibOK(s), NEW p \in Path, Defined(p), NEW v,
         NEW x \in ReadOf(s, p, v), x.ret = 1,
         ~ (tool \in {"QUESTA", "XCELIUM"} /\ IsA(p, "vhdl") /\ Width(p) > Word)
  PROVE  Shows(x.v, s.d, p)
<1>0. tool \in {"QUESTA", "XCELIUM"} /\ IsA(p, "vhdl") => Width(p) <= Word
  BY PathWidth, DesignAssumption
<1>1. CASE tool = "QUESTA"
  <2>1. x = IF IsA(p, "vhdl") THEN Questa!uvm_register_get_vhdl(s, p, v)
            ELSE Questa!uvm_hdl_get_vlog(s, p, v)
    BY <1>1, QuestaDesign DEF ReadOf, Questa!uvm_hdl_read, Questa!uvm_is_vhdl_path
  <2>2. p.sel = "slice" => Width(p) <= MaxWidth
    BY DEF Defined
  <2> QED
    BY <1>0, <1>1, <2>1, <2>2, QuestaShowsVhdl, QuestaShowsVlog
<1>2. CASE tool = "XCELIUM" /\ p.sel = "slice"
  <2> DEFINE w == Xcelium!clear_value(v)
  <2>1. x = Xcelium!uvm_hdl_get_vlog_partsel(s, p, w)
    BY <1>2 DEF ReadOf, Xcelium!uvm_hdl_read, Xcelium!is_valid_path_slice
  <2>2. Xcelium!Bits = Bits
    BY DEF Xcelium!Bits, Bits
  <2> HIDE DEF w
  <2>3. \A k \in Bits : k < Width(p) => x.v[k] = Content(s.d, p)[k]
    BY <2>1, <2>2, XceliumDesign, PathWidth
       DEF Xcelium!uvm_hdl_get_vlog_partsel, Xcelium!Done, Xcelium!Refused, Xcelium!Outcome
  <2> QED
    BY <1>2, <2>3, PathWidth, DesignAssumption DEF Shows, Bits, Defined
<1>3. CASE tool = "XCELIUM" /\ p.sel # "slice"
  <2>1. PICK l \in Xcelium!m_uvm_get_object_handle(p) : x \in Xcelium!Read(s, p, v, l)
    BY <1>3 DEF ReadOf, Xcelium!uvm_hdl_read, Xcelium!is_valid_path_slice
  <2> QED
    BY <1>0, <1>3, <2>1, XceliumShows
<1>4. CASE tool = "VCS" \/ tool = "VCSMX"
  BY <1>4, VcsShows DEF ReadOf
<1> QED
  BY <1>1, <1>2, <1>3, <1>4 DEF Tool

(* A VHDL integer is only there for Xcelium, and nothing writes to it.     *)
LEMMA IntegerSpared ==
  ASSUME tool \in Tool, NEW s, NEW p \in Path, Defined(p), NEW v,
         IsA(p, "vhdl"), KindOf(p) = "integer",
         NEW x \in DepositOf(s, p, v) \cup ForceOf(s, p, v) \cup ReleaseOf(s, p, v)
                  \cup ReleaseAndReadOf(s, p, v)
  PROVE  x.s = s
<1>1. tool = "XCELIUM"
  BY DEF Defined
<1>2. Reached(p) = 0 /\ ~ Handle(p)
  <2>1. ~ IsA(p, "verilog")
    BY DEF IsA
  <2> QED
    BY <2>1 DEF Reached, Handle
<1>3. ASSUME NEW f
      PROVE  /\ Xcelium!uvm_hdl_set_vlog_partsel(s, p, v, f).s = s
             /\ Xcelium!uvm_hdl_set_vlog(s, p, v, f).s = s
             /\ Xcelium!uvm_hdl_set_vhdl(s, p, v, f).s = s
  BY <1>2, XceliumDesign DEF Xcelium!uvm_hdl_set_vlog_partsel, Xcelium!uvm_hdl_set_vlog,
     Xcelium!uvm_hdl_set_vhdl, Xcelium!Done, Xcelium!Refused, Xcelium!Finish, Xcelium!Outcome
<1>4. ASSUME NEW f, NEW g, NEW y \in Xcelium!Set(s, p, v, f, g)
      PROVE  y.s = s
  BY <1>3 DEF Xcelium!Set, Xcelium!Refused, Xcelium!Outcome
<1>5. CASE x \in DepositOf(s, p, v) \cup ForceOf(s, p, v) \cup ReleaseOf(s, p, v)
  BY <1>1, <1>4, <1>5 DEF DepositOf, ForceOf, ReleaseOf, Xcelium!uvm_hdl_deposit,
     Xcelium!uvm_hdl_force, Xcelium!uvm_hdl_release
<1>6. CASE x \in ReleaseAndReadOf(s, p, v) /\ p.sel = "slice"
  <2>1. PICK r \in Xcelium!Set(s, p, v, "release", "releaseKV") :
          x = [r EXCEPT !.v = Xcelium!clear_value(@), !.ret = 0]
    BY <1>1, <1>6 DEF ReleaseAndReadOf, Xcelium!uvm_hdl_release_and_read,
       Xcelium!uvm_hdl_release, Xcelium!is_valid_path_slice
  <2>2. r = Xcelium!uvm_hdl_set_vlog_partsel(s, p, v, "release")
    BY <1>6, <2>1 DEF Xcelium!Set, Xcelium!is_valid_path_slice
  <2>3. x.s = r.s
    BY <2>1, <2>2 DEF Xcelium!uvm_hdl_set_vlog_partsel, Xcelium!Done, Xcelium!Refused,
       Xcelium!Outcome
  <2> QED
    BY <1>4, <2>1, <2>3
<1>7. CASE x \in ReleaseAndReadOf(s, p, v) /\ p.sel # "slice"
  <2> DEFINE W(l) == IF l = "vhdl" THEN Xcelium!uvm_hdl_set_vhdl(s, p, v, "releaseKV")
                     ELSE Xcelium!uvm_hdl_set_vlog(s, p, v, "release")
  <2>1. PICK l \in Xcelium!m_uvm_get_object_handle(p) :
          \E y \in Xcelium!Read(W(l).s, p, v, l) :
            x = Xcelium!Outcome(y.s, y.v, y.ret, y.err \/ W(l).err, y.finish \/ W(l).finish)
    BY <1>1, <1>7 DEF ReleaseAndReadOf, Xcelium!uvm_hdl_release_and_read,
       Xcelium!is_valid_path_slice
  <2>2. W(l).s = s
    BY <1>3
  <2> HIDE DEF W
  <2>3. PICK y \in Xcelium!Read(s, p, v, l) : x.s = y.s
    BY <2>1, <2>2 DEF Xcelium!Outcome
  <2> QED
    BY <2>3, XceliumReadLeaves
<1> QED
  BY <1>5, <1>6, <1>7

(* uvm_hdl_release_and_read of Questa frees, then reads what is there.     *)
LEMMA QuestaFreesAndShows ==
  ASSUME tool = "QUESTA", NEW s, LibOK(s), NEW p \in Path, Defined(p), NEW v \in Data,
         NEW x \in ReleaseAndReadOf(s, p, v), x.ret = 1
  PROVE  /\ KindOf(p) # "constant" => Freed(x.s.d, p)
         /\ ~ (p.sel = "slice" /\ ~ IsA(p, "vhdl")) /\ ~ (IsA(p, "vhdl") /\ Width(p) > Word)
              => Shows(x.v, x.s.d, p)
<1> DEFINE r == Questa!Set(s, p, v, "release")
           q == IF p.sel = "slice" THEN [p EXCEPT !.sel = "bit", !.rhs = p.lhs] ELSE p
<1>1. x = IF IsA(p, "vhdl") THEN Questa!uvm_register_get_vhdl(r.s, p, v)
          ELSE IF r.ret = 1 THEN Questa!uvm_hdl_get_vlog(r.s, q, v) ELSE r
  BY QuestaDesign DEF ReleaseAndReadOf, Questa!uvm_hdl_release_and_read, Questa!uvm_is_vhdl_path
<1>2. IsA(p, "vhdl") => Width(p) <= MaxWidth
  BY DEF Defined
<1>3. IsA(p, "vhdl") => r.ret = 1
  BY <1>2, QuestaSet
<1>4. r.ret = 1 /\ KindOf(p) # "constant" => Freed(r.s.d, p)
  <2>1. r.ret = 1 /\ Takes(p, "release") => Works("release", r.s.d, p, v)
    BY <1>2, QuestaSet
  <2> QED
    BY <2>1 DEF Takes, Works, Releasing
<1>5. LibOK(r.s)
  BY <1>2, QuestaSet DEF Leaves
<1> HIDE DEF r
<1>6. r.ret = 1
  BY <1>1, <1>3
<1>7. q \in Path /\ (p.sel # "slice" => q = p)
  BY DEF Path
<1> HIDE DEF q
<1>8. x.s.d = r.s.d
  <2>1. CASE IsA(p, "vhdl")
    BY <1>1, <1>5, <2>1, QuestaGet
  <2>2. CASE ~ IsA(p, "vhdl")
    BY <1>1, <1>5, <1>6, <1>7, <2>2, QuestaGet
  <2> QED
    BY <2>1, <2>2
<1>9. CASE IsA(p, "vhdl")
  <2>1. ~ Width(p) > Word => Width(p) <= Word
    BY PathWidth, DesignAssumption
  <2> QED
    BY <1>1, <1>4, <1>6, <1>8, <1>9, <2>1, QuestaShowsVhdl
<1>10. CASE ~ IsA(p, "vhdl")
  <2>1. p.sel # "slice" => Shows(x.v, r.s.d, p)
    BY <1>1, <1>5, <1>6, <1>7, <1>10, QuestaShowsVlog
  <2> QED
    BY <1>4, <1>6, <1>8, <1>10, <2>1
<1> QED
  BY <1>9, <1>10

(* So does Xcelium's, if it returns 1; a VHDL integer was never forced.    *)
LEMMA XceliumFreesAndShows ==
  ASSUME tool = "XCELIUM", NEW s, LibOK(s), NEW p \in Path, Defined(p), NEW v \in Data,
         IsA(p, "vhdl") /\ KindOf(p) = "integer" => Freed(s.d, p),
         NEW x \in ReleaseAndReadOf(s, p, v), x.ret = 1
  PROVE  /\ KindOf(p) # "constant" => Freed(x.s.d, p)
         /\ ~ (IsA(p, "vhdl") /\ Width(p) > Word) => Shows(x.v, x.s.d, p)
<1>1. p.sel # "slice"
  <2> SUFFICES ASSUME p.sel = "slice" PROVE FALSE
    OBVIOUS
  <2>1. PICK r \in Xcelium!Set(s, p, v, "release", "releaseKV") :
          x = [r EXCEPT !.v = Xcelium!clear_value(@), !.ret = 0]
    BY DEF ReleaseAndReadOf, Xcelium!uvm_hdl_release_and_read, Xcelium!uvm_hdl_release,
       Xcelium!is_valid_path_slice
  <2>2. r = Xcelium!uvm_hdl_set_vlog_partsel(s, p, v, "release")
    BY <2>1 DEF Xcelium!Set, Xcelium!is_valid_path_slice
  <2>3. x.ret = 0
    BY <2>1, <2>2 DEF Xcelium!uvm_hdl_set_vlog_partsel, Xcelium!Done, Xcelium!Refused,
       Xcelium!Outcome
  <2> QED
    BY <2>3
<1> DEFINE W(l) == IF l = "vhdl" THEN Xcelium!uvm_hdl_set_vhdl(s, p, v, "releaseKV")
                   ELSE Xcelium!uvm_hdl_set_vlog(s, p, v, "release")
<1>2. PICK l \in Xcelium!m_uvm_get_object_handle(p) :
        \E y \in Xcelium!Read(W(l).s, p, v, l) :
          x = Xcelium!Outcome(y.s, y.v, y.ret, y.err \/ W(l).err, y.finish \/ W(l).finish)
  BY <1>1 DEF ReleaseAndReadOf, Xcelium!uvm_hdl_release_and_read, Xcelium!is_valid_path_slice
<1> HIDE DEF W
<1> PICK t : t = W(l).s
  OBVIOUS
<1>3. PICK y \in Xcelium!Read(t, p, v, l) : x.s = y.s /\ x.v = y.v /\ y.ret = 1
  BY <1>2 DEF Xcelium!Outcome
<1>4. y.s = t
  BY XceliumReadLeaves
<1>5. l \in {"verilog", "vhdl"} /\ (l = "verilog" => Handle(p)) /\ (l = "vhdl" => IsA(p, "vhdl"))
  BY <1>3, XceliumDesign DEF Xcelium!Read, Xcelium!uvm_hdl_get_vlog, Xcelium!uvm_hdl_get_vhdl,
     Xcelium!Refused, Xcelium!Finish, Xcelium!Outcome
<1>6. CASE IsA(p, "vhdl") /\ KindOf(p) = "integer"
  <2>1. x.s = s
    BY <1>6, IntegerSpared DEF Tool
  <2> QED
    BY <1>3, <1>4, <1>6, <2>1, XceliumShows, PathWidth, DesignAssumption
<1>7. CASE ~ (IsA(p, "vhdl") /\ KindOf(p) = "integer")
  <2>1. W(l) \in Xcelium!Set(s, p, v, "release", "releaseKV")
    <3> DEFINE T(k) == CASE k = "verilog" -> Xcelium!uvm_hdl_set_vlog(s, p, v, "release")
                         [] k = "vhdl" -> Xcelium!uvm_hdl_set_vhdl(s, p, v, "releaseKV")
                         [] OTHER -> Xcelium!Refused(s, v)
    <3>1. T(l) \in Xcelium!Set(s, p, v, "release", "releaseKV")
      BY <1>1, <1>2 DEF Xcelium!Set, Xcelium!is_valid_path_slice
    <3>2. T(l) = W(l)
      BY <1>5 DEF W
    <3> HIDE DEF T
    <3> QED
      BY <3>1, <3>2
  <2>2. W(l).ret = 1
    BY <1>5, <1>7, XceliumDesign DEF W, Xcelium!uvm_hdl_set_vlog, Xcelium!uvm_hdl_set_vhdl,
       Xcelium!Done, Xcelium!Outcome
  <2>3. KindOf(p) # "constant" => Freed(W(l).s.d, p)
    <3>1. PICK h \in {"release", "releaseKV"} : Takes(p, h) => Works(h, W(l).s.d, p, v)
      BY <2>1, <2>2, XceliumSet
    <3> QED
      BY <3>1 DEF Takes, Works, Releasing
  <2> QED
    BY <1>3, <1>4, <2>3, XceliumShows, PathWidth, DesignAssumption
<1> QED
  BY <1>6, <1>7

(* uvm_hdl_release_and_read frees what its path names and reads the value  *)
(* from then, in so far as ReleaseFrees promises it.                       *)
LEMMA FreesAndShows ==
  ASSUME tool \in Tool, NEW s, LibOK(s), NEW p \in Path, Defined(p), NEW v \in Data,
         IsA(p, "vhdl") /\ KindOf(p) = "integer" => Freed(s.d, p),
         NEW x \in ReleaseAndReadOf(s, p, v), x.ret = 1
  PROVE  /\ KindOf(p) # "constant" => Freed(x.s.d, p)
         /\ \/ tool \in {"VCS", "VCSMX"}
            \/ tool = "QUESTA" /\ p.sel = "slice" /\ ~ IsA(p, "vhdl")
            \/ IsA(p, "vhdl") /\ Width(p) > Word
            \/ Shows(x.v, x.s.d, p)
<1>1. CASE tool = "QUESTA"
  BY <1>1, QuestaFreesAndShows
<1>2. CASE tool = "XCELIUM"
  BY <1>2, XceliumFreesAndShows
<1>3. CASE tool = "VCS" \/ tool = "VCSMX"
  <2>0. KindOf(p) # "constant" => Takes(p, "release")
    BY DEF Takes, Releasing
  <2>1. CASE x = VcsMX!uvm_hdl_set_vlog(s, p, v, "release")
    BY <1>3, <2>0, <2>1, VcsVlog DEF Works, Releasing
  <2>2. CASE p.obj \in Object /\ x \in {Vcs!Released(s, p, v), VcsMX!Released(s, p, v)}
    BY <1>3, <2>2, VcsReleased DEF Works, Releasing
  <2>3. CASE x.s = s /\ x.ret = 0
    BY <2>3
  <2> QED
    BY <1>3, <2>1, <2>2, <2>3, VcsSteps DEF ReleaseAndReadOf
<1> QED
  BY <1>1, <1>2, <1>3 DEF Tool

(* A write does not change the caller's value.                             *)
LEMMA WritesReturn ==
  ASSUME tool \in Tool, NEW s, NEW p \in Path, NEW v,
         NEW x \in DepositOf(s, p, v) \cup ForceOf(s, p, v)
  PROVE  x.v = v
<1>1. CASE tool = "QUESTA"
  <2>1. PICK flag \in {"deposit", "force"} : x = Questa!Set(s, p, v, flag)
    BY <1>1 DEF DepositOf, ForceOf, Questa!uvm_hdl_deposit, Questa!uvm_hdl_force
  <2>2. Questa!uvm_register_set_vhdl(s, p, v, flag).v = v
    BY DEF Questa!uvm_register_set_vhdl, Questa!Done, Questa!Outcome
  <2>3. Questa!uvm_hdl_set_vlog(s, p, v, flag).v = v
    BY DEF Questa!uvm_hdl_set_vlog, Questa!uvm_hdl_set_vlog_partsel, Questa!Done,
       Questa!Refused, Questa!Outcome
  <2> QED
    BY <2>1, <2>2, <2>3 DEF Questa!Set
<1>2. CASE tool = "XCELIUM"
  <2>1. PICK flag \in {"deposit", "force"} : x \in Xcelium!Set(s, p, v, flag, flag)
    BY <1>2 DEF DepositOf, ForceOf, Xcelium!uvm_hdl_deposit, Xcelium!uvm_hdl_force
  <2>2. Xcelium!uvm_hdl_set_vlog(s, p, v, flag).v = v
        /\ Xcelium!uvm_hdl_set_vlog_partsel(s, p, v, flag).v = v
    BY DEF Xcelium!uvm_hdl_set_vlog, Xcelium!uvm_hdl_set_vlog_partsel, Xcelium!Done,
       Xcelium!Refused, Xcelium!Outcome
  <2>3. Xcelium!uvm_hdl_set_vhdl(s, p, v, flag).v = v /\ Xcelium!Refused(s, v).v = v
    BY DEF Xcelium!uvm_hdl_set_vhdl, Xcelium!Done, Xcelium!Refused, Xcelium!Finish,
       Xcelium!Outcome
  <2> QED
    BY <2>1, <2>2, <2>3 DEF Xcelium!Set
<1>3. CASE tool = "VCS" \/ tool = "VCSMX"
  <2>1. \E flag \in {"deposit", "force"} :
          \/ x = Vcs!uvm_hdl_set_vlog(s, p, v, flag)
          \/ x = VcsMX!uvm_hdl_set_vlog(s, p, v, flag)
          \/ x = VcsMX!uvm_hdl_set_mhdl(s, p, v, flag)
          \/ x = Vcs!Unknown(s, v) \/ x = VcsMX!Unknown(s, v)
    BY <1>3, VcsAlike DEF DepositOf, ForceOf, Vcs!uvm_hdl_deposit, Vcs!uvm_hdl_force,
       VcsMX!uvm_hdl_deposit, VcsMX!uvm_hdl_force
  <2>2. \A flag : /\ VcsMX!uvm_hdl_set_vlog(s, p, v, flag).v = v
                  /\ VcsMX!uvm_hdl_set_mhdl(s, p, v, flag).v = v
    BY DEF VcsMX!uvm_hdl_set_vlog, VcsMX!uvm_hdl_set_mhdl, VcsMX!Done, VcsMX!Refused,
       VcsMX!Silent, VcsMX!Outcome
  <2>3. Vcs!Unknown(s, v).v = v /\ VcsMX!Unknown(s, v).v = v
    BY DEF Vcs!Unknown, Vcs!Refused, Vcs!Outcome, VcsMX!Unknown, VcsMX!Refused, VcsMX!Outcome
  <2> QED
    BY <2>1, <2>2, <2>3, VcsAlike
<1> QED
  BY <1>1, <1>2, <1>3 DEF Tool

(* What uvm_hdl_check_path finds, uvm_hdl_read finds too.                  *)
LEMMA CheckedReads ==
  ASSUME tool \in Tool, NEW s, NEW t, NEW p \in Path, NEW v, NEW w,
         NEW c \in Check(s, p, v), c.ret = 1, Width(p) <= MaxWidth, KindOf(p) # "array",
         ~ (tool = "XCELIUM" /\ IsA(p, "vhdl") /\ Width(p) > Word),
         NEW x \in ReadOf(t, p, w)
  PROVE  x.ret = 1
<1>0. ~ Width(p) > MaxWidth
  BY PathWidth, DesignAssumption
<1>1. CASE tool = "QUESTA"
  <2>1. IsA(p, "vhdl") \/ Handle(p)
    BY <1>1, QuestaDesign DEF Check, Questa!uvm_hdl_check_path, Questa!uvm_is_vhdl_path,
       Questa!Outcome
  <2>2. x = IF IsA(p, "vhdl") THEN Questa!uvm_register_get_vhdl(t, p, w)
            ELSE Questa!uvm_hdl_get_vlog(t, p, w)
    BY <1>1, QuestaDesign DEF ReadOf, Questa!uvm_hdl_read, Questa!uvm_is_vhdl_path
  <2>3. Questa!uvm_register_get_vhdl(t, p, w).ret = 1
    BY DEF Questa!uvm_register_get_vhdl, Questa!Done, Questa!Outcome
  <2>4. Handle(p) => Questa!uvm_hdl_get_vlog(t, p, w).ret = 1
    BY <1>0, QuestaDesign DEF Questa!uvm_hdl_get_vlog, Questa!Done, Questa!Outcome, Handle
  <2> QED
    BY <2>1, <2>2, <2>3, <2>4
<1>2. CASE tool = "XCELIUM"
  <2>1. Handle(p) \/ (IsA(p, "vhdl") /\ p.sel = "all")
    BY <1>2, XceliumDesign DEF Check, Xcelium!uvm_hdl_check_path, Xcelium!Outcome
  <2>2. p.sel # "slice"
    BY <2>1 DEF Handle
  <2>3. \E l \in {"verilog", "vhdl"} :
          /\ x \in Xcelium!Read(t, p, w, l)
          /\ l = "verilog" => Handle(p)
          /\ l = "vhdl" => IsA(p, "vhdl")
    BY <1>2, <2>1, <2>2, XceliumDesign DEF ReadOf, Xcelium!uvm_hdl_read,
       Xcelium!is_valid_path_slice, Xcelium!m_uvm_get_object_handle
  <2>4. CASE x \in Xcelium!Read(t, p, w, "verilog") /\ Handle(p)
    BY <1>0, <2>4, XceliumDesign DEF Xcelium!Read, Xcelium!uvm_hdl_get_vlog, Xcelium!Done,
       Xcelium!Outcome
  <2>5. CASE x \in Xcelium!Read(t, p, w, "vhdl") /\ IsA(p, "vhdl")
    <3>1. Width(p) <= Word
      BY <1>2, <2>5, PathWidth, DesignAssumption
    <3> QED
      BY <2>5, <3>1, XceliumDesign DEF Xcelium!Read, Xcelium!uvm_hdl_get_vhdl, Xcelium!Done,
         Xcelium!Outcome
  <2> QED
    BY <2>3, <2>4, <2>5
<1>3. CASE tool = "VCS" \/ tool = "VCSMX"
  <2>1. Vcs!ByName(p) = VcsMX!ByName(p)
    BY DEF Vcs!ByName, VcsMX!ByName, Vcs!IsA, VcsMX!IsA, Vcs!Exists, VcsMX!Exists, Vcs!Width,
       VcsMX!Width, Vcs!Position, VcsMX!Position, Vcs!Positions, VcsMX!Positions, Vcs!Size,
       VcsMX!Size
  <2>2. VcsMX!ByName(p) \/ (tool = "VCSMX" /\ VcsMX!mhpiVhpiPli(p))
    BY <1>3, <2>1, VcsAlike DEF Check, Vcs!uvm_hdl_check_path, VcsMX!uvm_hdl_check_path,
       Vcs!Known, VcsMX!Known, Vcs!Outcome, VcsMX!Outcome
  <2>3. VcsMX!ByName(p) => VcsMX!uvm_hdl_get_vlog(t, p, w).ret = 1
    BY <1>0, VcsDesign DEF VcsMX!uvm_hdl_get_vlog, VcsMX!vector_compat_type, VcsMX!Done,
       VcsMX!Outcome
  <2>4. VcsMX!uvm_hdl_get_mhdl(t, p, w).ret = 1
    BY <1>0, VcsDesign DEF VcsMX!uvm_hdl_get_mhdl, VcsMX!Done, VcsMX!Outcome
  <2> QED
    BY <1>3, <2>1, <2>2, <2>3, <2>4, VcsAlike DEF ReadOf, Vcs!uvm_hdl_read, VcsMX!uvm_hdl_read
<1> QED
  BY <1>1, <1>2, <1>3 DEF Tool

-----------------------------------------------------------------------------
(* The invariant                                                           *)

(* Nothing is forced in the beginning.                                     *)
LEMMA Begin == HdlInit => HInv
<1> SUFFICES ASSUME HdlInit PROVE HInv
  OBVIOUS
<1> DEFINE zeros == [o \in Object |-> [i \in Positions(o) |-> "0"]]
<1>1. /\ zeros \in [Object -> UNION {Values(o) : o \in Object}]
      /\ \A o \in Object : zeros[o] \in Values(o)
  <2>1. \A o \in Object : [i \in Positions(o) |-> "0"] \in Values(o)
    BY DEF Values, StdLogic, Logic
  <2> QED
    BY <2>1
<1>2. LibOK(lib)
  <2>1. lib = [d |-> [val |-> zeros, drv |-> zeros, forced |-> [o \in Object |-> {}]],
               partsel |-> FALSE]
    BY DEF HdlInit
  <2> HIDE DEF zeros
  <2> QED
    BY <1>1, <2>1 DEF LibOK, DesignOK, Design, Lib
<1>3. /\ hold \in [Object -> Holding]
      /\ \A o \in Object : hold[o] \in [Positions(o) -> Logic \cup {Unset}]
  BY DEF HdlInit, Holding
<1>4. ForceHolds
  BY DEF HdlInit, ForceHolds
<1> QED
  BY <1>2, <1>3, <1>4 DEF HdlInit, HInv, HdlTypeOK

(* A call that leaves what is forced as it is, or the design running.      *)
LEMMA StillHolds ==
  ASSUME HInv, LibOK(lib'), ForcedKept(lib.d, lib'.d), UNCHANGED <<tool, hold>>
  PROVE  HInv'
<1>1. HdlTypeOK'
  BY DEF HInv, HdlTypeOK, Holding, Positions, Size, LibOK, DesignOK, Values
<1>2. ForceHolds'
  BY DEF HInv, ForceHolds, ForcedKept, Positions, Size
<1> QED
  BY <1>1, <1>2 DEF HInv

(* A call after which what the path names is held at bits, or not held.    *)
LEMMA HoldsNow ==
  ASSUME HInv, NEW p \in Path, LibOK(lib'), Frame(lib.d, lib'.d, p),
         NEW bits \in [Named(p) -> Logic \cup {Unset}],
         p.obj \in Object => \A i \in Named(p) : bits[i] # Unset =>
             i \in lib'.d.forced[p.obj] /\ lib'.d.val[p.obj][i] = bits[i],
         hold' = IF p.obj \in Object THEN Expect(p, bits) ELSE hold,
         UNCHANGED tool
  PROVE  HInv'
<1>1. \A o \in Object : hold[o] \in [Positions(o) -> Logic \cup {Unset}]
  BY DEF HInv, HdlTypeOK
<1>2. hold \in [Object -> Holding]
  BY DEF HInv, HdlTypeOK
<1>3. ASSUME NEW o \in Object
      PROVE  /\ hold'[o] \in [Positions(o) -> Logic \cup {Unset}]
             /\ \A i \in Positions(o) :
                  hold'[o][i] = IF p.obj = o /\ i \in Named(p) THEN bits[i] ELSE hold[o][i]
  <2>1. CASE p.obj = o
    <3>1. hold'[o] = Over(hold[o], bits)
      BY <1>2, <2>1 DEF Expect
    <3>2. Over(hold[o], bits) \in [Positions(o) -> Logic \cup {Unset}]
          /\ \A i \in Positions(o) :
               Over(hold[o], bits)[i] = IF i \in Named(p) THEN bits[i] ELSE hold[o][i]
      BY <1>1 DEF Over
    <3> QED
      BY <2>1, <3>1, <3>2
  <2>2. CASE p.obj # o
    BY <1>1, <1>2, <2>2 DEF Expect
  <2> QED
    BY <2>1, <2>2
<1>4. hold' \in [Object -> Holding]
  <2>1. DOMAIN hold' = Object /\ hold' = [o \in Object |-> hold'[o]]
    BY <1>2 DEF Expect
  <2>2. \A o \in Object : hold'[o] \in Holding
    BY <1>3 DEF Holding
  <2> QED
    BY <2>1, <2>2
<1>5. HdlTypeOK'
  BY <1>3, <1>4 DEF HInv, HdlTypeOK, Holding, Positions, Size, LibOK, DesignOK, Values
<1>6. ASSUME NEW o \in Object, NEW i \in Positions(o), hold'[o][i] # Unset
      PROVE  i \in lib'.d.forced[o] /\ lib'.d.val[o][i] = hold'[o][i]
  <2>1. CASE p.obj = o /\ i \in Named(p)
    BY <1>3, <1>6, <2>1
  <2>2. CASE ~ (p.obj = o /\ i \in Named(p))
    <3>1. hold'[o][i] = hold[o][i]
      BY <1>3, <2>2
    <3>2. i \in lib.d.forced[o] /\ lib.d.val[o][i] = hold[o][i]
      BY <1>6, <3>1 DEF HInv, ForceHolds
    <3>3. Same(lib.d, lib'.d, o, i)
      BY <2>2 DEF Frame
    <3> QED
      BY <3>1, <3>2, <3>3 DEF Same
  <2> QED
    BY <2>1, <2>2
<1>7. ForceHolds'
  BY <1>6 DEF ForceHolds, Positions, Size
<1> QED
  BY <1>5, <1>7 DEF HInv

(* After a release nothing is held at what the path names.                 *)
LEMMA Released ==
  ASSUME HInv, NEW p \in Path, LibOK(lib'), Frame(lib.d, lib'.d, p),
         hold' = IF p.obj \in Object THEN Expect(p, Frees(p)) ELSE hold,
         UNCHANGED tool
  PROVE  HInv'
<1>1. Frees(p) \in [Named(p) -> Logic \cup {Unset}] /\ \A i \in Named(p) : Frees(p)[i] = Unset
  BY DEF Frees
<1> QED
  BY <1>1, HoldsNow

(* What may have changed when the last call has returned.                  *)
Changes ==
  last' # NoCall =>
    /\ \A o \in Object : \A i \in Positions(o) :
         (last'.path.obj = o /\ i \in Named(last'.path)) \/ Same(lib.d, lib'.d, o, i)
    /\ last'.ret = 0 =>
         \/ tool \in {"QUESTA", "XCELIUM"} /\ last'.path.sel = "slice"
         \/ last'.op = "release_and_read" /\ Width(last'.path) > MaxWidth
         \/ finished'
         \/ lib'.d = lib.d

(* What a call leaves is what OnlyNamedChange allows.                      *)
LEMMA Changed ==
  ASSUME NEW op, NEW p, NEW r, Returns(op, p, r), Leaves(lib, p, r),
         Excused(p) \/ (op = "release_and_read" /\ Width(p) > MaxWidth) \/ Spared(lib, r)
  PROVE  Changes
BY DEF Changes, Returns, Leaves, Frame, Excused, Spared

-----------------------------------------------------------------------------
(* Every step                                                              *)

(* The value that is passed where it does not matter.                      *)
LEMMA Zeros == NoCall.v \in Data
BY DEF NoCall, Data, Logic

(* One step for each of the six functions of uvm_hdl.svh.                  *)
LEMMA StepOfCall ==
  ASSUME HInv, NEW p \in Paths,
         \/ uvm_hdl_check_path(p)
         \/ \E v \in Garbage : uvm_hdl_read(p, v)
         \/ \E v \in Written : uvm_hdl_deposit(p, v)
         \/ \E v \in Written : uvm_hdl_force(p, v)
         \/ uvm_hdl_release(p)
         \/ \E v \in Garbage : uvm_hdl_release_and_read(p, v)
  PROVE  HInv' /\ Changes
<1>1. /\ p \in Path /\ tool \in Tool /\ LibOK(lib)
      /\ Garbage \subseteq Data /\ Written \subseteq Data
  BY BackdoorAssumption DEF HInv, HdlTypeOK
<1>2. ASSUME NEW op, NEW v, NEW r \in Check(lib, p, v) \cup ReadOf(lib, p, v),
             Returns(op, p, r), UNCHANGED hold
      PROVE  HInv' /\ Changes
  <2>1. LibOK(r.s) /\ r.s.d = lib.d
    BY <1>1, <1>2, Reads
  <2>2. Leaves(lib, p, r) /\ Spared(lib, r) /\ ForcedKept(lib.d, r.s.d)
    BY <1>1, <2>1, SameLeaves
  <2>3. Changes
    BY <1>2, <2>2, Changed
  <2>4. lib' = r.s /\ UNCHANGED tool
    BY <1>2 DEF Returns
  <2> QED
    BY <1>2, <2>1, <2>2, <2>3, <2>4, StillHolds
<1>3. CASE uvm_hdl_check_path(p)
  BY <1>2, <1>3 DEF uvm_hdl_check_path
<1>4. CASE \E v \in Garbage : uvm_hdl_read(p, v)
  BY <1>2, <1>4 DEF uvm_hdl_read
<1>5. CASE \E v \in Written : uvm_hdl_deposit(p, v)
  <2> PICK v \in Written : uvm_hdl_deposit(p, v)
    BY <1>5
  <2> PICK r \in DepositOf(lib, p, v) : Returns("deposit", p, r)
    BY DEF uvm_hdl_deposit
  <2>1. Leaves(lib, p, r) /\ (Excused(p) \/ Spared(lib, r)) /\ ForcedKept(lib.d, r.s.d)
    <3>1. Writable(p)
      BY DEF uvm_hdl_deposit
    <3> QED
      BY <1>1, <3>1, Deposits
  <2>2. Changes
    BY <2>1, Changed
  <2>3. lib' = r.s /\ UNCHANGED <<tool, hold>>
    BY DEF Returns, uvm_hdl_deposit
  <2> QED
    BY <2>1, <2>2, <2>3, StillHolds DEF Leaves
<1>6. CASE \E v \in Written : uvm_hdl_force(p, v)
  <2> PICK v \in Written : uvm_hdl_force(p, v)
    BY <1>6
  <2> PICK r \in ForceOf(lib, p, v) :
        /\ Returns("force", p, r)
        /\ hold' = IF p.obj \notin Object THEN hold
                   ELSE IF r.ret = 1 /\ Exact(p, v) THEN Expect(p, Asks(p, v))
                   ELSE Expect(p, Frees(p))
    BY DEF uvm_hdl_force
  <2>1. Writable(p)
    BY DEF uvm_hdl_force
  <2>2. /\ Leaves(lib, p, r) /\ (Excused(p) \/ Spared(lib, r))
        /\ r.ret = 1 /\ Exact(p, v) => p.obj \in Object /\ Lands(r.s.d, p, v)
    BY <1>1, <2>1, Forces
  <2>3. Changes
    BY <2>2, Changed
  <2>4. lib' = r.s /\ UNCHANGED tool
    BY DEF Returns
  <2>5. LibOK(lib') /\ Frame(lib.d, lib'.d, p)
    BY <2>2, <2>4 DEF Leaves
  <2>6. CASE p.obj \in Object /\ r.ret = 1 /\ Exact(p, v)
    <3>1. /\ Asks(p, v) \in [Named(p) -> Logic \cup {Unset}]
          /\ \A i \in Named(p) : Asks(p, v)[i] = v[Index(p, i)]
      <4>1. \A i \in Named(p) : Index(p, i) \in Bits
        BY <1>1, <2>1, PathWidth, DesignAssumption DEF Writable, Bits
      <4> QED
        BY <1>1, <4>1 DEF Asks, Data
    <3>2. hold' = IF p.obj \in Object THEN Expect(p, Asks(p, v)) ELSE hold
      BY <2>6
    <3>3. \A i \in Named(p) :
            i \in lib'.d.forced[p.obj] /\ lib'.d.val[p.obj][i] = Asks(p, v)[i]
      BY <2>2, <2>4, <2>6, <3>1 DEF Lands
    <3>4. HInv'
      BY <1>1, <2>4, <2>5, <3>1, <3>2, <3>3, HoldsNow
    <3> QED
      BY <2>3, <3>4
  <2>7. CASE ~ (p.obj \in Object /\ r.ret = 1 /\ Exact(p, v))
    <3>1. hold' = IF p.obj \in Object THEN Expect(p, Frees(p)) ELSE hold
      BY <2>7
    <3> QED
      BY <1>1, <2>3, <2>4, <2>5, <3>1, Released
  <2> QED
    BY <2>6, <2>7
<1>7. ASSUME NEW op, NEW r, Returns(op, p, r), Leaves(lib, p, r),
             Excused(p) \/ (op = "release_and_read" /\ Width(p) > MaxWidth) \/ Spared(lib, r),
             hold' = IF p.obj \in Object THEN Expect(p, Frees(p)) ELSE hold
      PROVE  HInv' /\ Changes
  <2>1. Changes
    BY <1>7, Changed
  <2>2. LibOK(lib') /\ Frame(lib.d, lib'.d, p) /\ UNCHANGED tool
    BY <1>7 DEF Returns, Leaves
  <2> QED
    BY <1>1, <1>7, <2>1, <2>2, Released
<1>8. CASE uvm_hdl_release(p)
  <2>1. Defined(p) /\ hold' = IF p.obj \in Object THEN Expect(p, Frees(p)) ELSE hold
    BY <1>8 DEF uvm_hdl_release, Ready
  <2>2. PICK r \in ReleaseOf(lib, p, NoCall.v) : Returns("release", p, r)
    BY <1>8 DEF uvm_hdl_release
  <2>3. Leaves(lib, p, r) /\ (Excused(p) \/ Spared(lib, r))
    BY <1>1, <2>1, <2>2, Zeros, Releases
  <2>4. Excused(p) \/ ("release" = "release_and_read" /\ Width(p) > MaxWidth)
          \/ Spared(lib, r)
    BY <2>3
  <2> QED
    BY <1>7, <2>1, <2>2, <2>3, <2>4
<1>9. CASE \E v \in Garbage : uvm_hdl_release_and_read(p, v)
  <2> PICK v \in Garbage : uvm_hdl_release_and_read(p, v)
    BY <1>9
  <2>1. Defined(p) /\ hold' = IF p.obj \in Object THEN Expect(p, Frees(p)) ELSE hold
    BY DEF uvm_hdl_release_and_read, Ready
  <2>2. PICK r \in ReleaseAndReadOf(lib, p, v) : Returns("release_and_read", p, r)
    BY DEF uvm_hdl_release_and_read
  <2>3. Leaves(lib, p, r) /\ (Excused(p) \/ Width(p) > MaxWidth \/ Spared(lib, r))
    BY <1>1, <2>1, <2>2, ReleasesAndReads
  <2>4. \/ Excused(p) \/ ("release_and_read" = "release_and_read" /\ Width(p) > MaxWidth)
        \/ Spared(lib, r)
    BY <2>3
  <2> QED
    BY <1>7, <2>1, <2>2, <2>3, <2>4
<1> QED
  BY <1>3, <1>4, <1>5, <1>6, <1>8, <1>9

(* The design gives values to what is not forced.                          *)
LEMMA DriveKeeps ==
  ASSUME HInv, NEW o \in Object, NEW w \in Moves[o], Drive(o, w)
  PROVE  HInv'
<1> DEFINE d == lib.d
           free == Free(d, o, Positions(o))
           nv == Over(d.val[o], On(w, free))
           nd == IF Resolved(o) THEN w ELSE d.drv[o]
<1>1. /\ LibOK(lib) /\ w \in Values(o)
      /\ d.val[o] \in Values(o) /\ d.drv[o] \in Values(o)
  BY BackdoorAssumption DEF HInv, HdlTypeOK, LibOK, DesignOK
<1>2. nv \in Values(o) /\ \A i \in Positions(o) : i \in d.forced[o] => nv[i] = d.val[o][i]
  BY <1>1 DEF Over, On, Free, Values
<1>3. nd \in Values(o)
  BY <1>1
<1>4. lib' = [d |-> [val |-> [d.val EXCEPT ![o] = nv], drv |-> [d.drv EXCEPT ![o] = nd],
                     forced |-> d.forced], partsel |-> lib.partsel]
  <2>1. d = [val |-> d.val, drv |-> d.drv, forced |-> d.forced]
        /\ lib = [d |-> d, partsel |-> lib.partsel]
    BY <1>1 DEF LibOK, Lib, Design
  <2>2. Driven(d, o, w) = [d EXCEPT !.drv[o] = nd, !.val[o] = nv]
    BY DEF Driven
  <2>3. lib' = [lib EXCEPT !.d = Driven(d, o, w)]
    BY DEF Drive
  <2> HIDE DEF d, nd, nv
  <2> QED
    BY <2>1, <2>2, <2>3
<1> HIDE DEF nv, nd
<1>5. LibOK(lib')
  BY <1>1, <1>2, <1>3, <1>4 DEF LibOK, Lib, DesignOK, Design
<1>6. ForcedKept(lib.d, lib'.d)
  BY <1>1, <1>2, <1>4 DEF ForcedKept, LibOK, Lib, Design
<1>7. UNCHANGED <<tool, hold>>
  BY DEF Drive
<1> QED
  BY <1>5, <1>6, <1>7, StillHolds

(* The induction step.                                                     *)
LEMMA Step == HInv /\ [HdlNext]_vars => HInv' /\ [Changes]_vars
<1> SUFFICES ASSUME HInv, [HdlNext]_vars PROVE HInv' /\ [Changes]_vars
  OBVIOUS
<1>1. CASE Call
  BY <1>1, StepOfCall DEF Call
<1>2. ASSUME NEW o \in Object, NEW w \in Moves[o], Drive(o, w)
      PROVE  HInv' /\ Changes
  BY <1>2, DriveKeeps DEF Drive, Changes
<1>3. CASE UNCHANGED vars
  <2>1. /\ UNCHANGED <<tool, hold>> /\ lib' = lib
    BY <1>3 DEF vars
  <2>2. LibOK(lib') /\ ForcedKept(lib.d, lib'.d)
    BY <2>1 DEF HInv, HdlTypeOK, ForcedKept
  <2> QED
    BY <1>3, <2>1, <2>2, StillHolds
<1> QED
  BY <1>1, <1>2, <1>3 DEF HdlNext

-----------------------------------------------------------------------------
(* The design, the library and what is held are of their types, whichever  *)
(* calls of uvm_hdl.svh are made of whichever simulator.                   *)
THEOREM HdlTypes == HdlSpec => []HdlTypeOK
<1>1. HInv => HdlTypeOK
  BY DEF HInv
<1> QED
  BY Begin, Step, <1>1, PTL DEF HdlSpec

(* What uvm_hdl_force has put stays until it is released, whatever is      *)
(* deposited and whatever the design drives: the promise that uvm_hdl.svh  *)
(* states for uvm_hdl_force, for a force that the simulator can make.      *)
THEOREM ForcesHold == HdlSpec => []ForceHolds
<1>1. HInv => ForceHolds
  BY DEF HInv
<1> QED
  BY Begin, Step, <1>1, PTL DEF HdlSpec

(* No call of the HDL access functions changes anything but what its path  *)
(* names, and one that fails changes nothing, with the exceptions that     *)
(* OnlyNamedChange names.                                                  *)
THEOREM OnlyNamedChanges == HdlSpec => OnlyNamedChange
<1>1. OnlyNamedChange <=> [][Changes]_vars
  BY DEF OnlyNamedChange, Changes
<1> QED
  BY Begin, Step, <1>1, PTL DEF HdlSpec

-----------------------------------------------------------------------------
(* What the calls return                                                   *)

WritesLand ==
  (Calls("deposit") \/ Calls("force")) /\ Exact(last'.path, last'.v) =>
      \A i \in Named(last'.path) :
          \/ last'.op = "deposit" /\ i \in lib'.d.forced[last'.path.obj]
          \/ lib'.d.val[last'.path.obj][i] = last'.v[Index(last'.path, i)]

LEMMA LandStep == HInv /\ HdlNext => WritesLand
<1> SUFFICES ASSUME HInv, HdlNext, Calls("deposit") \/ Calls("force"),
                    Exact(last'.path, last'.v), NEW i \in Named(last'.path)
             PROVE  \/ last'.op = "deposit" /\ i \in lib'.d.forced[last'.path.obj]
                    \/ lib'.d.val[last'.path.obj][i] = last'.v[Index(last'.path, i)]
  BY DEF WritesLand
<1>1. /\ tool \in Tool /\ LibOK(lib) /\ Written \subseteq Data /\ Paths \subseteq Path
  BY BackdoorAssumption DEF HInv, HdlTypeOK
<1>2. CASE last'.op = "deposit"
  <2>1. PICK p \in Paths, v \in Written : uvm_hdl_deposit(p, v)
    BY <1>2 DEF HdlNext, Call, uvm_hdl_check_path, uvm_hdl_read, uvm_hdl_force, uvm_hdl_release,
       uvm_hdl_release_and_read, Drive, Returns, NoCall
  <2>2. PICK r \in DepositOf(lib, p, v) : Returns("deposit", p, r)
    BY <2>1 DEF uvm_hdl_deposit
  <2>3. /\ lib' = r.s /\ last'.path = p /\ last'.v = v /\ r.ret = 1
        /\ p \in Path /\ v \in Data /\ Writable(p)
    BY <1>1, <2>1, <2>2, WritesReturn DEF Returns, Calls, uvm_hdl_deposit
  <2>4. Laid(r.s.d, p, v)
    BY <1>1, <2>3, Deposits
  <2> QED
    BY <1>2, <2>3, <2>4 DEF Laid
<1>3. CASE last'.op = "force"
  <2>1. PICK p \in Paths, v \in Written : uvm_hdl_force(p, v)
    BY <1>3 DEF HdlNext, Call, uvm_hdl_check_path, uvm_hdl_read, uvm_hdl_deposit,
       uvm_hdl_release, uvm_hdl_release_and_read, Drive, Returns, NoCall
  <2>2. PICK r \in ForceOf(lib, p, v) : Returns("force", p, r)
    BY <2>1 DEF uvm_hdl_force
  <2>3. /\ lib' = r.s /\ last'.path = p /\ last'.v = v /\ r.ret = 1
        /\ p \in Path /\ v \in Data /\ Writable(p)
    BY <1>1, <2>1, <2>2, WritesReturn DEF Returns, Calls, uvm_hdl_force
  <2>4. Lands(r.s.d, p, v)
    BY <1>1, <2>3, Forces
  <2> QED
    BY <2>3, <2>4 DEF Lands
<1> QED
  BY <1>2, <1>3 DEF Calls

ReadAgreed ==
  Calls("read") =>
      LET p == last'.path IN
      \/ tool \in {"QUESTA", "XCELIUM"} /\ IsA(p, "vhdl") /\ Width(p) > Word
      \/ \A k \in 0 .. Width(p) - 1 :
           Content(lib'.d, p)[k] \in Logic => last'.v[k] = Content(lib'.d, p)[k]

LEMMA ReadStep == HInv /\ HdlNext => ReadAgreed
<1> SUFFICES ASSUME HInv, HdlNext, Calls("read"),
                    ~ (/\ tool \in {"QUESTA", "XCELIUM"} /\ IsA(last'.path, "vhdl")
                       /\ Width(last'.path) > Word)
             PROVE  Shows(last'.v, lib'.d, last'.path)
  BY DEF ReadAgreed, Shows
<1>1. tool \in Tool /\ LibOK(lib) /\ Paths \subseteq Path
  BY BackdoorAssumption DEF HInv, HdlTypeOK
<1>2. PICK p \in Paths, v \in Garbage : uvm_hdl_read(p, v)
  BY DEF Calls, HdlNext, Call, uvm_hdl_check_path, uvm_hdl_deposit, uvm_hdl_force,
     uvm_hdl_release, uvm_hdl_release_and_read, Drive, Returns, NoCall
<1>3. PICK r \in ReadOf(lib, p, v) : Returns("read", p, r)
  BY <1>2 DEF uvm_hdl_read
<1>4. /\ lib' = r.s /\ last'.path = p /\ last'.v = r.v /\ r.ret = 1
      /\ p \in Path /\ Defined(p)
  BY <1>1, <1>2, <1>3 DEF Returns, Calls, uvm_hdl_read, Ready
<1>5. r.s.d = lib.d
  BY <1>1, <1>4, Reads
<1>6. Shows(r.v, lib.d, p)
  BY <1>1, <1>4, ReadsShow
<1> QED
  BY <1>4, <1>5, <1>6

CheckedRead ==
  Calls("check_path") /\ Width(last'.path) <= MaxWidth
      /\ KindOf(last'.path) # "array"
      /\ ~ (tool = "XCELIUM" /\ IsA(last'.path, "vhdl") /\ Width(last'.path) > Word)
      => \A v \in Garbage : \A r \in ReadOf(lib', last'.path, v) : r.ret = 1

LEMMA CheckStep == HInv /\ HdlNext => CheckedRead
<1> SUFFICES ASSUME HInv, HdlNext, Calls("check_path"), Width(last'.path) <= MaxWidth,
                    KindOf(last'.path) # "array",
                    ~ (/\ tool = "XCELIUM" /\ IsA(last'.path, "vhdl")
                       /\ Width(last'.path) > Word),
                    NEW w \in Garbage, NEW x \in ReadOf(lib', last'.path, w)
             PROVE  x.ret = 1
  BY DEF CheckedRead
<1>1. tool \in Tool /\ Paths \subseteq Path
  BY BackdoorAssumption DEF HInv, HdlTypeOK
<1>2. PICK p \in Paths : uvm_hdl_check_path(p)
  BY DEF Calls, HdlNext, Call, uvm_hdl_read, uvm_hdl_deposit, uvm_hdl_force,
     uvm_hdl_release, uvm_hdl_release_and_read, Drive, Returns, NoCall
<1>3. PICK c \in Check(lib, p, NoCall.v) : Returns("check_path", p, c)
  BY <1>2 DEF uvm_hdl_check_path
<1>4. last'.path = p /\ c.ret = 1 /\ p \in Path
  BY <1>1, <1>3 DEF Returns, Calls
<1> QED
  BY <1>1, <1>3, <1>4, CheckedReads

-----------------------------------------------------------------------------
(* Releases.  That nothing of the path is forced afterwards needs one more *)
(* fact: release_and_read of Xcelium leaves a VHDL integer alone and still *)
(* returns 1, which is right because nothing can force one.                *)

Unforced(d) ==
  \A o \in Object : Attr[o].lang = "vhdl" /\ Attr[o].kind = "integer" =>
    Positions(o) \cap d.forced[o] = {}

RInv == HInv /\ Unforced(lib.d)

LEMMA UnforcedBegin == HdlInit => Unforced(lib.d)
<1> SUFFICES ASSUME HdlInit, NEW o \in Object PROVE lib.d.forced[o] = {}
  BY DEF Unforced
<1>1. lib.d.forced = [x \in Object |-> {}]
  BY DEF HdlInit
<1> QED
  BY <1>1

LEMMA UnforcedStep == RInv /\ [HdlNext]_vars => Unforced(lib.d)'
<1> SUFFICES ASSUME RInv, [HdlNext]_vars, NEW o \in Object, Attr[o].lang = "vhdl",
                    Attr[o].kind = "integer", NEW i \in Positions(o),
                    i \in lib'.d.forced[o]
             PROVE  FALSE
  BY DEF Unforced, Positions, Size
<1>1. /\ tool \in Tool /\ LibOK(lib) /\ Paths \subseteq Path
      /\ Written \subseteq Data /\ Garbage \subseteq Data /\ i \notin lib.d.forced[o]
  BY BackdoorAssumption DEF RInv, HInv, HdlTypeOK, Unforced
<1>2. CASE lib'.d.forced = lib.d.forced
  BY <1>1, <1>2
<1>3. CASE lib'.d.forced # lib.d.forced
  <2>1. PICK p \in Paths : Call /\
          \/ uvm_hdl_check_path(p)
          \/ \E v \in Garbage : uvm_hdl_read(p, v)
          \/ \E v \in Written : uvm_hdl_deposit(p, v)
          \/ \E v \in Written : uvm_hdl_force(p, v)
          \/ uvm_hdl_release(p)
          \/ \E v \in Garbage : uvm_hdl_release_and_read(p, v)
    <3>1. CASE Call
      BY <3>1 DEF Call
    <3>2. ASSUME NEW q \in Object, NEW w \in Moves[q], Drive(q, w)
          PROVE  FALSE
      <4>1. Driven(lib.d, q, w).forced = lib.d.forced
        BY <1>1 DEF Driven, LibOK, DesignOK, Design
      <4>2. lib'.d = Driven(lib.d, q, w)
        BY <1>1, <3>2 DEF Drive, LibOK, Lib
      <4> QED
        BY <1>3, <4>1, <4>2
    <3>3. CASE UNCHANGED vars
      BY <1>3, <3>3 DEF vars
    <3> QED
      BY <3>1, <3>2, <3>3 DEF HdlNext
  <2>2. p \in Path /\ Defined(p)
    BY <1>1, <2>1 DEF uvm_hdl_check_path, uvm_hdl_read, uvm_hdl_deposit, uvm_hdl_force,
       uvm_hdl_release, uvm_hdl_release_and_read, Ready, Writable
  <2>3. ASSUME NEW v, NEW r \in Check(lib, p, v) \cup ReadOf(lib, p, v), lib' = r.s
        PROVE  FALSE
    BY <1>1, <1>3, <2>2, <2>3, Reads
  <2>4. PICK v \in Data : \E r \in DepositOf(lib, p, v) \cup ForceOf(lib, p, v)
               \cup ReleaseOf(lib, p, v) \cup ReleaseAndReadOf(lib, p, v) :
          lib' = r.s /\ last' # NoCall /\ last'.path = p
    BY <1>1, <2>1, <2>3, Zeros DEF uvm_hdl_check_path, uvm_hdl_read, uvm_hdl_deposit,
       uvm_hdl_force, uvm_hdl_release, uvm_hdl_release_and_read, Returns, NoCall
  <2>5. PICK r \in DepositOf(lib, p, v) \cup ForceOf(lib, p, v)
               \cup ReleaseOf(lib, p, v) \cup ReleaseAndReadOf(lib, p, v) :
          lib' = r.s /\ last' # NoCall /\ last'.path = p
    BY <2>4
  <2>6. CASE p.obj = o
    <3>1. IsA(p, "vhdl") /\ KindOf(p) = "integer"
      BY <2>6 DEF IsA, KindOf
    <3>2. r.s = lib
      BY <1>1, <2>2, <3>1, IntegerSpared
    <3> QED
      BY <1>3, <2>5, <3>2
  <2>7. CASE p.obj # o
    <3>1. Changes
      BY <2>1, StepOfCall DEF RInv
    <3>2. Same(lib.d, lib'.d, o, i)
      BY <2>5, <2>7, <3>1 DEF Changes
    <3> QED
      BY <1>1, <3>2 DEF Same
  <2> QED
    BY <2>6, <2>7
<1> QED
  BY <1>2, <1>3

ReleasedFree ==
  Calls("release") \/ Calls("release_and_read") =>
      LET p == last'.path IN
      /\ KindOf(p) # "constant" => Named(p) \cap lib'.d.forced[p.obj] = {}
      /\ \/ last'.op = "release" \/ tool \in {"VCS", "VCSMX"}
         \/ tool = "QUESTA" /\ p.sel = "slice" /\ ~ IsA(p, "vhdl")
         \/ IsA(p, "vhdl") /\ Width(p) > Word
         \/ \A k \in 0 .. Width(p) - 1 :
              Content(lib'.d, p)[k] \in Logic => last'.v[k] = Content(lib'.d, p)[k]

LEMMA ReleaseStep == RInv /\ HdlNext => ReleasedFree
<1> SUFFICES ASSUME RInv, HdlNext, Calls("release") \/ Calls("release_and_read")
             PROVE  /\ KindOf(last'.path) # "constant" => Freed(lib'.d, last'.path)
                    /\ \/ last'.op = "release" \/ tool \in {"VCS", "VCSMX"}
                       \/ /\ tool = "QUESTA" /\ last'.path.sel = "slice"
                          /\ ~ IsA(last'.path, "vhdl")
                       \/ IsA(last'.path, "vhdl") /\ Width(last'.path) > Word
                       \/ Shows(last'.v, lib'.d, last'.path)
  BY DEF ReleasedFree, Freed, Shows
<1>1. tool \in Tool /\ LibOK(lib) /\ Paths \subseteq Path /\ Garbage \subseteq Data
  BY BackdoorAssumption DEF RInv, HInv, HdlTypeOK
<1>2. CASE last'.op = "release"
  <2>1. PICK p \in Paths : uvm_hdl_release(p)
    BY <1>2 DEF HdlNext, Call, uvm_hdl_check_path, uvm_hdl_read, uvm_hdl_deposit, uvm_hdl_force,
       uvm_hdl_release_and_read, Drive, Returns, NoCall
  <2>2. PICK r \in ReleaseOf(lib, p, NoCall.v) : Returns("release", p, r)
    BY <2>1 DEF uvm_hdl_release
  <2>3. lib' = r.s /\ last'.path = p /\ r.ret = 1 /\ p \in Path /\ Defined(p)
    BY <1>1, <2>1, <2>2 DEF Returns, Calls, uvm_hdl_release, Ready
  <2>4. KindOf(p) # "constant" => Freed(r.s.d, p)
    BY <1>1, <2>3, Zeros, Releases
  <2> QED
    BY <1>2, <2>3, <2>4
<1>3. CASE last'.op = "release_and_read"
  <2>1. PICK p \in Paths, v \in Garbage : uvm_hdl_release_and_read(p, v)
    BY <1>3 DEF HdlNext, Call, uvm_hdl_check_path, uvm_hdl_read, uvm_hdl_deposit, uvm_hdl_force,
       uvm_hdl_release, Drive, Returns, NoCall
  <2>2. PICK r \in ReleaseAndReadOf(lib, p, v) : Returns("release_and_read", p, r)
    BY <2>1 DEF uvm_hdl_release_and_read
  <2>3. /\ lib' = r.s /\ last'.path = p /\ last'.v = r.v /\ r.ret = 1
        /\ p \in Path /\ v \in Data /\ Defined(p)
    BY <1>1, <2>1, <2>2 DEF Returns, Calls, uvm_hdl_release_and_read, Ready
  <2>4. IsA(p, "vhdl") /\ KindOf(p) = "integer" => Freed(lib.d, p)
    BY DEF IsA, KindOf, Freed, RInv, Unforced, Named
  <2>5. /\ KindOf(p) # "constant" => Freed(r.s.d, p)
        /\ \/ tool \in {"VCS", "VCSMX"}
           \/ tool = "QUESTA" /\ p.sel = "slice" /\ ~ IsA(p, "vhdl")
           \/ IsA(p, "vhdl") /\ Width(p) > Word
           \/ Shows(r.v, r.s.d, p)
    BY <1>1, <2>3, <2>4, FreesAndShows
  <2> QED
    BY <2>3, <2>5
<1> QED
  BY <1>2, <1>3 DEF Calls

-----------------------------------------------------------------------------
(* A deposit or a force that uvm_hdl.svh reports as done has put every bit *)
(* where the path says, whichever simulator's file is compiled: words,     *)
(* strings and single bits come out at the same positions.                 *)
THEOREM WritesLanded == HdlSpec => WriteLands
<1>1. WriteLands <=> [][WritesLand]_vars
  BY DEF WriteLands, WritesLand
<1>2. HInv /\ [HdlNext]_vars => [WritesLand]_vars
  BY LandStep
<1> QED
  BY Begin, Step, <1>1, <1>2, PTL DEF HdlSpec

(* uvm_hdl_read returns the bits that the path names, for every width that *)
(* the caller's value holds, but for VHDL beyond one word in Questa and    *)
(* Xcelium.                                                                *)
THEOREM ReadsAgree == HdlSpec => ReadAgrees
<1>1. ReadAgrees <=> [][ReadAgreed]_vars
  BY DEF ReadAgrees, ReadAgreed
<1>2. HInv /\ [HdlNext]_vars => [ReadAgreed]_vars
  BY ReadStep
<1> QED
  BY Begin, Step, <1>1, <1>2, PTL DEF HdlSpec

(* What uvm_hdl_check_path says is there can be read by uvm_hdl_read: the  *)
(* two agree on which names they resolve, in each of the simulators' files.*)
THEOREM PathsRead == HdlSpec => CheckedPathsRead
<1>1. CheckedPathsRead <=> [][CheckedRead]_vars
  BY DEF CheckedPathsRead, CheckedRead
<1>2. HInv /\ [HdlNext]_vars => [CheckedRead]_vars
  BY CheckStep
<1> QED
  BY Begin, Step, <1>1, <1>2, PTL DEF HdlSpec

(* After uvm_hdl_release or uvm_hdl_release_and_read has succeeded nothing *)
(* of the path is forced, and the latter returns the value from after the  *)
(* release where the simulator's file reads at all.                        *)
THEOREM ReleasesFree == HdlSpec => ReleaseFrees
<1>1. ReleaseFrees <=> [][ReleasedFree]_vars
  BY DEF ReleaseFrees, ReleasedFree
<1>2. HdlInit => RInv
  BY Begin, UnforcedBegin DEF RInv
<1>3. RInv /\ [HdlNext]_vars => RInv'
  <2>1. RInv /\ [HdlNext]_vars => HInv' /\ Unforced(lib.d)'
    BY Step, UnforcedStep DEF RInv
  <2> QED
    BY <2>1 DEF RInv
<1>4. RInv /\ [HdlNext]_vars => [ReleasedFree]_vars
  BY ReleaseStep
<1> QED
  BY <1>1, <1>2, <1>3, <1>4, PTL DEF HdlSpec

-----------------------------------------------------------------------------
(* A register that is reached through the backdoor                         *)

(* No position of the register is forced; slice c bears its part of val.   *)
Clear(d) == \A p \in RegPaths : d.forced[p.obj] = {}
Bears(d, c, val) ==
  \A i \in Named(c.path) : d.val[c.path.obj][i] = Part(c, val)[Index(c.path, i)]

LEMMA SliceTypes ==
  /\ \A i \in DOMAIN Copies : Copies[i] \in Seq(Slices)
  /\ Len(Copies) \in Nat \ {0} /\ DOMAIN Copies = 1 .. Len(Copies)
  /\ \A c \in Slices : /\ c \in [path : Path, offset : Int, size : 0 .. MaxWidth]
                       /\ c.path \in RegPaths
<1> DEFINE S == [path : Path, offset : Int, size : 0 .. MaxWidth]
<1>1. Copies \in Seq(Seq(S)) /\ Len(Copies) > 0
  BY RegisterAssumption
<1> HIDE DEF S
<1>2. \A i \in DOMAIN Copies : Copies[i] \in Seq(S)
  BY <1>1
<1>3. ASSUME NEW i \in DOMAIN Copies PROVE Copies[i] \in Seq(Slices)
  <2>1. \A j \in DOMAIN Copies[i] : Copies[i][j] \in Slices
    BY DEF Slices
  <2> QED
    BY <1>2, <2>1
<1>4. \A c \in Slices : c \in S
  BY <1>2 DEF Slices
<1> QED
  BY <1>1, <1>3, <1>4 DEF S, RegPaths

LEMMA PartTypes ==
  ASSUME NEW c \in Slices, NEW val \in RegValues
  PROVE  Part(c, val) \in Data /\ \A b \in Bits : Part(c, val)[b] \in {"0", "1"}
<1>1. val \in [Bits -> {"0", "1"}]
  BY RegisterAssumption DEF RegData
<1> QED
  BY <1>1 DEF Part, Data, Logic

(* All slices are written, each of them once or more.                      *)
LEMMA SlicesListed ==
  /\ AllSlices \in Seq(Slices)
  /\ \A c \in Slices : \E j \in 1 .. Len(AllSlices) : AllSlices[j] = c
<1> DEFINE N == Len(Copies)
           G == [n \in 1 .. N |-> [x \in Seq(Slices) |-> x \o Copies[n]]]
           Is(f) == f = [i \in 0 .. N |-> IF i = 0 THEN <<>> ELSE f[i - 1] \o Copies[i]]
           h == CHOOSE f : Is(f)
           Q == [n \in 0 .. N |->
                  {x \in Seq(Slices) : \A k \in 1 .. n : Held(Copies[k]) \subseteq Held(x)}]
<1>0. /\ N \in Nat /\ \A n \in 1 .. N : Copies[n] \in Seq(Slices)
      /\ DOMAIN Copies = 1 .. N
  BY SliceTypes
<1>1. Loops(Seq(Slices), N, <<>>, G) # {}
  <2>1. \A n \in 1 .. N : \A x \in Seq(Slices) : G[n][x] \in Seq(Slices)
    BY <1>0
  <2>2. <<>> \in Seq(Slices)
    OBVIOUS
  <2> HIDE DEF G, N, Is, h, Q
  <2> QED
    BY <1>0, <2>1, <2>2, LoopRuns
<1>2. \E f : Is(f)
  <2>1. PICK f \in [0 .. N -> Seq(Slices)] :
          f[0] = <<>> /\ \A n \in 1 .. N : f[n] = G[n][f[n - 1]]
    <3> HIDE DEF G, N, Is
    <3> QED
      BY <1>1 DEF Loops
  <2>2. ASSUME NEW n \in 0 .. N
        PROVE  f[n] = (IF n = 0 THEN <<>> ELSE f[n - 1] \o Copies[n])
    <3>1. CASE n # 0
      <4>1. n \in 1 .. N /\ n - 1 \in 0 .. N
        BY <3>1, <1>0
      <4> QED
        BY <4>1, <2>1, <3>1
    <3> QED
      BY <2>1, <3>1
  <2> HIDE DEF N
  <2>3. f = [n \in 0 .. N |-> IF n = 0 THEN <<>> ELSE f[n - 1] \o Copies[n]]
    BY <2>2
  <2> QED
    BY <2>3
<1>3. Is(h)
  <2> HIDE DEF Is
  <2> QED
    BY <1>2
<1>4. AllSlices = h[N]
  BY DEF AllSlices
<1>5. h[0] = <<>> /\ \A n \in 1 .. N : h[n] = h[n - 1] \o Copies[n]
  <2> HIDE DEF h, N
  <2>1. \A n \in 0 .. N : h[n] = (IF n = 0 THEN <<>> ELSE h[n - 1] \o Copies[n])
    BY <1>3, Zenon
  <2>2. 0 \in 0 .. N /\ \A n \in 1 .. N : n \in 0 .. N /\ n # 0
    BY <1>0
  <2> QED
    BY <2>1, <2>2, Zenon
<1> HIDE DEF h, N
<1>6. \A n \in 0 .. N : h[n] \in Q[n]
  <2>1. h[0] \in Q[0]
    BY <1>0, <1>5
  <2>2. ASSUME NEW n \in 1 .. N, h[n - 1] \in Q[n - 1] PROVE h[n] \in Q[n]
    <3> DEFINE x == h[n - 1]  y == Copies[n]
    <3>1. /\ x \in Seq(Slices) /\ y \in Seq(Slices) /\ h[n] = x \o y
          /\ n \in 0 .. N /\ n - 1 \in 0 .. N
          /\ \A k \in 1 .. n - 1 : Held(Copies[k]) \subseteq Held(x)
      <4>1. n \in 0 .. N /\ n - 1 \in 0 .. N
        BY <1>0
      <4>2. Q[n - 1] = {z \in Seq(Slices) : \A k \in 1 .. n - 1 :
                                              Held(Copies[k]) \subseteq Held(z)}
        BY <4>1
      <4> HIDE DEF Q
      <4> QED
        BY <1>0, <1>5, <2>2, <4>1, <4>2
    <3> HIDE DEF x
    <3>2. Held(x \o y) = Held(x) \cup Held(y) /\ x \o y \in Seq(Slices)
      BY <3>1, JoinedHeld
    <3>3. \A k \in 1 .. n : k \in 1 .. n - 1 \/ k = n
      BY <1>0
    <3>4. \A k \in 1 .. n : Held(Copies[k]) \subseteq Held(h[n])
      BY <3>1, <3>2, <3>3
    <3> QED
      BY <3>1, <3>2, <3>4
  <2> HIDE DEF Q
  <2> QED
    BY <1>0, <2>1, <2>2, Rounds
<1>7. h[N] \in Q[N]
  <2> HIDE DEF Q
  <2> QED
    BY <1>0, <1>6
<1>8. ASSUME NEW c \in Slices PROVE \E j \in 1 .. Len(AllSlices) : AllSlices[j] = c
  <2>1. PICK k \in DOMAIN Copies : c \in Held(Copies[k])
    BY DEF Slices, Held
  <2>2. k \in 1 .. N /\ AllSlices \in Seq(Slices)
    BY <1>4, <1>7, <1>0
  <2>3. c \in Held(AllSlices)
    BY <1>4, <1>7, <1>0, <2>1, <2>2
  <2> QED
    BY <2>2, <2>3 DEF Held
<1> QED
  BY <1>4, <1>7, <1>0, <1>8

(* One slice is written.                                                   *)
LEMMA DepositSlice ==
  ASSUME tool \in Tools, NEW d, NEW s, LibOK(s), ForcedKept(d, s.d),
         NEW c \in Slices, Writable(c.path), NEW val \in RegValues,
         NEW x \in DepositOf(s, c.path, Part(c, val))
  PROVE  /\ LibOK(x.s) /\ ForcedKept(d, x.s.d)
         /\ WellSliced /\ Clear(d) /\ x.ret = 1 =>
              /\ Bears(x.s.d, c, val)
              /\ \A e \in Slices : Bears(s.d, e, val) => Bears(x.s.d, e, val)
<1> DEFINE p == c.path  v == Part(c, val)
<1>1. /\ tool \in Tool /\ p \in Path /\ v \in Data /\ p \in RegPaths
      /\ c \in [path : Path, offset : Int, size : 0 .. MaxWidth]
  BY BackdoorAssumption, SliceTypes, PartTypes
<1>2. /\ Leaves(s, p, x) /\ ForcedKept(s.d, x.s.d)
      /\ x.ret = 1 /\ Exact(p, v) => p.obj \in Object /\ Laid(x.s.d, p, v)
  BY <1>1, Deposits
<1>3. LibOK(x.s) /\ ForcedKept(d, x.s.d)
  <2>1. LibOK(x.s)
    BY <1>2 DEF Leaves
  <2>2. ForcedKept(d, x.s.d)
    <3> HIDE DEF p, v
    <3> QED
      BY <1>2 DEF ForcedKept
  <2> QED
    BY <2>1, <2>2
<1>4. ASSUME WellSliced, Clear(d), x.ret = 1
      PROVE  /\ Bears(x.s.d, c, val)
             /\ \A e \in Slices : Bears(s.d, e, val) => Bears(x.s.d, e, val)
  <2>1. Fits(c) /\ p.obj \in Object
    BY <1>4 DEF WellSliced, Fits, Exists
  <2>2. x.s.d.forced[p.obj] = {}
    BY <1>1, <1>3, <1>4, <2>1 DEF ForcedKept, Clear
  <2>3. Exact(p, v)
    <3>1. KindOf(p) # "constant"
      BY <2>1 DEF Fits
    <3>2. IsA(p, "vhdl") /\ tool = "QUESTA" => p.sel = "all"
      BY <2>1 DEF Fits
    <3>3. \A b \in Bits : v[b] \in {"0", "1"}
      BY PartTypes
    <3>4. ASSUME IsA(p, "vhdl"), tool = "VCSMX", NEW b \in Bits, b >= Width(p)
          PROVE  v[b] = "0"
      <4>1. CASE c.offset < 0
        BY <2>1, <3>4, <4>1 DEF Fits, Part
      <4>2. CASE ~ (c.offset < 0)
        <5>1. c.size <= Width(p)
          BY <2>1, <4>2 DEF Fits
        <5>2. ~ (b < c.size)
          BY <1>1, <3>4, <5>1, PathWidth DEF Bits
        <5> QED
          BY <4>2, <5>2 DEF Part
      <4> QED
        BY <4>1, <4>2
    <3> HIDE DEF p, v
    <3> QED
      BY <3>1, <3>2, <3>3, <3>4 DEF Exact
  <2>4. Bears(x.s.d, c, val)
    <3>1. Laid(x.s.d, p, v)
      BY <1>2, <1>4, <2>3
    <3> QED
      BY <2>2, <3>1 DEF Bears, Laid
  <2>5. ASSUME NEW e \in Slices, Bears(s.d, e, val), NEW i \in Named(e.path)
        PROVE  x.s.d.val[e.path.obj][i] = Part(e, val)[Index(e.path, i)]
    <3>1. e.path \in Path /\ e.path.obj \in Object /\ i \in Positions(e.path.obj)
      BY <1>4, SliceTypes DEF WellSliced, Fits, Exists, Named
    <3>2. CASE e.path.obj = p.obj /\ i \in Named(p)
      <4>1. x.s.d.val[p.obj][i] = v[Index(p, i)]
        BY <2>4, <3>2 DEF Bears
      <4>2. Part(c, val)[Index(p, i)] = Part(e, val)[Index(e.path, i)]
        BY <1>4, <2>5, <3>2 DEF WellSliced
      <4> QED
        BY <3>2, <4>1, <4>2
    <3>3. CASE ~ (e.path.obj = p.obj /\ i \in Named(p))
      <4>1. Same(s.d, x.s.d, e.path.obj, i)
        BY <1>2, <3>1, <3>3 DEF Leaves, Frame
      <4> QED
        BY <2>5, <4>1 DEF Same, Bears
    <3> QED
      BY <3>2, <3>3
  <2> QED
    BY <2>4, <2>5 DEF Bears
<1> QED
  BY <1>3, <1>4

(* After all slices have been written, and none refused, every one bears   *)
(* its part of the value, whether or not another was written over it.      *)
LEMMA WriteRuns ==
  ASSUME tool \in Tools, LibOK(lib), \A p \in RegPaths : Writable(p),
         NEW val \in RegValues, NEW z \in backdoor_write_slices(val)
  PROVE  /\ LibOK(z.s) /\ ForcedKept(lib.d, z.s.d)
         /\ WellSliced /\ Clear(lib.d) /\ z.ok => \A c \in Slices : Bears(z.s.d, c, val)
<1> DEFINE N == Len(AllSlices)
           R == {w \in [s : Lib, ok : BOOLEAN, finish : BOOLEAN] :
                   LibOK(w.s) /\ ForcedKept(lib.d, w.s.d)}
           After(n, W) ==
             UNION {{[s |-> r.s, ok |-> w.ok /\ r.ret = 1, finish |-> w.finish \/ r.finish] :
                       r \in DepositOf(w.s, AllSlices[n].path, Part(AllSlices[n], val))} :
                      w \in W}
           First0 == {[s |-> lib, ok |-> TRUE, finish |-> FALSE]}
           G == [n \in 1 .. N |-> [W \in SUBSET R |-> After(n, W)]]
           Is(f) == f = [j \in 0 .. N |-> IF j = 0 THEN First0 ELSE After(j, f[j - 1])]
           h == CHOOSE f : Is(f)
           Q == [n \in 0 .. N |->
                  {W \in SUBSET R : WellSliced /\ Clear(lib.d) =>
                     \A w \in W : w.ok => \A j \in 1 .. n : Bears(w.s.d, AllSlices[j], val)}]
<1>0. N \in Nat /\ (\A n \in 1 .. N : AllSlices[n] \in Slices /\ Writable(AllSlices[n].path))
  <2>1. AllSlices \in Seq(Slices)
    BY SlicesListed
  <2>2. N \in Nat /\ \A n \in 1 .. N : AllSlices[n] \in Slices
    BY <2>1
  <2> QED
    BY <2>2, SliceTypes
<1>1. First0 \in SUBSET R
  BY DEF LibOK, ForcedKept
<1>2. ASSUME NEW n \in 1 .. N, NEW W \in SUBSET R, NEW y \in After(n, W)
      PROVE  /\ y \in R
             /\ \E w \in W : y.ok =>
                  /\ w.ok
                  /\ WellSliced /\ Clear(lib.d) =>
                       /\ Bears(y.s.d, AllSlices[n], val)
                       /\ \A e \in Slices : Bears(w.s.d, e, val) => Bears(y.s.d, e, val)
  <2> DEFINE c == AllSlices[n]
  <2>1. PICK w \in W : \E r \in DepositOf(w.s, c.path, Part(c, val)) :
          y = [s |-> r.s, ok |-> w.ok /\ r.ret = 1, finish |-> w.finish \/ r.finish]
    BY <1>2
  <2>2. PICK r \in DepositOf(w.s, c.path, Part(c, val)) :
          y = [s |-> r.s, ok |-> w.ok /\ r.ret = 1, finish |-> w.finish \/ r.finish]
    BY <2>1
  <2>3. c \in Slices /\ Writable(c.path) /\ LibOK(w.s) /\ ForcedKept(lib.d, w.s.d)
    BY <1>0
  <2> HIDE DEF c
  <2>4. /\ LibOK(r.s) /\ ForcedKept(lib.d, r.s.d)
        /\ WellSliced /\ Clear(lib.d) /\ r.ret = 1 =>
              /\ Bears(r.s.d, c, val)
              /\ \A e \in Slices : Bears(w.s.d, e, val) => Bears(r.s.d, e, val)
    BY <2>3, DepositSlice
  <2>5. y.s = r.s /\ y.ok = (w.ok /\ r.ret = 1) /\ y \in R
    BY <2>2, <2>4 DEF LibOK
  <2> QED
    BY <2>4, <2>5 DEF c
<1>3. Loops(SUBSET R, N, First0, G) # {}
  <2>1. \A n \in 1 .. N : \A W \in SUBSET R : G[n][W] \in SUBSET R
    <3> SUFFICES ASSUME NEW n \in 1 .. N, NEW W \in SUBSET R PROVE After(n, W) \subseteq R
      OBVIOUS
    <3> HIDE DEF R, After
    <3> QED
      BY <1>2
  <2> HIDE DEF G, N, R, First0
  <2> QED
    BY <1>0, <1>1, <2>1, LoopRuns
<1>4. \E f : Is(f)
  <2> HIDE DEF N, R, First0, After
  <2>1. PICK f \in [0 .. N -> SUBSET R] :
          f[0] = First0 /\ \A n \in 1 .. N : f[n] = G[n][f[n - 1]]
    <3> HIDE DEF G
    <3> QED
      BY <1>3 DEF Loops
  <2>2. ASSUME NEW n \in 0 .. N
        PROVE  f[n] = (IF n = 0 THEN First0 ELSE After(n, f[n - 1]))
    <3>1. CASE n # 0
      <4>1. n \in 1 .. N /\ n - 1 \in 0 .. N
        BY <3>1, <1>0
      <4> QED
        BY <4>1, <2>1, <3>1
    <3> QED
      BY <2>1, <3>1
  <2>3. f = [n \in 0 .. N |-> IF n = 0 THEN First0 ELSE After(n, f[n - 1])]
    BY <2>2
  <2> QED
    BY <2>3
<1>5. Is(h)
  <2> HIDE DEF Is
  <2> QED
    BY <1>4
<1>6. backdoor_write_slices(val) = h[N]
  BY DEF backdoor_write_slices
<1>7. h[0] = First0 /\ \A n \in 1 .. N : h[n] = After(n, h[n - 1])
  <2> HIDE DEF h, N, After, First0
  <2>1. \A n \in 0 .. N : h[n] = (IF n = 0 THEN First0 ELSE After(n, h[n - 1]))
    BY <1>5, Zenon
  <2>2. 0 \in 0 .. N /\ \A n \in 1 .. N : n \in 0 .. N /\ n # 0
    BY <1>0
  <2> QED
    BY <2>1, <2>2, Zenon
<1> HIDE DEF h, N, After
<1>8. h[0] \in Q[0]
  BY <1>0, <1>1, <1>7
<1> HIDE DEF R, First0
<1>9. ASSUME NEW n \in 1 .. N, h[n - 1] \in Q[n - 1] PROVE h[n] \in Q[n]
  <2>1. n \in 0 .. N /\ n - 1 \in 0 .. N
    BY <1>0
  <2>2. /\ h[n - 1] \in SUBSET R
        /\ WellSliced /\ Clear(lib.d) => \A w \in h[n - 1] : w.ok =>
              \A j \in 1 .. n - 1 : Bears(w.s.d, AllSlices[j], val)
    BY <1>9, <2>1
  <2>3. h[n] \in SUBSET R
    BY <1>2, <1>7, <2>2
  <2>4. ASSUME WellSliced, Clear(lib.d), NEW y \in h[n], y.ok, NEW j \in 1 .. n
        PROVE  Bears(y.s.d, AllSlices[j], val)
    <3>1. PICK w \in h[n - 1] :
            /\ w.ok /\ Bears(y.s.d, AllSlices[n], val)
            /\ \A e \in Slices : Bears(w.s.d, e, val) => Bears(y.s.d, e, val)
      <4>1. y \in After(n, h[n - 1]) /\ h[n - 1] \in SUBSET R
        BY <1>7, <2>2, <2>4
      <4>2. \E w \in h[n - 1] : y.ok =>
              /\ w.ok
              /\ WellSliced /\ Clear(lib.d) =>
                   /\ Bears(y.s.d, AllSlices[n], val)
                   /\ \A e \in Slices : Bears(w.s.d, e, val) => Bears(y.s.d, e, val)
        BY <1>2, <4>1, Zenon
      <4> QED
        BY <2>4, <4>2
    <3>2. CASE j = n
      BY <3>1, <3>2
    <3>3. CASE j # n
      <4>1. j \in 1 .. n - 1 /\ AllSlices[j] \in Slices
        BY <1>0, <3>3
      <4> QED
        BY <2>2, <2>4, <3>1, <4>1
    <3> QED
      BY <3>2, <3>3
  <2> QED
    BY <2>1, <2>3, <2>4
<1>10. \A n \in 0 .. N : h[n] \in Q[n]
  <2> HIDE DEF Q
  <2> QED
    BY <1>0, <1>8, <1>9, Rounds
<1>11. h[N] \in Q[N] /\ N \in 0 .. N
  <2> HIDE DEF Q
  <2> QED
    BY <1>0, <1>10
<1>12. /\ z \in R
       /\ WellSliced /\ Clear(lib.d) /\ z.ok =>
            \A j \in 1 .. N : Bears(z.s.d, AllSlices[j], val)
  BY <1>6, <1>11
<1> QED
  BY <1>12, SlicesListed DEF N, R

(* A slice that bears its part of the value is read as it.                 *)
LEMMA SliceReads ==
  ASSUME tool \in Tools, WellSliced, NEW s, LibOK(s), NEW c \in Slices, Defined(c.path),
         NEW val \in RegValues, Bears(s.d, c, val),
         NEW g, NEW x \in ReadOf(s, c.path, g), x.ret = 1
  PROVE  \A b \in Bits : b < Width(c.path) => TwoState(x.v)[b] = Part(c, val)[b]
<1> DEFINE p == c.path
<1>1. /\ tool \in Tool /\ p \in Path /\ Fits(c) /\ Exists(p) /\ p.obj \in Object
  BY BackdoorAssumption, SliceTypes DEF WellSliced, Fits, Exists
<1>2. ~ (tool \in {"QUESTA", "XCELIUM"} /\ IsA(p, "vhdl") /\ Width(p) > Word)
  <2>1. tool \in {"QUESTA", "XCELIUM"} => Tools \cap {"QUESTA", "XCELIUM"} # {}
    OBVIOUS
  <2>2. Tools \cap {"QUESTA", "XCELIUM"} # {} /\ IsA(p, "vhdl") => Width(p) <= Word
    BY <1>1 DEF Fits
  <2> QED
    BY <1>1, <2>1, <2>2, PathWidth, DesignAssumption
<1>3. Shows(x.v, s.d, p)
  BY <1>1, <1>2, ReadsShow
<1> SUFFICES ASSUME NEW b \in Bits, b < Width(p) PROVE TwoState(x.v)[b] = Part(c, val)[b]
  OBVIOUS
<1>4. b \in 0 .. Width(p) - 1 /\ Width(p) \in Nat
  BY <1>1, PathWidth DEF Bits
<1>5. Position(p, b) \in Named(p) /\ Index(p, Position(p, b)) = b
  <2>1. Index(p, Position(p, b)) = b
    BY <1>1, <1>4 DEF Path, Index, Position
  <2> QED
    BY <1>1, <1>4, <2>1 DEF Exists, Named
<1>6. Content(s.d, p)[b] = Part(c, val)[b]
  BY <1>4, <1>5 DEF Content, Bears
<1>7. Part(c, val)[b] \in {"0", "1"}
  BY PartTypes
<1>8. x.v[b] = Part(c, val)[b]
  BY <1>3, <1>4, <1>6, <1>7 DEF Shows, Logic
<1> QED
  BY <1>7, <1>8 DEF TwoState

(* What a slice adds to the value of its copy.                             *)
LEMMA JoinedBits ==
  ASSUME NEW c \in Slices, NEW v, NEW u \in [Bits -> {"0", "1"}]
  PROVE  /\ Joined(u, c, v) \in [Bits -> {"0", "1"}]
         /\ WellSliced => \A val \in RegValues :
              (\A b \in Bits : b < Width(c.path) => TwoState(v)[b] = Part(c, val)[b])
                => \A b \in Bits : b < NBits =>
                     Joined(u, c, v)[b] = IF Carries(c, b) THEN val[b] ELSE u[b]
<1>1. /\ c \in [path : Path, offset : Int, size : 0 .. MaxWidth]
      /\ MaxWidth \in Nat /\ Bits = 0 .. MaxWidth - 1 /\ NBits \in 1 .. MaxWidth
  BY SliceTypes, DesignAssumption, RegisterAssumption DEF Bits
<1>2. TwoState(v) \in [Bits -> {"0", "1"}]
  BY DEF TwoState
<1>3. \A b \in Bits : b - c.offset \in 0 .. c.size - 1 => b - c.offset \in Bits
  BY <1>1
<1>4. Joined(u, c, v) \in [Bits -> {"0", "1"}]
  BY <1>2, <1>3 DEF Joined
<1>5. ASSUME WellSliced, NEW val \in RegValues, NEW b \in Bits, b < NBits,
             \A k \in Bits : k < Width(c.path) => TwoState(v)[k] = Part(c, val)[k]
      PROVE  Joined(u, c, v)[b] = IF Carries(c, b) THEN val[b] ELSE u[b]
  <2>1. Fits(c) /\ Width(c.path) \in Nat /\ c.path \in Path
    BY <1>1, <1>5, PathWidth DEF WellSliced
  <2>2. CASE c.offset < 0
    <3>1. b < Width(c.path)
      <4>1. NBits <= Width(c.path)
        BY <2>1, <2>2 DEF Fits
      <4> QED
        BY <1>1, <1>5, <2>1, <4>1
    <3>2. TwoState(v)[b] = val[b]
      BY <1>5, <2>2, <3>1 DEF Part
    <3> QED
      BY <2>2, <3>2 DEF Joined, Carries
  <2>3. CASE ~ (c.offset < 0) /\ b - c.offset \in 0 .. c.size - 1
    <3> DEFINE k == b - c.offset
    <3>1. k \in Bits /\ k < c.size /\ k + c.offset = b
      BY <1>1, <1>3, <2>3
    <3>2. k < Width(c.path)
      <4>1. c.size <= Width(c.path)
        BY <2>1, <2>3 DEF Fits
      <4> QED
        BY <1>1, <2>1, <3>1, <4>1
    <3>3. TwoState(v)[k] = Part(c, val)[k]
      BY <1>5, <3>1, <3>2
    <3>4. Part(c, val)[k] = val[b]
      BY <2>3, <3>1 DEF Part
    <3> QED
      BY <2>3, <3>3, <3>4 DEF Joined, Carries
  <2>4. CASE ~ (c.offset < 0) /\ ~ (b - c.offset \in 0 .. c.size - 1)
    BY <2>4 DEF Joined, Carries
  <2> QED
    BY <2>2, <2>3, <2>4
<1> QED
  BY <1>4, <1>5

(* What reading may leave: the design as it is.  What it returns when every *)
(* slice bears its part of val.                                            *)
Reading(d) ==
  {w \in [s : Lib, val : [Bits -> {"0", "1"}], ok : BOOLEAN, finish : BOOLEAN] :
     LibOK(w.s) /\ w.s.d = d}
AllBear(d, val) == \A c \in Slices : Bears(d, c, val)

LEMMA CopyRuns ==
  ASSUME tool \in Tools, \A p \in RegPaths : Defined(p),
         NEW d, NEW start, LibOK(start.s), start.s.d = d, start.ok \in BOOLEAN,
         start.finish \in BOOLEAN, NEW i \in DOMAIN Copies, NEW g,
         NEW z \in ReadCopy(Copies[i], start, g)
  PROVE  /\ z \in Reading(d) /\ (z.ok => start.ok)
         /\ \A val \in RegValues :
              WellSliced /\ AllBear(d, val) /\ z.ok => z.val = Masked(val, NBits)
<1> DEFINE cs == Copies[i]
           N == Len(cs)
           R == {w \in Reading(d) : w.ok => start.ok}
           After(n, W) ==
             UNION {{[s |-> r.s, val |-> Joined(w.val, cs[n], r.v), ok |-> w.ok /\ r.ret = 1,
                      finish |-> w.finish \/ r.finish] :
                       r \in ReadOf(w.s, cs[n].path, g)} : w \in W}
           First0 == {[s |-> start.s, val |-> Zero, ok |-> start.ok, finish |-> start.finish]}
           G == [n \in 1 .. N |-> [W \in SUBSET R |-> After(n, W)]]
           Is(f) == f = [j \in 0 .. N |-> IF j = 0 THEN First0 ELSE After(j, f[j - 1])]
           h == CHOOSE f : Is(f)
           Upto(n, b) == \E j \in 1 .. n : Carries(cs[j], b)
           Got(n, w) ==
             w.ok /\ WellSliced => \A val \in RegValues : AllBear(d, val) =>
               \A b \in Bits : b < NBits =>
                 w.val[b] = IF Upto(n, b) THEN val[b] ELSE "0"
           Q == [n \in 0 .. N |-> {W \in SUBSET R : \A w \in W : Got(n, w)}]
<1>0. /\ N \in Nat /\ DOMAIN cs = 1 .. N
      /\ \A n \in 1 .. N : cs[n] \in Slices /\ Defined(cs[n].path)
  <2>1. cs \in Seq(Slices)
    BY SliceTypes
  <2>2. N \in Nat /\ DOMAIN cs = 1 .. N /\ \A n \in 1 .. N : cs[n] \in Slices
    BY <2>1
  <2> HIDE DEF cs, N
  <2> QED
    BY <2>2, SliceTypes
<1>1. First0 \in SUBSET R
  BY DEF LibOK, Reading, Zero
<1>2. ASSUME NEW n \in 1 .. N, NEW W \in SUBSET R, NEW y \in After(n, W)
      PROVE  /\ y \in R
             /\ \E w \in W : y.ok =>
                  /\ w.ok
                  /\ WellSliced => \A val \in RegValues : AllBear(d, val) =>
                       \A b \in Bits : b < NBits =>
                         y.val[b] = IF Carries(cs[n], b) THEN val[b] ELSE w.val[b]
  <2> DEFINE c == cs[n]
  <2>1. PICK w \in W : \E r \in ReadOf(w.s, c.path, g) :
          y = [s |-> r.s, val |-> Joined(w.val, c, r.v), ok |-> w.ok /\ r.ret = 1,
               finish |-> w.finish \/ r.finish]
    BY <1>2
  <2>2. PICK r \in ReadOf(w.s, c.path, g) :
          y = [s |-> r.s, val |-> Joined(w.val, c, r.v), ok |-> w.ok /\ r.ret = 1,
               finish |-> w.finish \/ r.finish]
    BY <2>1
  <2>3. /\ c \in Slices /\ Defined(c.path) /\ c.path \in Path /\ w \in R
        /\ LibOK(w.s) /\ w.s.d = d /\ w.val \in [Bits -> {"0", "1"}]
        /\ tool \in Tool
    BY <1>0, SliceTypes, BackdoorAssumption DEF Reading
  <2> HIDE DEF c
  <2>4. LibOK(r.s) /\ r.s.d = d
    BY <2>3, Reads
  <2>5. /\ y.s = r.s /\ y.ok = (w.ok /\ r.ret = 1) /\ y.val = Joined(w.val, c, r.v)
        /\ y.finish = (w.finish \/ r.finish)
    BY <2>2
  <2>6. y \in R
    <3>1. Joined(w.val, c, r.v) \in [Bits -> {"0", "1"}]
      BY <2>3, JoinedBits
    <3>2. r.s \in Lib /\ (w.ok /\ r.ret = 1 => start.ok)
      BY <2>3, <2>4 DEF LibOK
    <3> QED
      BY <2>2, <2>4, <3>1, <3>2 DEF Reading
  <2>7. ASSUME y.ok, WellSliced, NEW val \in RegValues, AllBear(d, val)
        PROVE  \A b \in Bits : b < NBits =>
                 y.val[b] = IF Carries(c, b) THEN val[b] ELSE w.val[b]
    <3>1. Bears(w.s.d, c, val) /\ r.ret = 1
      BY <2>3, <2>5, <2>7 DEF AllBear
    <3>2. \A b \in Bits : b < Width(c.path) => TwoState(r.v)[b] = Part(c, val)[b]
      BY <2>3, <2>7, <3>1, SliceReads
    <3> QED
      BY <2>3, <2>5, <2>7, <3>2, JoinedBits
  <2> QED
    BY <2>5, <2>6, <2>7 DEF c
<1>3. Loops(SUBSET R, N, First0, G) # {}
  <2>1. \A n \in 1 .. N : \A W \in SUBSET R : G[n][W] \in SUBSET R
    <3> SUFFICES ASSUME NEW n \in 1 .. N, NEW W \in SUBSET R PROVE After(n, W) \subseteq R
      OBVIOUS
    <3> HIDE DEF R, After
    <3> QED
      BY <1>2
  <2> HIDE DEF G, N, R, First0
  <2> QED
    BY <1>0, <1>1, <2>1, LoopRuns
<1>4. \E f : Is(f)
  <2> HIDE DEF N, R, First0, After
  <2>1. PICK f \in [0 .. N -> SUBSET R] :
          f[0] = First0 /\ \A n \in 1 .. N : f[n] = G[n][f[n - 1]]
    <3> HIDE DEF G
    <3> QED
      BY <1>3 DEF Loops
  <2>2. ASSUME NEW n \in 0 .. N
        PROVE  f[n] = (IF n = 0 THEN First0 ELSE After(n, f[n - 1]))
    <3>1. CASE n # 0
      <4>1. n \in 1 .. N /\ n - 1 \in 0 .. N
        BY <3>1, <1>0
      <4> QED
        BY <4>1, <2>1, <3>1
    <3> QED
      BY <2>1, <3>1
  <2>3. f = [n \in 0 .. N |-> IF n = 0 THEN First0 ELSE After(n, f[n - 1])]
    BY <2>2
  <2> QED
    BY <2>3
<1>5. Is(h)
  <2> HIDE DEF Is
  <2> QED
    BY <1>4
<1>6. ReadCopy(cs, start, g) = {[w EXCEPT !.val = Masked(@, NBits)] : w \in h[N]}
  BY DEF ReadCopy
<1>7. h[0] = First0 /\ \A n \in 1 .. N : h[n] = After(n, h[n - 1])
  <2> HIDE DEF h, N, After, First0
  <2>1. \A n \in 0 .. N : h[n] = (IF n = 0 THEN First0 ELSE After(n, h[n - 1]))
    BY <1>5, Zenon
  <2>2. 0 \in 0 .. N /\ \A n \in 1 .. N : n \in 0 .. N /\ n # 0
    BY <1>0
  <2> QED
    BY <2>1, <2>2, Zenon
<1> HIDE DEF h, N, After, cs
<1>8. h[0] \in Q[0]
  <2>1. \A b : ~ Upto(0, b)
    OBVIOUS
  <2>2. \A w \in First0 : Got(0, w)
    <3> HIDE DEF Upto
    <3> QED
      BY <2>1 DEF Zero
  <2> HIDE DEF Got, R, First0
  <2> QED
    BY <1>0, <1>1, <1>7, <2>2
<1> HIDE DEF R, First0
<1>9. ASSUME NEW n \in 1 .. N, h[n - 1] \in Q[n - 1] PROVE h[n] \in Q[n]
  <2>1. n \in 0 .. N /\ n - 1 \in 0 .. N
    BY <1>0
  <2>2. h[n - 1] \in SUBSET R /\ \A w \in h[n - 1] : Got(n - 1, w)
    <3> HIDE DEF Got
    <3> QED
      BY <1>9, <2>1
  <2>3. h[n] \in SUBSET R
    BY <1>2, <1>7, <2>2
  <2>4. ASSUME NEW y \in h[n] PROVE Got(n, y)
    <3>1. y \in After(n, h[n - 1])
      BY <1>7
    <3>2. PICK w \in h[n - 1] : y.ok =>
                  /\ w.ok
                  /\ WellSliced => \A val \in RegValues : AllBear(d, val) =>
                       \A b \in Bits : b < NBits =>
                         y.val[b] = IF Carries(cs[n], b) THEN val[b] ELSE w.val[b]
      <4> HIDE DEF Got
      <4> QED
        BY <1>2, <2>2, <3>1, Zenon
    <3>3. \A b : Upto(n, b) <=> Upto(n - 1, b) \/ Carries(cs[n], b)
      <4>1. \A j : j \in 1 .. n <=> j \in 1 .. n - 1 \/ j = n
        BY <1>0
      <4> QED
        BY <4>1
    <3>4. Got(n - 1, w)
      BY <2>2
    <3> HIDE DEF Upto
    <3> QED
      BY <3>2, <3>3, <3>4
  <2> HIDE DEF Got
  <2> QED
    BY <2>1, <2>3, <2>4
<1>10. \A n \in 0 .. N : h[n] \in Q[n]
  <2> HIDE DEF Q
  <2> QED
    BY <1>0, <1>8, <1>9, Rounds
<1>11. h[N] \in SUBSET R /\ \A w \in h[N] : Got(N, w)
  <2>1. h[N] \in Q[N] /\ N \in 0 .. N
    <3> HIDE DEF Q
    <3> QED
      BY <1>0, <1>10
  <2> HIDE DEF Got
  <2> QED
    BY <2>1
<1>12. PICK w \in h[N] : z = [w EXCEPT !.val = Masked(@, NBits)]
  BY <1>6 DEF cs
<1>13. /\ w \in Reading(d) /\ (w.ok => start.ok) /\ Got(N, w)
  <2> HIDE DEF Got
  <2> QED
    BY <1>11 DEF R
<1>14. z.s = w.s /\ z.val = Masked(w.val, NBits) /\ z.ok = w.ok /\ z \in Reading(d)
  <2>1. Masked(w.val, NBits) \in [Bits -> {"0", "1"}]
    BY <1>13 DEF Reading, Masked
  <2> QED
    BY <1>12, <1>13, <2>1 DEF Reading
<1>15. ASSUME NEW val \in RegValues, WellSliced, AllBear(d, val), z.ok
       PROVE  z.val = Masked(val, NBits)
  <2>1. \A b \in Bits : b < NBits => w.val[b] = IF Upto(N, b) THEN val[b] ELSE "0"
    BY <1>13, <1>14, <1>15
  <2>2. \A b \in Bits : b < NBits => Upto(N, b) \/ val[b] = "0"
    <3>1. \A b \in Bits : b < NBits => b \in 0 .. NBits - 1
      BY RegisterAssumption DEF Bits
    <3>2. \A b \in 0 .. NBits - 1 : \/ \E j \in DOMAIN cs : Carries(cs[j], b)
                                    \/ val[b] = "0"
      BY <1>15 DEF WellSliced, cs
    <3> QED
      BY <1>0, <3>1, <3>2
  <2>3. \A b \in Bits : b < NBits => w.val[b] = val[b]
    <3> HIDE DEF Upto
    <3> QED
      BY <2>1, <2>2
  <2> QED
    BY <1>14, <2>3 DEF Masked
<1> QED
  BY <1>13, <1>14, <1>15

(* All copies are read, and bear the same value.                           *)
ReadingAll(d) ==
  {w \in [s : Lib, val : [Bits -> {"0", "1"}], ok : BOOLEAN, finish : BOOLEAN,
          same : BOOLEAN] : LibOK(w.s) /\ w.s.d = d}

LEMMA ReadRuns ==
  ASSUME tool \in Tools, LibOK(lib), \A p \in RegPaths : Defined(p),
         NEW g, NEW z \in backdoor_read_copies(g)
  PROVE  /\ LibOK(z.s) /\ z.s.d = lib.d
         /\ \A val \in RegValues :
              WellSliced /\ AllBear(lib.d, val) /\ z.ok =>
                z.same /\ z.val = Masked(val, NBits)
<1> DEFINE N == Len(Copies)
           d == lib.d
           R == ReadingAll(d)
           read(i, start) == {[s |-> r.s, val |-> r.val, ok |-> r.ok, finish |-> r.finish,
                               same |-> TRUE] : r \in ReadCopy(Copies[i], start, g)}
           start0 == [s |-> lib, ok |-> TRUE, finish |-> FALSE]
           First0 == read(1, start0)
           After(n, W) ==
             UNION {IF ~ w.same THEN {w}
                    ELSE {[r EXCEPT !.val = w.val, !.same = r.val = w.val] :
                            r \in read(n, w)} : w \in W}
           G == [n \in 1 .. N - 1 |-> [W \in SUBSET R |-> After(n + 1, W)]]
           Is(f) == f = [i \in 1 .. N |-> IF i = 1 THEN First0 ELSE After(i, f[i - 1])]
           h == CHOOSE f : Is(f)
           Got(w) ==
             w.ok /\ WellSliced => \A val \in RegValues : AllBear(d, val) =>
               w.same /\ w.val = Masked(val, NBits)
           Q == [n \in 0 .. N - 1 |-> {W \in SUBSET R : \A w \in W : Got(w)}]
<1>0. N \in Nat \ {0} /\ DOMAIN Copies = 1 .. N /\ N - 1 \in Nat
  BY SliceTypes
<1>1. ASSUME NEW i \in 1 .. N, NEW start, LibOK(start.s), start.s.d = d,
             start.ok \in BOOLEAN, start.finish \in BOOLEAN, NEW r \in read(i, start)
      PROVE  r \in R /\ Got(r) /\ r.same = TRUE /\ (r.ok => start.ok)
  <2>1. PICK c \in ReadCopy(Copies[i], start, g) :
          r = [s |-> c.s, val |-> c.val, ok |-> c.ok, finish |-> c.finish, same |-> TRUE]
    BY <1>1
  <2>2. /\ c \in Reading(d) /\ (c.ok => start.ok)
        /\ \A val \in RegValues :
             WellSliced /\ AllBear(d, val) /\ c.ok => c.val = Masked(val, NBits)
    <3> HIDE DEF d
    <3> QED
      BY <1>0, <1>1, CopyRuns
  <2> HIDE DEF d
  <2> QED
    BY <2>1, <2>2 DEF Reading, ReadingAll
<1> HIDE DEF read
<1>2. First0 \in SUBSET R /\ \A w \in First0 : Got(w)
  <2>1. LibOK(start0.s) /\ start0.s.d = d /\ start0.ok \in BOOLEAN
        /\ start0.finish \in BOOLEAN
    OBVIOUS
  <2> HIDE DEF start0, R, Got, d
  <2>2. ASSUME NEW w \in read(1, start0) PROVE w \in R /\ Got(w)
    <3>1. 1 \in 1 .. N
      BY <1>0
    <3> QED
      BY <1>1, <2>1, <2>2, <3>1, Zenon
  <2> QED
    BY <2>2
<1>3. ASSUME NEW n \in 1 .. N, NEW W \in SUBSET R, NEW y \in After(n, W)
      PROVE  y \in R /\ ((\A w \in W : Got(w)) => Got(y))
  <2>1. PICK w \in W : y \in IF ~ w.same THEN {w}
                    ELSE {[r EXCEPT !.val = w.val, !.same = r.val = w.val] :
                            r \in read(n, w)}
    BY <1>3
  <2>2. /\ w \in R /\ LibOK(w.s) /\ w.s.d = d /\ w.ok \in BOOLEAN
        /\ w.finish \in BOOLEAN /\ w.val \in [Bits -> {"0", "1"}]
    BY DEF ReadingAll
  <2>3. CASE ~ w.same
    BY <2>1, <2>2, <2>3
  <2>4. CASE w.same
    <3>1. PICK r \in read(n, w) : y = [r EXCEPT !.val = w.val, !.same = r.val = w.val]
      BY <2>1, <2>4
    <3>2. r \in R /\ Got(r) /\ r.same = TRUE /\ (r.ok => w.ok)
      <4> HIDE DEF R, Got, d
      <4> QED
        BY <1>1, <2>2
    <3>3. /\ y.s = r.s /\ y.ok = r.ok /\ y.val = w.val /\ y.same = (r.val = w.val)
          /\ y.finish = r.finish /\ y \in R
      BY <2>2, <3>1, <3>2 DEF ReadingAll
    <3>4. (\A u \in W : Got(u)) => Got(y)
      BY <3>2, <3>3
    <3> QED
      BY <3>3, <3>4
  <2> QED
    BY <2>3, <2>4
<1>4. Loops(SUBSET R, N - 1, First0, G) # {}
  <2>1. \A n \in 1 .. N - 1 : \A W \in SUBSET R : G[n][W] \in SUBSET R
    <3> SUFFICES ASSUME NEW n \in 1 .. N - 1, NEW W \in SUBSET R
                 PROVE  After(n + 1, W) \subseteq R
      OBVIOUS
    <3>1. n + 1 \in 1 .. N
      BY <1>0
    <3> HIDE DEF R, After
    <3> QED
      BY <1>3, <3>1
  <2> HIDE DEF G, N, R, First0
  <2> QED
    BY <1>0, <1>2, <2>1, LoopRuns
<1>5. \E f : Is(f)
  <2> HIDE DEF N, R, First0, After
  <2>1. PICK e \in [0 .. N - 1 -> SUBSET R] :
          e[0] = First0 /\ \A n \in 1 .. N - 1 : e[n] = G[n][e[n - 1]]
    <3> HIDE DEF G
    <3> QED
      BY <1>4 DEF Loops
  <2> DEFINE f == [i \in 1 .. N |-> e[i - 1]]
  <2>2. ASSUME NEW n \in 1 .. N
        PROVE  f[n] = (IF n = 1 THEN First0 ELSE After(n, f[n - 1]))
    <3>1. CASE n # 1
      <4>1. n - 1 \in 1 .. N - 1 /\ n - 1 - 1 \in 0 .. N - 1 /\ n - 1 \in 1 .. N
            /\ (n - 1) + 1 = n
        BY <3>1, <1>0
      <4>2. f[n] = e[n - 1] /\ f[n - 1] = e[n - 1 - 1] /\ e[n - 1 - 1] \in SUBSET R
        BY <4>1
      <4>3. e[n - 1] = G[n - 1][e[n - 1 - 1]]
        BY <2>1, <4>1
      <4>4. G[n - 1][e[n - 1 - 1]] = After(n, e[n - 1 - 1])
        BY <4>1, <4>2
      <4> HIDE DEF f, G
      <4> QED
        BY <3>1, <4>2, <4>3, <4>4
    <3> QED
      BY <2>1, <3>1, <1>0
  <2>3. f = [n \in 1 .. N |-> IF n = 1 THEN First0 ELSE After(n, f[n - 1])]
    BY <2>2
  <2> QED
    BY <2>3
<1>6. Is(h)
  <2> HIDE DEF Is
  <2> QED
    BY <1>5
<1>7. backdoor_read_copies(g) = h[N]
  BY DEF backdoor_read_copies, read
<1>8. h[1] = First0 /\ \A n \in 2 .. N : h[n] = After(n, h[n - 1])
  <2> HIDE DEF h, N, After, First0
  <2>1. \A n \in 1 .. N : h[n] = (IF n = 1 THEN First0 ELSE After(n, h[n - 1]))
    BY <1>6, Zenon
  <2>2. 1 \in 1 .. N /\ \A n \in 2 .. N : n \in 1 .. N /\ n # 1
    BY <1>0
  <2> QED
    BY <2>1, <2>2, Zenon
<1> DEFINE k == [n \in 0 .. N - 1 |-> h[n + 1]]
<1> HIDE DEF h, N, After, R, First0, Got
<1>9. k[0] \in Q[0]
  BY <1>0, <1>2, <1>8
<1>10. ASSUME NEW n \in 1 .. N - 1, k[n - 1] \in Q[n - 1] PROVE k[n] \in Q[n]
  <2>1. n \in 0 .. N - 1 /\ n - 1 \in 0 .. N - 1 /\ n + 1 \in 2 .. N /\ n + 1 \in 1 .. N
        /\ (n - 1) + 1 = n /\ (n + 1) - 1 = n
    BY <1>0
  <2>2. k[n] = h[n + 1] /\ k[n - 1] = h[n] /\ h[n + 1] = After(n + 1, h[n])
    BY <1>8, <2>1
  <2>3. h[n] \in SUBSET R /\ \A w \in h[n] : Got(w)
    BY <1>10, <2>1, <2>2
  <2>4. h[n + 1] \in SUBSET R /\ \A w \in h[n + 1] : Got(w)
    BY <1>3, <2>1, <2>2, <2>3
  <2> QED
    BY <2>1, <2>2, <2>4
<1>11. \A n \in 0 .. N - 1 : k[n] \in Q[n]
  <2> HIDE DEF Q, k
  <2> QED
    BY <1>0, <1>9, <1>10, Rounds
<1>12. h[N] \in SUBSET R /\ \A w \in h[N] : Got(w)
  <2>1. N - 1 \in 0 .. N - 1 /\ (N - 1) + 1 = N
    BY <1>0
  <2> QED
    BY <1>11, <2>1
<1>13. z \in R /\ Got(z)
  BY <1>7, <1>12
<1> QED
  BY <1>13 DEF R, Got, ReadingAll

-----------------------------------------------------------------------------
(* The register's accesses beside the calls                                *)

(* An access to the register takes only what a deposit or a read takes.    *)
LEMMA RegisterStep ==
  ASSUME RInv,
         \/ \E val \in RegValues : backdoor_write(val)
         \/ \E g \in Garbage : backdoor_read(g)
  PROVE  RInv' /\ last' = NoCall
<1>1. tool \in Tools /\ LibOK(lib)
  BY DEF RInv, HInv, HdlTypeOK
<1>2. /\ LibOK(lib') /\ ForcedKept(lib.d, lib'.d)
      /\ UNCHANGED <<tool, hold>> /\ last' = NoCall
  <2>1. ASSUME NEW val \in RegValues, backdoor_write(val)
        PROVE  /\ LibOK(lib') /\ ForcedKept(lib.d, lib'.d)
               /\ UNCHANGED <<tool, hold>> /\ last' = NoCall
    <3>1. PICK w \in backdoor_write_slices(val) : lib' = w.s
      BY <2>1 DEF backdoor_write
    <3>2. LibOK(w.s) /\ ForcedKept(lib.d, w.s.d)
      BY <1>1, <2>1, WriteRuns DEF backdoor_write
    <3> QED
      BY <2>1, <3>1, <3>2 DEF backdoor_write
  <2>2. ASSUME NEW g \in Garbage, backdoor_read(g)
        PROVE  /\ LibOK(lib') /\ ForcedKept(lib.d, lib'.d)
               /\ UNCHANGED <<tool, hold>> /\ last' = NoCall
    <3>1. PICK w \in backdoor_read_copies(g) : lib' = w.s
      BY <2>2 DEF backdoor_read
    <3>2. \A p \in RegPaths : Defined(p)
      BY <2>2 DEF backdoor_read, RegReady
    <3>3. LibOK(w.s) /\ w.s.d = lib.d
      BY <1>1, <3>2, ReadRuns
    <3> QED
      BY <2>2, <3>1, <3>3 DEF backdoor_read, ForcedKept
  <2> QED
    BY <2>1, <2>2
<1>3. HInv'
  BY <1>2, StillHolds DEF RInv
<1>4. Unforced(lib'.d)
  BY <1>2 DEF RInv, Unforced, ForcedKept
<1> QED
  BY <1>2, <1>3, <1>4 DEF RInv, Unforced

CallsKept == [Changes]_vars /\ [WritesLand]_vars /\ [ReadAgreed]_vars
               /\ [CheckedRead]_vars /\ [ReleasedFree]_vars

LEMMA RegNextStep == RInv /\ [RegNext]_regvars => RInv' /\ CallsKept
<1> SUFFICES ASSUME RInv, [RegNext]_regvars PROVE RInv' /\ CallsKept
  OBVIOUS
<1>1. CASE [HdlNext]_vars
  <2>1. HInv' /\ [Changes]_vars
    BY <1>1, Step DEF RInv
  <2>2. Unforced(lib.d)'
    BY <1>1, UnforcedStep
  <2>3. [WritesLand]_vars /\ [ReadAgreed]_vars /\ [CheckedRead]_vars /\ [ReleasedFree]_vars
    BY <1>1, LandStep, ReadStep, CheckStep, ReleaseStep DEF RInv
  <2> QED
    BY <2>1, <2>2, <2>3 DEF RInv, CallsKept
<1>2. CASE \/ \E val \in RegValues : backdoor_write(val)
           \/ \E g \in Garbage : backdoor_read(g)
  <2>1. RInv' /\ last' = NoCall
    BY <1>2, RegisterStep
  <2>2. last'.op = "none"
    BY <2>1 DEF NoCall
  <2>3. Changes /\ WritesLand /\ ReadAgreed /\ CheckedRead /\ ReleasedFree
    BY <2>1, <2>2 DEF Changes, WritesLand, ReadAgreed, CheckedRead, ReleasedFree, Calls
  <2> QED
    BY <2>1, <2>3 DEF CallsKept
<1> QED
  BY <1>1, <1>2 DEF RegNext, Other, regvars, vars

(* What the register was given is in the design, in every slice.           *)
RegInv ==
  /\ RInv
  /\ shadow # {} => \E val \in RegValues :
       shadow = {Masked(val, NBits)} /\ AllBear(lib.d, val)

RegAgreed ==
  reg_last'.op = "read" /\ reg_last'.ok /\ shadow # {} =>
      reg_last'.same /\ reg_last'.val \in shadow

LEMMA ShadowStep ==
  ASSUME WellSliced, RegInv, [RegNext]_regvars
  PROVE  RegInv' /\ [RegAgreed]_regvars
<1>1. /\ RInv' /\ tool \in Tools /\ LibOK(lib)
  BY RegNextStep DEF RegInv, RInv, HInv, HdlTypeOK
<1>2. CASE UNCHANGED regvars
  BY <1>1, <1>2 DEF RegInv, regvars, vars
<1>3. CASE Other
  BY <1>1, <1>3 DEF RegInv, Other, NoAccess, RegAgreed
<1>4. ASSUME NEW val \in RegValues, backdoor_write(val)
      PROVE  RegInv' /\ RegAgreed
  <2>1. PICK w \in backdoor_write_slices(val) :
          /\ lib' = w.s /\ reg_last'.op = "write"
          /\ shadow' = IF w.ok /\ \A p \in RegPaths : lib.d.forced[p.obj] = {}
                       THEN {Masked(val, NBits)} ELSE {}
    BY <1>4 DEF backdoor_write
  <2>2. Clear(lib.d) /\ w.ok => AllBear(w.s.d, val)
    BY <1>1, <1>4, WriteRuns DEF backdoor_write, AllBear
  <2> QED
    BY <1>1, <2>1, <2>2 DEF RegInv, RegAgreed, Clear
<1>5. ASSUME NEW g \in Garbage, backdoor_read(g)
      PROVE  RegInv' /\ RegAgreed
  <2>1. PICK w \in backdoor_read_copies(g) :
          /\ lib' = w.s /\ shadow' = shadow
          /\ reg_last' = [op |-> "read", val |-> w.val, ok |-> w.ok, same |-> w.same]
    BY <1>5 DEF backdoor_read
  <2>2. \A p \in RegPaths : Defined(p)
    BY <1>5 DEF backdoor_read, RegReady
  <2>3. /\ w.s.d = lib.d
        /\ \A val \in RegValues : AllBear(lib.d, val) /\ w.ok =>
             w.same /\ w.val = Masked(val, NBits)
    BY <1>1, <2>2, ReadRuns
  <2> QED
    BY <1>1, <2>1, <2>3 DEF RegInv, RegAgreed
<1> QED
  BY <1>2, <1>3, <1>4, <1>5 DEF RegNext

(* The register accesses of the backdoor leave every promise of the calls  *)
(* as it was, those made before, between and after them: what HdlSpec      *)
(* promises holds of RegSpec, the specification the runs check.            *)
THEOREM RegisterKeeps ==
  RegSpec => /\ []HdlTypeOK /\ []ForceHolds
             /\ OnlyNamedChange /\ WriteLands /\ ReadAgrees
             /\ CheckedPathsRead /\ ReleaseFrees
<1>1. RegInit => RInv
  BY Begin, UnforcedBegin DEF RInv, RegInit
<1>2. RInv => HdlTypeOK /\ ForceHolds
  BY DEF RInv, HInv
<1>3. CallsKept => /\ [Changes]_vars /\ [WritesLand]_vars /\ [ReadAgreed]_vars
                   /\ [CheckedRead]_vars /\ [ReleasedFree]_vars
  BY DEF CallsKept
<1>4. /\ OnlyNamedChange <=> [][Changes]_vars
      /\ WriteLands <=> [][WritesLand]_vars
      /\ ReadAgrees <=> [][ReadAgreed]_vars
      /\ CheckedPathsRead <=> [][CheckedRead]_vars
      /\ ReleaseFrees <=> [][ReleasedFree]_vars
  BY DEF OnlyNamedChange, Changes, WriteLands, WritesLand, ReadAgrees, ReadAgreed,
         CheckedPathsRead, CheckedRead, ReleaseFrees, ReleasedFree
<1> QED
  BY <1>1, <1>2, <1>3, <1>4, RegNextStep, PTL DEF RegSpec

(* A register written and then read through the backdoor reads back as it  *)
(* was written, in all its copies, whichever simulator's file is compiled  *)
(* and however its slices lie over words, parts and languages, if every    *)
(* slice fits the path it is given.                                        *)
THEOREM RegistersReadBack == WellSliced => (RegSpec => RegRoundTrip)
<1> SUFFICES ASSUME WellSliced PROVE RegSpec => RegRoundTrip
  OBVIOUS
<1>1. RegInit => RegInv
  BY Begin, UnforcedBegin DEF RegInv, RInv, RegInit
<1>2. RegInv /\ [RegNext]_regvars => RegInv' /\ [RegAgreed]_regvars
  BY ShadowStep
<1>3. RegRoundTrip <=> [][RegAgreed]_regvars
  BY DEF RegRoundTrip, RegAgreed
<1> QED
  BY <1>1, <1>2, <1>3, PTL DEF RegSpec

=============================================================================
