----------------------------- MODULE HdlDesign -----------------------------
(* The design that the HDL backdoor of the DPI library reaches, as the       *)
(* programming interfaces of a simulator (VPI, VHPI, FLI, MHPI) show it: the *)
(* objects, the paths that name them or a part of them, what is deposited,   *)
(* forced and released.  It is the environment of src/dpi/uvm_hdl_*.c.       *)
EXTENDS Integers

CONSTANTS
    Object,     \* the variables, nets and signals of the design
    Nowhere,    \* the object of a path that names nothing
    Attr,       \* of an object: its language, its kind and its size in bits
    Word,       \* bits of one s_vpi_vecval of the value (32)
    MaxWidth    \* UVM_HDL_MAX_WIDTH, the bits of the caller's value (1024)

Kind == {"reg", "net", "constant", "array", "vector", "scalar", "integer"}

ASSUME DesignAssumption ==
    /\ Nowhere \notin Object
    /\ Word \in Nat \ {0} /\ MaxWidth \in Nat \ {0} /\ MaxWidth % Word = 0
    /\ Attr \in [Object -> [lang : {"verilog", "vhdl"}, kind : Kind,
                            size : Nat \ {0}]]

\* One (aval, bval) pair: 0 = (0,0), 1 = (1,0), x = (1,1), z = (0,1); and the
\* values of a VHDL std_logic.
Logic == {"0", "1", "x", "z"}
StdLogic == Logic \cup {"u", "w", "l", "h", "-"}

Aval(b) == IF b \in {"1", "x"} THEN "1" ELSE "0"

\* The caller's value: bit k of word j is bit j * Word + k.
Bits == 0 .. MaxWidth - 1
Data == [Bits -> Logic]
Chunks(n) == (n - 1) \div Word + 1

------------------------------------------------------------------------------
(* Paths: a whole object, one bit of it, or a slice [lhs:rhs]                *)

Path == [obj : Object \cup {Nowhere}, sel : {"all", "bit", "slice"},
         lhs : Nat, rhs : Nat]

Size(o) == Attr[o].size
Positions(o) == 0 .. Size(o) - 1
IsA(p, lang) == p.obj \in Object /\ Attr[p.obj].lang = lang
KindOf(p) == IF p.obj \in Object THEN Attr[p.obj].kind ELSE "none"

Width(p) == CASE p.sel = "all" -> IF p.obj \in Object THEN Size(p.obj) ELSE 1
              [] p.sel = "bit" -> 1
              [] p.sel = "slice" /\ p.lhs > p.rhs -> p.lhs - p.rhs + 1
              [] OTHER -> p.rhs - p.lhs + 1

\* Where bit k of the value lies in the object, and the way back: a slice is
\* walked from its right bound towards its left one.
Position(p, k) == CASE p.sel = "all" -> k
                    [] p.sel = "slice" /\ p.lhs > p.rhs -> p.rhs + k
                    [] OTHER -> p.rhs - k
Index(p, i) == CASE p.sel = "all" -> i
                 [] p.sel = "slice" /\ p.lhs > p.rhs -> i - p.rhs
                 [] OTHER -> p.rhs - i

Named(p) == {i \in Positions(p.obj) : Index(p, i) \in 0 .. Width(p) - 1}

\* Every bit the path names is there.
Exists(p) == /\ p.obj \in Object
             /\ \A k \in 0 .. Width(p) - 1 : Position(p, k) \in Positions(p.obj)

\* vpi_handle_by_name: Verilog objects and single bits of them.
Handle(p) == IsA(p, "verilog") /\ Exists(p) /\ p.sel # "slice"

\* The leading bits of a slice that a loop over its bits finds one by one.
Reached(p) == IF ~ IsA(p, "verilog") \/ p.rhs >= Size(p.obj) THEN 0
              ELSE IF p.lhs > p.rhs /\ p.lhs >= Size(p.obj)
                   THEN Size(p.obj) - p.rhs
                   ELSE Width(p)

------------------------------------------------------------------------------
(* The state of the design: the values, the positions that are forced, and   *)
(* what the drivers of a net or a VHDL signal would give it.                 *)

Values(o) == [Positions(o) -> StdLogic]
Design == [val : [Object -> UNION {Values(o) : o \in Object}],
           drv : [Object -> UNION {Values(o) : o \in Object}],
           forced : [Object -> SUBSET Nat]]

Resolved(o) == Attr[o].lang = "vhdl" \/ Attr[o].kind = "net"

\* Function f with the values of g where g is defined.
Over(f, g) == [i \in DOMAIN f |-> IF i \in DOMAIN g THEN g[i] ELSE f[i]]
On(f, at) == [i \in at |-> f[i]]

Free(d, o, at) == at \ d.forced[o]

\* vpi_put_value, mti_ForceSignal, vhpi_put_value, mhpi_force_value: a deposit
\* leaves the forced positions alone, a release lets the drivers win again
\* where there are any, "releaseKV" keeps the value.
Put(d, o, bits, flag) ==
    LET at == DOMAIN bits
        freed == IF Resolved(o) THEN at \cap d.forced[o] ELSE {} IN
    IF Attr[o].kind = "constant" THEN d ELSE
    CASE flag = "deposit" ->
           [d EXCEPT !.val[o] = Over(@, On(bits, Free(d, o, at)))]
      [] flag = "force" ->
           [d EXCEPT !.val[o] = Over(@, bits), !.forced[o] = @ \cup at]
      [] flag = "release" ->
           [d EXCEPT !.val[o] = Over(@, On(d.drv[o], freed)),
                     !.forced[o] = @ \ at]
      [] OTHER -> [d EXCEPT !.forced[o] = @ \ at]

\* A step of the design itself: a process or a driver gives o the value w.
Driven(d, o, w) ==
    [d EXCEPT !.drv[o] = IF Resolved(o) THEN w ELSE @,
              !.val[o] = Over(@, On(w, Free(d, o, Positions(o))))]

\* The bits a path names, and the first n bits of a value laid over them (a
\* release passes a value whose bits do not matter).
Content(d, p) == [k \in 0 .. Width(p) - 1 |-> d.val[p.obj][Position(p, k)]]
Spread(p, n, v) == [i \in {j \in Named(p) : Index(p, j) < n} |->
                       IF Index(p, i) \in Bits THEN v[Index(p, i)] ELSE "x"]

\* A value with words 0 .. Chunks(n)-1 replaced by n bits, zeros above them.
Copied(v, n, bits) == [b \in Bits |-> IF b < n THEN bits[b]
                                      ELSE IF b < Chunks(n) * Word THEN "0"
                                      ELSE v[b]]

------------------------------------------------------------------------------
(* What a call leaves: the library's and the design's state, the caller's    *)
(* value, the result, whether an error was reported, whether the simulation  *)
(* was told to end.                                                          *)

Lib == [d : Design, partsel : BOOLEAN]
Outcome(s, v, ret, err, finish) ==
    [s |-> s, v |-> v, ret |-> ret, err |-> err, finish |-> finish]
Done(s, v) == Outcome(s, v, 1, FALSE, FALSE)
Refused(s, v) == Outcome(s, v, 0, TRUE, FALSE)
=============================================================================
