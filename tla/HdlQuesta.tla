----------------------------- MODULE HdlQuesta ------------------------------
(* src/dpi/uvm_hdl_questa.c: Verilog through VPI, bit by bit where the path  *)
(* is a part-select, VHDL through the FLI.                                   *)
EXTENDS HdlDesign

uvm_is_vhdl_path(p) == IsA(p, "vhdl")

\* Mutant: the characters are filled in from the right of the word.
string_to_vecval_mirrored(str, n, v) ==
    [b \in Bits |-> IF b >= Chunks(n) * Word THEN v[b]
                    ELSE IF b < n /\ str[b] \in Logic THEN str[b] ELSE "0"]

\* Character c of a string of n, the leftmost is 0; a word is filled from its
\* characters on the left, and the first characters go to word 0.
string_to_vecval(str, n, v) ==
    [b \in Bits |->
        LET j == b \div Word
            k == b % Word
            len == IF n - j * Word < Word THEN n - j * Word ELSE Word
            c == IF k < len THEN str[j * Word + len - 1 - k] ELSE "0" IN
        IF j >= Chunks(n) THEN v[b] ELSE IF c \in Logic THEN c ELSE "0"]

vecval_to_string(n, v) == [c \in 0 .. n - 1 |-> v[n - 1 - c]]

vhdl_array_of_char2string(array) ==
    [c \in DOMAIN array |-> IF array[c] \in Logic THEN array[c] ELSE "-"]

uvm_register_get_vhdl(s, p, v) ==
    LET n == Width(p)
        array == [c \in 0 .. n - 1 |-> Content(s.d, p)[n - 1 - c]] IN
    Done(s, string_to_vecval(vhdl_array_of_char2string(array), n, v))

\* What the digits of a VHDL object a part of which is written are copied to
\* holds; reduced_vector, for a part that is read, holds twice as many.
vector_val == 128

\* Mutant: the whole vector is written where a part was asked for.
uvm_register_set_vhdl_whole(s, p, v, flag) ==
    Done([s EXCEPT !.d = Put(@, p.obj, [i \in Positions(p.obj) |-> v[i]], flag)], v)

\* A bit or a slice is always deposited, as 0 or 1; the bit [i] takes bit i of
\* the value.
uvm_register_set_vhdl(s, p, v, flag) ==
    LET size == Size(p.obj)
        vector == vecval_to_string(size, v)
        digit(i) == IF p.sel = "bit" THEN vector[size - 1 - i]
                    ELSE vector[size - 1 - Index(p, i)]
        bits == [i \in Named(p) |-> IF p.sel = "all" \/ digit(i) = "1"
                                    THEN digit(i) ELSE "0"] IN
    Done([s EXCEPT !.d = Put(@, p.obj, bits,
              IF flag = "release" \/ p.sel = "all" THEN flag ELSE "deposit")], v)

------------------------------------------------------------------------------

uvm_hdl_set_vlog_partsel(s, p, v, flag) ==
    LET n == Reached(p)
        t == IF n = 0 THEN s
             ELSE [s EXCEPT !.d = Put(@, p.obj, Spread(p, n, v), flag)] IN
    IF n = Width(p) THEN Done(t, v) ELSE Refused(t, v)

uvm_hdl_set_vlog(s, p, v, flag) ==
    CASE p.sel = "slice" -> uvm_hdl_set_vlog_partsel(s, p, v, flag)
      [] p.sel # "slice" /\ ~ Handle(p) -> Refused(s, v)
      [] OTHER -> Done([s EXCEPT !.d = Put(@, p.obj, Spread(p, Width(p), v),
                                           flag)], v)

\* The bit read last is stored once more when the next one is missing, and
\* partsel stays set.
uvm_hdl_get_vlog_partsel(s, p, v) ==
    LET n == Reached(p)
        before == IF n = 0 THEN "0" ELSE Content(s.d, p)[n - 1]
        w == [b \in Bits |-> IF b < n THEN Content(s.d, p)[b]
                             ELSE IF b = n /\ n < Width(p) THEN before
                             ELSE v[b]] IN
    IF n = Width(p) THEN Done([s EXCEPT !.partsel = FALSE], w)
    ELSE Refused([s EXCEPT !.partsel = TRUE], w)

uvm_hdl_get_vlog(s, p, v) ==
    LET w == [b \in Bits |-> IF ~ s.partsel /\ b < MaxWidth - Word THEN "0"
                             ELSE v[b]] IN
    CASE p.sel = "slice" -> uvm_hdl_get_vlog_partsel(s, p, w)
      [] p.sel # "slice" /\ ~ Handle(p) -> Refused(s, w)
      [] p.sel # "slice" /\ Handle(p) /\ Width(p) > MaxWidth -> Refused(s, w)
      [] OTHER -> Done(s, Copied(w, Width(p), Content(s.d, p)))

------------------------------------------------------------------------------
(* The functions the package imports; each gives the set of its outcomes.    *)

uvm_hdl_check_path(s, p, v) ==
    {Outcome(s, v, IF uvm_is_vhdl_path(p) \/ Handle(p) THEN 1 ELSE 0,
             FALSE, FALSE)}

uvm_hdl_read(s, p, v) ==
    {IF uvm_is_vhdl_path(p) THEN uvm_register_get_vhdl(s, p, v)
     ELSE uvm_hdl_get_vlog(s, p, v)}

Set(s, p, v, flag) == IF uvm_is_vhdl_path(p)
                      THEN uvm_register_set_vhdl(s, p, v, flag)
                      ELSE uvm_hdl_set_vlog(s, p, v, flag)

uvm_hdl_deposit(s, p, v) == {Set(s, p, v, "deposit")}
uvm_hdl_force(s, p, v) == {Set(s, p, v, "force")}
uvm_hdl_release(s, p, v) == {Set(s, p, v, "release")}

\* The walk over a slice leaves the path at its last bit: only that one is
\* read.
uvm_hdl_release_and_read(s, p, v) ==
    LET r == Set(s, p, v, "release")
        q == IF p.sel = "slice" THEN [p EXCEPT !.sel = "bit", !.rhs = p.lhs]
             ELSE p IN
    {IF uvm_is_vhdl_path(p) THEN uvm_register_get_vhdl(r.s, p, v)
     ELSE IF r.ret = 1 THEN uvm_hdl_get_vlog(r.s, q, v) ELSE r}
=============================================================================
