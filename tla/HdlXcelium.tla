----------------------------- MODULE HdlXcelium -----------------------------
(* src/dpi/uvm_hdl_xcelium.c: Verilog through VPI, VHDL through VHPI, slices *)
(* bit by bit and of Verilog only.                                           *)
EXTENDS HdlDesign

\* vhpi_handle_by_name and vhpiLanguageP.  The language of a path that is not
\* found is read uninitialised.
m_uvm_get_object_handle(p) ==
    IF Handle(p) THEN {"verilog"}
    ELSE IF IsA(p, "vhdl") /\ p.sel = "all" THEN {"vhdl"}
    ELSE {"verilog", "vhdl", "other"}

is_valid_path_slice(p) == p.sel = "slice"

\* Failures of the VHDL functions end the simulation as well (tf_dofinish).
Finish(s, v) == Outcome(s, v, 0, TRUE, TRUE)

------------------------------------------------------------------------------

uvm_hdl_set_vlog(s, p, v, flag) ==
    IF ~ Handle(p) THEN Refused(s, v)
    ELSE Done([s EXCEPT !.d = Put(@, p.obj, Spread(p, Width(p), v), flag)], v)

\* Mutant: the slice is walked from its left bound.
uvm_hdl_set_vlog_partsel_left(s, p, v, flag) ==
    IF Reached(p) < Width(p) THEN Refused(s, v)
    ELSE Done([s EXCEPT !.d = Put(@, p.obj, [i \in Named(p) |-> v[Width(p) - 1 - Index(p, i)]],
                                  flag)], v)

uvm_hdl_set_vlog_partsel(s, p, v, flag) ==
    LET n == Reached(p)
        t == IF n = 0 THEN s
             ELSE [s EXCEPT !.d = Put(@, p.obj, Spread(p, n, v), flag)] IN
    IF n = Width(p) THEN Done(t, v) ELSE Refused(t, v)

\* The walk stops at the first bit that is missing, with what it has stored.
uvm_hdl_get_vlog_partsel(s, p, v) ==
    LET n == Reached(p)
        w == [b \in Bits |-> IF b < n THEN Content(s.d, p)[b] ELSE v[b]] IN
    IF n = Width(p) THEN Done(s, w) ELSE Refused(s, w)

\* All words but the last.
clear_value(v) == [b \in Bits |-> IF b < MaxWidth - Word THEN "0" ELSE v[b]]

uvm_hdl_get_vlog(s, p, v) ==
    IF ~ Handle(p) \/ Width(p) > MaxWidth THEN Refused(s, v)
    ELSE Done(s, Copied(v, Width(p), Content(s.d, p)))

------------------------------------------------------------------------------

\* The value of a std_logic as the library sees it.
Vhpi(b) == CASE b \in {"u", "w", "x"} -> "x" [] b = "z" -> "z"
             [] b \in {"1", "h"} -> "1" [] OTHER -> "0"

uvm_hdl_set_vhdl(s, p, v, flag) ==
    IF ~ IsA(p, "vhdl") \/ KindOf(p) = "integer" THEN Finish(s, v)
    ELSE Done([s EXCEPT !.d = Put(@, p.obj, Spread(p, Width(p), v), flag)], v)

\* A scalar changes word 0 alone; a vector clears the value and fills each word
\* from the left.  The array read is freed at the end of the first word: with a
\* second word what is read is arbitrary, or the program dies.
uvm_hdl_get_vhdl(s, p, v) ==
    LET n == Width(p)
        of(b) == LET j == b \div Word
                     len == IF n - j * Word < Word THEN n - j * Word ELSE Word
                     k == b % Word IN
                 IF k < len THEN Vhpi(Content(s.d, p)[n - 1 - (j * Word + len - 1 - k)])
                 ELSE "0"
        first == [b \in Bits |-> IF b < Chunks(n) * Word THEN of(b) ELSE "0"] IN
    IF ~ IsA(p, "vhdl") THEN {Finish(s, v)}
    ELSE IF KindOf(p) # "vector"
         THEN {Done(s, Copied(v, n, [b \in 0 .. n - 1 |-> Vhpi(Content(s.d, p)[b])]))}
    ELSE IF n <= Word THEN {Done(s, first)}
    ELSE {Finish(s, v)} \cup
         {Done(s, [b \in Bits |-> IF b \in DOMAIN junk THEN junk[b] ELSE first[b]]) :
             junk \in [Word .. n - 1 -> Logic]}

------------------------------------------------------------------------------

uvm_hdl_check_path(s, p, v) ==
    {Outcome(s, v, IF Handle(p) \/ (IsA(p, "vhdl") /\ p.sel = "all") THEN 1
                   ELSE 0, FALSE, FALSE)}

Read(s, p, v, lang) == CASE lang = "verilog" -> {uvm_hdl_get_vlog(s, p, v)}
                         [] lang = "vhdl" -> uvm_hdl_get_vhdl(s, p, v)
                         [] OTHER -> {Refused(s, v)}

uvm_hdl_read(s, p, v) ==
    IF is_valid_path_slice(p) THEN {uvm_hdl_get_vlog_partsel(s, p, clear_value(v))}
    ELSE UNION {Read(s, p, v, l) : l \in m_uvm_get_object_handle(p)}

Set(s, p, v, vlogflag, vhdlflag) ==
    IF is_valid_path_slice(p) THEN {uvm_hdl_set_vlog_partsel(s, p, v, vlogflag)}
    ELSE {CASE l = "verilog" -> uvm_hdl_set_vlog(s, p, v, vlogflag)
            [] l = "vhdl" -> uvm_hdl_set_vhdl(s, p, v, vhdlflag)
            [] OTHER -> Refused(s, v) : l \in m_uvm_get_object_handle(p)}

uvm_hdl_deposit(s, p, v) == Set(s, p, v, "deposit", "deposit")
\* Mutant: VHDL is given the deposit flag.
uvm_hdl_force_deposits(s, p, v) == Set(s, p, v, "force", "deposit")

uvm_hdl_force(s, p, v) == Set(s, p, v, "force", "force")
uvm_hdl_release(s, p, v) == Set(s, p, v, "release", "releaseKV")

\* What the release returned is not looked at, and the slice, left at its last
\* bit, is no slice any more: the release holds, the call fails.
uvm_hdl_release_and_read(s, p, v) ==
    IF is_valid_path_slice(p)
    THEN {[r EXCEPT !.v = clear_value(@), !.ret = 0] :
             r \in uvm_hdl_release(s, p, v)}
    ELSE UNION {LET r == IF l = "vhdl" THEN uvm_hdl_set_vhdl(s, p, v, "releaseKV")
                         ELSE uvm_hdl_set_vlog(s, p, v, "release") IN
                {Outcome(x.s, x.v, x.ret, x.err \/ r.err, x.finish \/ r.finish) :
                    x \in Read(r.s, p, v, l)} : l \in m_uvm_get_object_handle(p)}
=============================================================================
