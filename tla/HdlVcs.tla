------------------------------- MODULE HdlVcs -------------------------------
(* src/dpi/uvm_hdl_vcs.c, compiled with VCS (Verilog through VPI) or with    *)
(* VCSMX (Verilog and VHDL through MHPI); a part-select is the simulator's.  *)
EXTENDS HdlDesign

CONSTANT VCSMX    \* whether it is compiled for the mixed-language simulator

\* vpi_handle_by_name, mhpi_handle_by_name
ByName(p) == IsA(p, "verilog") /\ Exists(p)
mhpiVhpiPli(p) == VCSMX /\ IsA(p, "vhdl") /\ p.sel = "all"
Known(p) == ByName(p) \/ mhpiVhpiPli(p)

\* The path is not found: compiled for either simulator, an error is reported
\* unless VCSMX_DO_NOT_ERROR_ON_NULL_HANDLE is defined, which it is not.
Unknown(s, v) == Refused(s, v)
Silent(s, v) == Outcome(s, v, 0, FALSE, FALSE)

vector_compat_type(p) == KindOf(p) # "array"

uvm_hdl_set_vlog(s, p, v, flag) ==
    IF ~ ByName(p) \/ ~ vector_compat_type(p) \/ KindOf(p) = "constant"
    THEN Refused(s, v)
    ELSE Done([s EXCEPT !.d = Put(@, p.obj, Spread(p, Width(p), v), flag)], v)

uvm_hdl_get_vlog(s, p, v) ==
    IF ~ ByName(p) \/ Width(p) > MaxWidth \/ ~ vector_compat_type(p)
    THEN Refused(s, v)
    ELSE Done(s, Copied(v, Width(p), Content(s.d, p)))

\* Bits enter word j from the right, the word is not cleared: what stood there
\* is shifted up.
Mhdl(b) == IF b \in {"0", "1", "z"} THEN b ELSE "x"
uvm_hdl_get_mhdl(s, p, v) ==
    LET n == Width(p)
        top == n - (Chunks(n) - 1) * Word
        len(j) == IF j = Chunks(n) - 1 THEN top ELSE Word
        w == [b \in Bits |->
                LET j == b \div Word IN
                IF j >= Chunks(n) THEN v[b]
                ELSE IF b % Word < len(j) THEN Mhdl(Content(s.d, p)[b])
                ELSE v[b - len(j)]] IN
    IF n > MaxWidth THEN Refused(s, v) ELSE Done(s, w)

\* How many digits the last word j has: those on its left that are 0 are left
\* out.
uvm_hdl_dtob(v, j) ==
    LET ones == {b \in 1 .. Word - 1 : Aval(v[j * Word + b]) = "1"} IN
    IF ones = {} THEN 1
    ELSE 1 + CHOOSE b \in ones : \A c \in ones : c <= b

\* Of the last word's digits the first ones are taken, as many as fit; the
\* simulator lays a shorter string over the right of the signal.
uvm_hdl_set_mhdl(s, p, v, flag) ==
    LET low == (Chunks(Width(p)) - 1) * Word
        have == uvm_hdl_dtob(v, Chunks(Width(p)) - 1)
        fit == Width(p) - low
        sz == IF fit < have THEN fit ELSE have
        bits == [i \in Positions(p.obj) |->
                   IF i < low THEN Aval(v[i])
                   ELSE IF i - low < sz THEN Aval(v[i + have - sz]) ELSE "0"] IN
    IF KindOf(p) = "constant" THEN Silent(s, v)
    ELSE Done([s EXCEPT !.d = Put(@, p.obj, bits, flag)], v)

------------------------------------------------------------------------------

\* Mutant: the name of the object is looked up, not the part of it.
uvm_hdl_check_path_object(s, p, v) ==
    {Outcome(s, v, IF IsA(p, "verilog") \/ mhpiVhpiPli(p) THEN 1 ELSE 0, FALSE, FALSE)}

uvm_hdl_check_path(s, p, v) ==
    {Outcome(s, v, IF Known(p) THEN 1 ELSE 0, FALSE, FALSE)}

uvm_hdl_read(s, p, v) ==
    {IF ByName(p) THEN uvm_hdl_get_vlog(s, p, v)
     ELSE IF mhpiVhpiPli(p) THEN uvm_hdl_get_mhdl(s, p, v)
     ELSE Unknown(s, v)}

uvm_hdl_deposit(s, p, v) ==
    {IF ByName(p) THEN uvm_hdl_set_vlog(s, p, v, "deposit")
     ELSE IF mhpiVhpiPli(p) THEN uvm_hdl_set_mhdl(s, p, v, "deposit")
     ELSE Unknown(s, v)}

uvm_hdl_force(s, p, v) ==
    {IF ByName(p) THEN uvm_hdl_set_vlog(s, p, v, "force")
     ELSE IF mhpiVhpiPli(p) THEN uvm_hdl_set_mhdl(s, p, v, "force")
     ELSE Unknown(s, v)}

\* Mutant: the value is put back without a release.
ReleasedByDeposit(s, p, v) ==
    Done([s EXCEPT !.d = Put(@, p.obj, [i \in Named(p) |-> "0"], "deposit")], v)

\* mhpi_release_force
Released(s, p, v) ==
    Done([s EXCEPT !.d = Put(@, p.obj, [i \in Named(p) |-> "0"], "release")], v)

uvm_hdl_release(s, p, v) ==
    {IF ByName(p) THEN uvm_hdl_set_vlog(s, p, v, "release")
     ELSE IF mhpiVhpiPli(p) THEN Released(s, p, v)
     ELSE Unknown(s, v)}

\* Nothing is read: the value is what it was before the call.
uvm_hdl_release_and_read(s, p, v) ==
    {IF ~ VCSMX THEN uvm_hdl_set_vlog(s, p, v, "release")
     ELSE IF Known(p) THEN Released(s, p, v) ELSE Unknown(s, v)}
=============================================================================
