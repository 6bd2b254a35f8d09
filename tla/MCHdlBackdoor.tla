---------------------------- MODULE MCHdlBackdoor ---------------------------
(* HDL backdoor for TLC: words of two bits, values of two words.             *)
EXTENDS HdlRegister, TLC

CONSTANTS reg, net, sig, wide, fixed, mem, int, part, half, copy, none

A(lang, kind, size) == [lang |-> lang, kind |-> kind, size |-> size]
MyAttr == (reg :> A("verilog", "reg", 3)) @@ (net :> A("verilog", "net", 1))
    @@ (sig :> A("vhdl", "vector", 3)) @@ (wide :> A("verilog", "reg", 5))
    @@ (fixed :> A("verilog", "constant", 2)) @@ (mem :> A("verilog", "array", 2))
    @@ (int :> A("vhdl", "integer", 2)) @@ (copy :> A("verilog", "reg", 4))
    @@ (part :> A("verilog", "reg", 3)) @@ (half :> A("vhdl", "vector", 2))

P(o, sel, l, r) == [obj |-> o, sel |-> sel, lhs |-> l, rhs |-> r]
AllPaths == {P(o, "all", 0, 0) : o \in (Object \cup {none}) \ {part, copy}}
    \cup {P(reg, "bit", 0, 2), P(reg, "slice", 2, 1), P(reg, "slice", 0, 1),
          P(reg, "slice", 3, 1), P(none, "slice", 1, 0), P(reg, "bit", 0, 3),
          P(wide, "bit", 0, 4),
          P(sig, "bit", 0, 1), P(sig, "slice", 2, 1)}

V(a, b, c, d) == [k \in Bits |-> <<a, b, c, d>>[k + 1]]
TwoValues == {V("1", "0", "1", "0"), V("x", "1", "z", "1")}
Dirty == {V("0", "0", "0", "0"), V("1", "x", "1", "1")}
All(o, b) == [i \in Positions(o) |-> b]
Tests == {{reg, none}, {net, fixed, mem, wide}, {sig, net}, {int, none},
          {part, half, copy}}
SomeMoves == [o \in Object |-> CASE Attr[o].kind \in {"reg", "net"} -> {All(o, "1")}
                              [] Attr[o].kind = "vector" -> {All(o, "0"), All(o, "u")}
                              [] OTHER -> {}]

\* A register of four bits: two in the slice of a Verilog variable, two in a
\* VHDL signal, and a copy that is one variable.
Slice(p, off, n) == [path |-> p, offset |-> off, size |-> n]
TwoCopies == <<<<Slice(P(part, "slice", 2, 1), 0, 2), Slice(P(half, "all", 0, 0), 2, 2)>>,
               <<Slice(P(copy, "all", 0, 0), -1, 4)>>>>
RegWrites == {V("1", "0", "1", "0"), V("0", "1", "1", "1")}

\* The premise under which RegRoundTrip is proved is one this register meets.
ASSUME TwoCopiesFit == WellSliced

\* A VHDL vector of more than one word is read with its words in order, as the
\* value a deposit of it had (string_to_vecval of Questa turns them round).
VectorReadAgrees == [][
    Calls("read") /\ KindOf(last'.path) = "vector" =>
        \A k \in 0 .. Width(last'.path) - 1 :
            Content(lib'.d, last'.path)[k] \in Logic =>
                last'.v[k] = Content(lib'.d, last'.path)[k]]_vars
=============================================================================
