---------------------------- MODULE HdlRegister -----------------------------
(* A register that is reached through the backdoor: its value is spread over *)
(* slices, each a path of the design, in one or more copies.                 *)
EXTENDS HdlBackdoor, Sequences

CONSTANTS
    Copies,     \* a sequence of sequences of [path, offset, size]
    NBits,      \* m_n_bits
    RegValues   \* the values that are written

RegData == [Bits -> {"0", "1"}]
Slices == UNION {{Copies[i][j] : j \in DOMAIN Copies[i]} : i \in DOMAIN Copies}
RegPaths == {c.path : c \in Slices}

ASSUME RegisterAssumption ==
    /\ NBits \in 1 .. MaxWidth /\ RegValues \subseteq RegData
    /\ Copies \in Seq(Seq([path : Path, offset : Int, size : 0 .. MaxWidth]))
    /\ Len(Copies) > 0

VARIABLES
    reg_last,   \* the last access to the register
    shadow      \* the value the register was given, none after other writes

regvars == <<vars, reg_last, shadow>>

Zero == [b \in Bits |-> "0"]
TwoState(v) == [b \in Bits |-> IF v[b] = "1" THEN "1" ELSE "0"]
Masked(v, n) == [b \in Bits |-> IF b < n THEN v[b] ELSE "0"]

\* All slices of all copies, in the order in which they are written.
AllSlices == LET f[i \in 0 .. Len(Copies)] ==
                    IF i = 0 THEN <<>> ELSE f[i - 1] \o Copies[i] IN f[Len(Copies)]

\* Mutant: every slice is given the low bits of the value.
PartUnshifted(c, val) ==
    IF c.offset < 0 THEN val
    ELSE [b \in Bits |-> IF b < c.size THEN val[b] ELSE "0"]

\* The part of the value that a slice is given: all of it when the offset is
\* negative.
Part(c, val) ==
    IF c.offset < 0 THEN val
    ELSE [b \in Bits |-> IF b < c.size /\ b + c.offset \in Bits
                         THEN val[b + c.offset] ELSE "0"]

\* A slice that fails does not keep the others from being written.
backdoor_write_slices(val) ==
    LET f[j \in 0 .. Len(AllSlices)] ==
          IF j = 0 THEN {[s |-> lib, ok |-> TRUE, finish |-> FALSE]}
          ELSE UNION {{[s |-> r.s, ok |-> w.ok /\ r.ret = 1,
                        finish |-> w.finish \/ r.finish] :
                         r \in DepositOf(w.s, AllSlices[j].path,
                                         Part(AllSlices[j], val))} : w \in f[j - 1]} IN
    f[Len(AllSlices)]

\* The value of one copy: a slice's bits are put at its offset one by one.
Joined(val, c, v) ==
    IF c.offset < 0 THEN TwoState(v)
    ELSE [b \in Bits |-> IF b - c.offset \in 0 .. c.size - 1
                         THEN TwoState(v)[b - c.offset] ELSE val[b]]

ReadCopy(c, start, g) ==
    LET f[j \in 0 .. Len(c)] ==
          IF j = 0 THEN {[s |-> start.s, val |-> Zero, ok |-> start.ok,
                          finish |-> start.finish]}
          ELSE UNION {{[s |-> r.s, val |-> Joined(w.val, c[j], r.v),
                        ok |-> w.ok /\ r.ret = 1, finish |-> w.finish \/ r.finish] :
                         r \in ReadOf(w.s, c[j].path, g)} : w \in f[j - 1]} IN
    {[w EXCEPT !.val = Masked(@, NBits)] : w \in f[Len(c)]}

\* Copy after copy; the first one gives the value, and the first that differs
\* ends the read.
backdoor_read_copies(g) ==
    LET read(i, start) == {[s |-> r.s, val |-> r.val, ok |-> r.ok,
                            finish |-> r.finish, same |-> TRUE] :
                              r \in ReadCopy(Copies[i], start, g)}
        f[i \in 1 .. Len(Copies)] ==
          IF i = 1 THEN read(1, [s |-> lib, ok |-> TRUE, finish |-> FALSE])
          ELSE UNION {IF ~ w.same THEN {w}
                      ELSE {[r EXCEPT !.val = w.val, !.same = r.val = w.val] :
                               r \in read(i, w)} : w \in f[i - 1]} IN
    f[Len(Copies)]

------------------------------------------------------------------------------

RegReady == ~ finished /\ \A p \in RegPaths : p.obj \in scope /\ Defined(p)

backdoor_write(val) ==
    /\ RegReady /\ \A p \in RegPaths : Writable(p)
    /\ \E w \in backdoor_write_slices(val) :
         /\ lib' = w.s
         /\ finished' = w.finish
         /\ reg_last' = [op |-> "write", val |-> val, ok |-> w.ok, same |-> TRUE]
         /\ shadow' = IF w.ok /\ \A p \in RegPaths : lib.d.forced[p.obj] = {}
                      THEN {Masked(val, NBits)} ELSE {}
    /\ last' = NoCall
    /\ UNCHANGED <<tool, scope, hold>>

backdoor_read(g) ==
    /\ RegReady
    /\ \E w \in backdoor_read_copies(g) :
         /\ lib' = w.s
         /\ finished' = w.finish
         /\ reg_last' = [op |-> "read", val |-> w.val, ok |-> w.ok, same |-> w.same]
    /\ last' = NoCall
    /\ UNCHANGED <<tool, scope, hold, shadow>>

NoAccess == [op |-> "none", val |-> Zero, ok |-> TRUE, same |-> TRUE]

RegInit == HdlInit /\ reg_last = NoAccess /\ shadow = {}

\* Any other call or step of the design makes the shadow worthless.
Other == HdlNext /\ reg_last' = NoAccess
                 /\ shadow' = IF lib' = lib THEN shadow ELSE {}

RegNext ==
    \/ \E val \in RegValues : backdoor_write(val)
    \/ \E g \in Garbage : backdoor_read(g)
    \/ Other

RegSpec == RegInit /\ [][RegNext]_regvars

RegView == <<View, shadow>>

------------------------------------------------------------------------------

\* The paths of a register can carry it: each slice has its bits in the design
\* and is no VHDL that a tool writes or reads in parts or in more than a word;
\* where slices share a bit they give it the same value; every copy has every
\* bit of the register that is not always 0.
Fits(c) ==
    LET p == c.path IN
    /\ Exists(p) /\ KindOf(p) # "constant" /\ Width(p) <= MaxWidth
    /\ (IF c.offset < 0 THEN NBits ELSE c.size) <= Width(p)
    /\ IsA(p, "vhdl") =>
         /\ Tools \cap {"QUESTA", "XCELIUM"} # {} => Width(p) <= Word
         /\ "QUESTA" \in Tools => p.sel = "all"
         /\ "VCSMX" \in Tools /\ c.offset < 0 =>
              \A val \in RegValues : \A b \in Bits : b >= Width(p) => val[b] = "0"
Carries(c, b) == c.offset < 0 \/ b - c.offset \in 0 .. c.size - 1
WellSliced ==
    /\ \A c \in Slices : Fits(c)
    /\ \A c, e \in Slices : c.path.obj = e.path.obj =>
         \A i \in Named(c.path) \cap Named(e.path) : \A val \in RegValues :
             Part(c, val)[Index(c.path, i)] = Part(e, val)[Index(e.path, i)]
    /\ \A i \in DOMAIN Copies : \A b \in 0 .. NBits - 1 :
         \/ \E j \in DOMAIN Copies[i] : Carries(Copies[i][j], b)
         \/ \A val \in RegValues : val[b] = "0"

\* A register that is written and then read through the backdoor reads back
\* as written, in all its copies, through whatever slices, words and languages
\* the value went, unless an access said that it failed.
RegRoundTrip == [][
    reg_last'.op = "read" /\ reg_last'.ok /\ shadow # {} =>
        reg_last'.same /\ reg_last'.val \in shadow]_regvars
=============================================================================
