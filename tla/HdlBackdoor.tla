---------------------------- MODULE HdlBackdoor -----------------------------
(* The HDL access functions that uvm_hdl.svh imports, over the design, with  *)
(* the implementation that src/dpi/uvm_hdl.c includes for the simulator the  *)
(* library was compiled for.  The four answer to the same requirements.      *)
EXTENDS HdlDesign

CONSTANTS
    Tools,      \* the simulators to compile for
    Scopes,     \* the objects a test accesses, one set for each test
    Paths,      \* the paths that are passed
    Written,    \* the values that are passed
    Garbage,    \* what the caller's value may hold before a read
    Moves       \* of an object: the values the design itself may give it

Tool == {"QUESTA", "XCELIUM", "VCS", "VCSMX"}

ASSUME BackdoorAssumption ==
    /\ Tools \subseteq Tool /\ Paths \subseteq Path
    /\ Scopes \subseteq SUBSET (Object \cup {Nowhere})
    /\ Written \subseteq Data /\ Garbage \subseteq Data
    /\ \A o \in Object : Moves[o] \subseteq Values(o)

VARIABLES
    tool,       \* the simulator
    scope,      \* the objects this test accesses
    lib,        \* the design and the static partsel of uvm_hdl_questa.c
    last,       \* the last call and its outcome
    hold,       \* what each forced position was forced to, by the calls so far
    finished    \* tf_dofinish was called

vars == <<tool, scope, lib, last, hold, finished>>

Questa == INSTANCE HdlQuesta
Xcelium == INSTANCE HdlXcelium
Vcs == INSTANCE HdlVcs WITH VCSMX <- FALSE
VcsMX == INSTANCE HdlVcs WITH VCSMX <- TRUE

Unset == "unset"
NoCall == [op |-> "none", path |-> CHOOSE p \in Paths : TRUE, v |-> [b \in Bits |-> "0"],
           ret |-> 1, err |-> FALSE]

HdlInit ==
    /\ tool \in Tools
    /\ scope \in Scopes
    /\ lib = [d |-> [val |-> [o \in Object |-> [i \in Positions(o) |-> "0"]],
                     drv |-> [o \in Object |-> [i \in Positions(o) |-> "0"]],
                     forced |-> [o \in Object |-> {}]],
              partsel |-> FALSE]
    /\ last = NoCall
    /\ hold = [o \in Object |-> [i \in Positions(o) |-> Unset]]
    /\ finished = FALSE

------------------------------------------------------------------------------
(* The calls                                                                 *)

\* The implementations differ in what they leave undefined: a value wider than
\* the caller's is read past its end, VHDL wider than it is written past it;
\* Questa writes past the string that it cuts a part of a VHDL object from.
Defined(p) ==
    /\ IsA(p, "vhdl") => Exists(p) /\ Width(p) <= MaxWidth
    /\ p.sel = "slice" => Width(p) <= MaxWidth
    /\ tool = "QUESTA" /\ IsA(p, "vhdl") /\ p.sel # "all" =>
         Size(p.obj) < Questa!vector_val
    /\ KindOf(p) = "array" => tool \in {"VCS", "VCSMX"}
    /\ KindOf(p) = "integer" => tool = "XCELIUM"
Writable(p) == Defined(p) /\ Width(p) <= MaxWidth

Check(s, p, v) ==
    CASE tool = "QUESTA" -> Questa!uvm_hdl_check_path(s, p, v)
      [] tool = "XCELIUM" -> Xcelium!uvm_hdl_check_path(s, p, v)
      [] tool = "VCS" -> Vcs!uvm_hdl_check_path(s, p, v)
      [] OTHER -> VcsMX!uvm_hdl_check_path(s, p, v)

ReadOf(s, p, v) ==
    CASE tool = "QUESTA" -> Questa!uvm_hdl_read(s, p, v)
      [] tool = "XCELIUM" -> Xcelium!uvm_hdl_read(s, p, v)
      [] tool = "VCS" -> Vcs!uvm_hdl_read(s, p, v)
      [] OTHER -> VcsMX!uvm_hdl_read(s, p, v)

DepositOf(s, p, v) ==
    CASE tool = "QUESTA" -> Questa!uvm_hdl_deposit(s, p, v)
      [] tool = "XCELIUM" -> Xcelium!uvm_hdl_deposit(s, p, v)
      [] tool = "VCS" -> Vcs!uvm_hdl_deposit(s, p, v)
      [] OTHER -> VcsMX!uvm_hdl_deposit(s, p, v)

ForceOf(s, p, v) ==
    CASE tool = "QUESTA" -> Questa!uvm_hdl_force(s, p, v)
      [] tool = "XCELIUM" -> Xcelium!uvm_hdl_force(s, p, v)
      [] tool = "VCS" -> Vcs!uvm_hdl_force(s, p, v)
      [] OTHER -> VcsMX!uvm_hdl_force(s, p, v)

ReleaseOf(s, p, v) ==
    CASE tool = "QUESTA" -> Questa!uvm_hdl_release(s, p, v)
      [] tool = "XCELIUM" -> Xcelium!uvm_hdl_release(s, p, v)
      [] tool = "VCS" -> Vcs!uvm_hdl_release(s, p, v)
      [] OTHER -> VcsMX!uvm_hdl_release(s, p, v)

ReleaseAndReadOf(s, p, v) ==
    CASE tool = "QUESTA" -> Questa!uvm_hdl_release_and_read(s, p, v)
      [] tool = "XCELIUM" -> Xcelium!uvm_hdl_release_and_read(s, p, v)
      [] tool = "VCS" -> Vcs!uvm_hdl_release_and_read(s, p, v)
      [] OTHER -> VcsMX!uvm_hdl_release_and_read(s, p, v)

Returns(op, p, r) ==
    /\ lib' = r.s
    /\ last' = [op |-> op, path |-> p, v |-> r.v, ret |-> r.ret, err |-> r.err]
    /\ finished' = r.finish
    /\ UNCHANGED <<tool, scope>>

Ready(p) == ~ finished /\ p.obj \in scope /\ Defined(p)

uvm_hdl_check_path(p) ==
    /\ Ready(p)
    /\ \E r \in Check(lib, p, NoCall.v) : Returns("check_path", p, r)
    /\ UNCHANGED hold

uvm_hdl_read(p, v) ==
    /\ Ready(p)
    /\ \E r \in ReadOf(lib, p, v) : Returns("read", p, r)
    /\ UNCHANGED hold

uvm_hdl_deposit(p, v) ==
    /\ Ready(p) /\ Writable(p)
    /\ \E r \in DepositOf(lib, p, v) : Returns("deposit", p, r)
    /\ UNCHANGED hold

\* The writes that mean what they say: Questa and Xcelium do not ask whether
\* the simulator accepted one, Questa deposits a part of a VHDL signal, VCSMX
\* writes digits 0 and 1 and counts those beyond the signal.
Exact(p, v) ==
    /\ KindOf(p) = "constant" => tool \in {"VCS", "VCSMX"}
    /\ IsA(p, "vhdl") /\ tool = "QUESTA" => p.sel = "all"
    /\ IsA(p, "vhdl") /\ tool = "VCSMX" =>
         \A b \in Bits : v[b] \in {"0", "1"} /\ (b >= Width(p) => v[b] = "0")

\* What the positions that path p names are expected to hold from now on.
Expect(p, bits) == [hold EXCEPT ![p.obj] = Over(@, bits)]
Asks(p, v) == [i \in Named(p) |-> v[Index(p, i)]]
Frees(p) == [i \in Named(p) |-> Unset]

uvm_hdl_force(p, v) ==
    /\ Ready(p) /\ Writable(p)
    /\ \E r \in ForceOf(lib, p, v) :
         /\ Returns("force", p, r)
         /\ hold' = IF p.obj \notin Object THEN hold
                    ELSE IF r.ret = 1 /\ Exact(p, v) THEN Expect(p, Asks(p, v))
                    ELSE Expect(p, Frees(p))

uvm_hdl_release(p) ==
    /\ Ready(p)
    /\ \E r \in ReleaseOf(lib, p, NoCall.v) : Returns("release", p, r)
    /\ hold' = IF p.obj \in Object THEN Expect(p, Frees(p)) ELSE hold

uvm_hdl_release_and_read(p, v) ==
    /\ Ready(p)
    /\ \E r \in ReleaseAndReadOf(lib, p, v) : Returns("release_and_read", p, r)
    /\ hold' = IF p.obj \in Object THEN Expect(p, Frees(p)) ELSE hold

\* The design runs: a process or a driver gives object o a value.
Drive(o, w) ==
    /\ ~ finished /\ o \in scope
    /\ lib' = [lib EXCEPT !.d = Driven(@, o, w)]
    /\ last' = NoCall
    /\ UNCHANGED <<tool, scope, hold, finished>>

Call == \E p \in Paths :
    \/ uvm_hdl_check_path(p)
    \/ \E v \in Garbage : uvm_hdl_read(p, v)
    \/ \E v \in Written : uvm_hdl_deposit(p, v)
    \/ \E v \in Written : uvm_hdl_force(p, v)
    \/ uvm_hdl_release(p)
    \/ \E v \in Garbage : uvm_hdl_release_and_read(p, v)

HdlNext == Call \/ \E o \in Object : \E w \in Moves[o] : Drive(o, w)

\* The outcome of the last call is not needed to know what can happen next.
View == <<tool, scope, lib, hold, finished>>

HdlSpec == HdlInit /\ [][HdlNext]_vars

------------------------------------------------------------------------------
(* Properties                                                                *)

Calls(op) == last'.op = op /\ last'.ret = 1

\* A read that succeeds returns the bits the path names: whatever the path
\* selects, however many words it takes, whatever was in the caller's value.
\* Of VHDL longer than a word Questa turns the words round and Xcelium reads
\* what it has freed.
ReadAgrees == [][
    Calls("read") =>
        LET p == last'.path IN
        \/ tool \in {"QUESTA", "XCELIUM"} /\ IsA(p, "vhdl") /\ Width(p) > Word
        \/ \A k \in 0 .. Width(p) - 1 :
             Content(lib'.d, p)[k] \in Logic => last'.v[k] = Content(lib'.d, p)[k]]_vars

\* A deposit or a force that succeeds has put every bit where the path says,
\* but for a deposit on what is forced.
WriteLands == [][
    (Calls("deposit") \/ Calls("force")) /\ Exact(last'.path, last'.v) =>
        \A i \in Named(last'.path) :
            \/ last'.op = "deposit" /\ i \in lib'.d.forced[last'.path.obj]
            \/ lib'.d.val[last'.path.obj][i] = last'.v[Index(last'.path, i)]]_vars

\* What was forced stays at its value until it is released, whatever is
\* deposited and whatever the design drives.
ForceHolds ==
    \A o \in Object : \A i \in Positions(o) :
        hold[o][i] # Unset =>
            i \in lib.d.forced[o] /\ lib.d.val[o][i] = hold[o][i]

\* A call changes nothing but what its path names: no other object, no other
\* bit of the same one, and nothing at all when it fails.  The last is not true
\* of the slices that Questa and Xcelium write bit by bit up to the one that is
\* missing, of Xcelium's release_and_read of a slice, of a release_and_read of what
\* the caller's value cannot hold, and of a call that ends the simulation.
Same(d, e, o, i) == d.val[o][i] = e.val[o][i] /\ (i \in d.forced[o] <=> i \in e.forced[o])
OnlyNamedChange ==
    [][last' # NoCall =>
         /\ \A o \in Object : \A i \in Positions(o) :
              (last'.path.obj = o /\ i \in Named(last'.path)) \/ Same(lib.d, lib'.d, o, i)
         /\ last'.ret = 0 =>
              \/ tool \in {"QUESTA", "XCELIUM"} /\ last'.path.sel = "slice"
              \/ last'.op = "release_and_read" /\ Width(last'.path) > MaxWidth
              \/ finished'
              \/ lib'.d = lib.d]_vars

\* After a release that succeeds no bit of the path is forced, and a
\* release_and_read has the value from after the release, as uvm_hdl.svh says.
\* VCS does not read, Questa reads one bit of a Verilog slice.
ReleaseFrees == [][
    Calls("release") \/ Calls("release_and_read") =>
        LET p == last'.path IN
        /\ KindOf(p) # "constant" => Named(p) \cap lib'.d.forced[p.obj] = {}
        /\ \/ last'.op = "release" \/ tool \in {"VCS", "VCSMX"}
           \/ tool = "QUESTA" /\ p.sel = "slice" /\ ~ IsA(p, "vhdl")
           \/ IsA(p, "vhdl") /\ Width(p) > Word
           \/ \A k \in 0 .. Width(p) - 1 :
                Content(lib'.d, p)[k] \in Logic => last'.v[k] = Content(lib'.d, p)[k]]_vars

\* A path that check_path has found can be read (check_path leaves the library
\* as it is): the two look names up in different ways.
CheckedPathsRead == [][
    Calls("check_path") /\ Width(last'.path) <= MaxWidth
        /\ KindOf(last'.path) # "array"
        /\ ~ (tool = "XCELIUM" /\ IsA(last'.path, "vhdl") /\ Width(last'.path) > Word)
        => \A v \in Garbage : \A r \in ReadOf(lib', last'.path, v) : r.ret = 1]_vars
=============================================================================
