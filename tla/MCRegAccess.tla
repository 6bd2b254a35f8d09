----------------------------- MODULE MCRegAccess -----------------------------
(* Instances of RegAccess: a register of two fields F and G, and the tests  *)
(* that may access it.                                                      *)
EXTENDS RegAccess
CONSTANTS F, G, t1, t2
TwoFields == {F, G}
TwoThreads == {t1, t2}
Test(p, q) ==
  [acc |-> [f \in TwoFields |-> IF f = F THEN p ELSE q], procs |-> {t1},
   ops |-> {"write", "update", "read", "mirror", "fwrite", "fread"}, on |-> {F},
   single |-> {}, errors |-> TRUE, unmapped |-> FALSE, slow |-> FALSE, kills |-> {}]
Partners == {"RW", "W1C", "W0S", "RC", "WC"}
(* Every policy, accessed by one process over the bus. *)
EveryPolicy == {Test(p, q) : p \in Policies, q \in Partners}
(* Each partner beside a field that is accessed by itself. *)
Spared == {Test("RW", q) : q \in Policies \ {"W1CRS", "W1", "WO1"}}
(* The backdoor, and fields that are accessed by themselves. *)
Backdoor ==
  {[Test(p, "RW") EXCEPT !.ops = {"write", "update", "mirror", "bwrite", "poke",
                                     "peek", "fpoke"}] :
     p \in Policies \ {"W1", "WO1"}}
  \cup {[Test(p, "RW") EXCEPT !.ops = {"bread", "write", "mirror"}] :
     p \in Policies \ (WriteOnly \cup ClearedByRead \cup SetByRead)}
Single ==
  {[Test(p, "RC") EXCEPT !.ops = {"fwrite", "fread", "update"}, !.single = {F},
                         !.errors = FALSE] : p \in Policies}
(* Two processes; readers may be killed. *)
Concurrent ==
  {[Test(p, "RW") EXCEPT !.procs = TwoThreads, !.ops = {"write", "update", "mirror", "fwrite"},
                         !.unmapped = TRUE, !.kills = {"mirror"}] :
     p \in {"RC", "W1T"}}
  \cup {[Test("W1C", "RW") EXCEPT !.procs = TwoThreads,
           !.ops = {"fwrite", "poke", "fpoke", "mirror"}, !.kills = {"mirror"}]}
AllTests == EveryPolicy \cup Spared \cup Backdoor \cup Single \cup Concurrent
(* Tests that show where the code does not keep what it promises. *)
WriterKilled == {[Test("RW", "RW") EXCEPT !.kills = {"write"}]}
PokerKilled == {[Test("RW", "RW") EXCEPT !.ops = {"fpoke"}, !.kills = {"fpoke"}]}
AccessKilled == WriterKilled \cup PokerKilled
UnmappedRead == {[Test("RW", "RW") EXCEPT !.unmapped = TRUE]}
SharedW1CRS == {Test("RW", "W1CRS")}
SlowPoke == {[Test("RW", "RW") EXCEPT !.procs = TwoThreads, !.slow = TRUE,
                                      !.ops = {"poke", "fpoke"}]}
=============================================================================
