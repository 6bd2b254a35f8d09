# A verification project for the UVM core library

The library (`src/src/`, SystemVerilog with a C part in `src/src/dpi/`) is a
framework: a test instantiates its classes, and processes of the test run through
its code at the same simulated time.  Two things are hard in it.  In the
SystemVerilog part it is protocol: many processes meet in one queue, one semaphore
or one counter, any of them may be killed at any blocking point, and the code
relies on what the simulator does between two blocking points and at the end of a
time step.  In the C part it is data: three implementations carry the bits of a
value between words, strings and the objects of a simulator, whole or in part, and
keep state between the calls.  This project models both in TLA+, checks them with
TLC on small instances, and proves the central invariants with TLAPS for every
value of the constants.

## 1. Inventory

### 1.1 Components

| part | state it keeps | operations |
|---|---|---|
| sequencer arbitration and locks (`seq/uvm_sequencer_base.svh`) | `arb_sequence_q`, `lock_list`, `arb_completed`, `reg_sequences`, `m_lock_arb_size`, the arbitration mode | `wait_for_grant`, `m_lock_req`, `unlock`, `m_select_sequence`, `grant_queued_locks`, `set_arbitration`, `kill_sequence`, `stop_sequences`, `m_sequence_exiting` |
| driver handshake (`seq/uvm_sequencer.svh`, `seq/uvm_sequencer_param_base.svh`) | `m_req_fifo` (one item), `sequence_item_requested`, `get_next_item_called`, the process `select_process`, `m_wait_for_item_sequence_id` | `get_next_item`, `try_next_item`, `get`, `peek`, `item_done`, `stop_sequences`, `send_request`, `wait_for_item_done` |
| push sequencer (`seq/uvm_push_sequencer.svh`) | the same fifo | the `run_phase` loop |
| life of a sequence (`seq/uvm_sequence_base.svh`) | `m_sequence_state`, `m_wait_for_grant_semaphore`, the response queue, the starting phase | `start`, `kill`, `do_kill`, `start_item`, `finish_item`, `get_response` |
| objection (`base/uvm_objection.svh`) | counts raised by and below each object, the three lists of drains | `raise_objection`, `drop_objection`, `clear`, `set_propagate_mode`, the background process |
| phases (`base/uvm_phase.svh`, `base/uvm_phase_hopper.svh`, `base/uvm_domain.svh`) | the state of each phase, its jump, its process; the queue of the hopper | `run_phases`, `process_phase` and what it calls, `jump`, `jump_all`, `end_prematurely` |
| registers (`reg/uvm_reg.svh`, `reg/uvm_reg_field.svh`, `reg/uvm_reg_map.svh`) | mirrored and desired values, the lock of a register | `set`, `write`, `read`, `mirror`, `update`, `poke`, `peek`, `predict`, `reset` |
| HDL access (`dpi/uvm_hdl*.c`), and the backdoor of a register on top of it (`reg/uvm_reg.svh`) | the design in the simulator: values, forces; the static `partsel` | `uvm_hdl_check_path`, `uvm_hdl_read`, `uvm_hdl_deposit`, `uvm_hdl_force`, `uvm_hdl_release`, `uvm_hdl_release_and_read`; `backdoor_write`, `backdoor_read` |
| regular expressions (`dpi/uvm_regex.cc`) and their cache (`base/uvm_regex_cache.svh`, `base/uvm_lru_cache.svh`) | compiled expressions on the C heap, a list in order of use | `uvm_re_comp`, `uvm_re_exec`, `uvm_re_free`, `uvm_re_match`, `uvm_re_deglobbed`; `put`, `get`, `evict`, `set_max_size`, `flush` |
| command line (`dpi/uvm_svcmd_dpi.c`, `base/uvm_cmdline_processor.svh`) | the unfolded arguments, how many were handed out | `uvm_dpi_get_next_arg_c`, `new`, `get_arg_matches` |
| register predictor, blocks, memories, `uvm_mem_mam` | pending predictions, watch threads, regions in use | observation of bus cycles, `reserve_region`, `release_region` |
| events, barriers, heartbeat (`base/uvm_event.svh`, `uvm_barrier.svh`, `uvm_heartbeat.svh`) | waiter counts, on/off, the watched components | `wait_*`, `trigger`, `reset`, `start`, `stop` |
| TLM 1 (`tlm1/`) and TLM 2 (`tlm2/`) | fifos, size, blocked getters; TLM 2 keeps none | `put`, `get`, `peek`, their `try_` forms, `flush`, `transport` |
| resource pool, configuration database, factory, callbacks, reporting | tables and queues in order of precedence | `set`, `get`, `wait_modified`, overrides, `add`/`delete`, actions and counts |
| object policies, recording, containers, comparators | open streams, recursion state | `copy`, `compare`, `pack`, `open_recorder` |

`PROJECT.json` lists every part with its sources and whether it is modelled.

### 1.2 How the parts interact

* A **driver** calls the sequencer through a port.  The call selects a request
  (arbitration), marks it completed, and then sleeps on the fifo; the **process
  of the winning sequence** wakes up on a change of `m_lock_arb_size`, takes its
  grant, puts an item into the fifo and sleeps until `item_done`.
* A **sequence** that ends, is killed or whose process disappears is taken out
  of queue and lock list by the sequencer; when it is killed its children go with it.
* **Objections** climb from the object that raises them to `uvm_root`; each
  level whose total has come down to zero drains in a process of its own, and the
  top announces the end to the phase.
* The **hopper** runs one process for each phase.  A phase waits for its
  predecessors and synced phases, runs its bodies, waits until neither it nor
  its siblings object, waits for its peers, kills its bodies, and queues its
  successors — or jumps, and clears what lies behind the target.
* A **register access** takes the lock of the register, goes to the bus or
  the backdoor, and predicts the mirror of its fields.
* The **backdoor** cuts the value of a register into slices and passes each to the
  HDL access functions, which go through the programming interfaces of the
  simulator (VPI, VHPI, FLI or MHPI).
* The **command line processor** fetches the arguments from C and matches them
  with expressions, through a cache when the library is built with one.

### 1.3 What is hard, and what makes each part correct

| part | hard behaviour | correct when |
|---|---|---|
| arbitration | requests disappear while the queue is walked; a winner is killed before it has seen its grant; a sleeper must not miss the change it waits for | locks are nested, nobody granted is blocked, nobody is forgotten, what is over leaves nothing behind, locks and requests are served |
| handshake | the driver is in a call while its winner dies, or while `stop_sequences` clears its flags | one item, one sender; a paired driver never meets a fatal report; `finish_item` returns |
| objections | raises cancel drains in three places while other processes move them | totals add up, nothing drains under an objection, drains run bottom up, the top agrees to the end only in silence, and always does in silence |
| phases | two processes decide about one successor; objections are raised while siblings are awaited; jumps clear phases in use | a phase runs once, after its predecessors; its threads do not outlive it; it ends only unopposed; the run ends |
| HDL access | a value in 32-bit words, in strings with the leftmost bit first, or bit by bit; slices in both directions, past the end of their object; forces beside deposits and the design's own drivers | what is read, written, forced and released is what the path names, and nothing else; a force holds until it is released |
| expressions, arguments | the cache frees what it evicts; keys move in a doubly linked list; files of arguments are nested | one owner for each compiled expression, the list in the order of use, globs that match what they are said to match, arguments in the order they were typed |
| registers | two dozen policies; side effects on neighbours; failing accesses; killed processes | the lock comes back, the mirror follows the hardware, checks report no false mismatch, neighbours are spared |

`PROJECT.json` "hazards" names the lines, and the properties that watch them.  It lists
those of the modelled parts; the following are known and no property covers them yet
(section 6 says which module would):

* `seq/uvm_sequencer.svh:285`: `try_next_item` gives up after some delta cycles and resets
  only some of the flags the next `get_next_item` reads.
* `base/uvm_phase_hopper.svh:663`: the flag of an early end outlives the phase and meets
  its next execution after a jump back.
* `reg/uvm_reg_field.svh:1226`: a field accessed by itself is predicted also when the bus
  has refused the access.
* `seq/uvm_sequence_base.svh:290`, `:1182`: a sequence started again while it runs, or
  killed in any state of `start`; a bounded response queue that drops on overflow.
* `base/uvm_barrier.svh:103`: `reset(0)` replaces the event others wait at.
* `base/uvm_callback.svh:887`: callbacks are walked by index in a queue that changes.
* `reg/uvm_mem_mam.svh:676`: a region is inserted where the list is expected to be sorted.
* `reg/uvm_reg_predictor.svh:190`: a second bus cycle to an address deletes the pending
  prediction and still adds to it.

## 2. Modules

    Queues ─── SequencerArb ─── SequencerDriver          (implements SequencerArb)
       │            │                     └── DriverProofs
       │            └── SequencerArbProofs ─────────┘
       ├─── QueuesProofs
       └─── Objection ── ObjectionProofs                 (implements EndOfTest)
    PhaseGraph ── PhaseHopper ── PhaseHopperProofs       (implements PhaseOrder)
    RegAccess ── RegAccessProofs
    HdlDesign ─┬─ HdlQuesta ─┐
               ├─ HdlXcelium ┼── HdlBackdoor ── HdlRegister ── HdlProofs
               └─ HdlVcs ────┘
    RegexMatch ── RegexCache ── CmdlineArgs ── TextProofs       (both with Queues)
    MC*  one module per component with the instances, and a .cfg per run

An action is the code that runs between two blocking points of one process: a
SystemVerilog process is not pre-empted.  Where a function is too long to be
one action it is cut, and no other process moves in between (`sel.pc = "scan"`
in SequencerArb, `call` in Objection).

**Queues** — what deletions from a SystemVerilog queue leave: the entries at
the kept positions in their old order, without recursion.

**SequencerArb** — the sequencer without its driver.  `arb` holds the queues,
`pc` where each process is, `sel` the selection under way.  `WaitForGrant`,
`LockReq`, `Resume`, `WaitAgain`, `SendRequest`, `Unlock` are the calls of a
process; `StartSequence`, `FinishSequence`, `KillSequence`, `StopSequences`,
`SetRelevant`, `SetArbitration` those of the test.  A body may return while children
and processes it has forked still run: `FinishSequence` takes away what the sequence
itself requests and holds and leaves the children running, and `Killed` says how far a
kill then reaches, since `m_kill` goes down only where parent and child both run.
`SelectBegin`, `Scan*`,
`SelectWake` are `m_select_sequence`, with one step per entry that
`m_choose_next_request` looks at, because the entry may be a zombie whose removal
changes the queue under the loop.  `KillThread` is the death of a forked
process, which the sequencer notices only when it meets the request, and
`SelectKilled` that of the driver's process in the middle of a selection.
A wait on `m_lock_arb_size` is modelled by `snap`: the processes whose copy of
the counter is current, hence asleep.

**SequencerDriver** — adds the driver's side: `Call` begins one of the driver's
calls, `DriverSelect*`/`DriverScan` are the selection inside it, `SubAwait` is
`select_process` looking for another winner when the first has died,
`ItemArrives`, `TryReturn`, `ItemDone`, `PushDone` the end of a call.  `ItemArrives` is
`m_req_fifo.peek`, which returns on any item and kills `select_process` wherever it is,
also within a selection.  `Send`,
`WaitForItemDone`, `ItemDoneSeen` are the sequence's side.  `ArbSpec` states
that the whole implements SequencerArb: it is the specification of SequencerArb
itself, on the variables the two modules share.

**Objection** — `Raise`/`Drop` begin a call and `Propagate` takes it up one
level; `Fork` is the background process, `StartDrain` the guard that picks the
oldest forked context, `DelayOver` and `AllDropped` the drain.  `RaiseAt` searches
the three lists in the order of the code and stops the drain it finds.
**EndOfTest** is what an objection is for; `PromiseSpec` is the refinement.

**PhaseGraph** is the graph with its derived relations, **PhaseHopper** the
processes on it.  `at` is the region a process waits for: `#0` lets everything
that can run go first, `uvm_wait_for_nba_region` also what is behind a `#0`.
`Get` takes a phase from the queue; `Visit` walks predecessors, siblings or peers
as the loops of the code do; `Sync`, `Start`, `Execute`, `Watch`, `Pass`,
`Ready`, `EndEarly`, `End`, `PeersEnd`, `EndedAt`, `CleanupAt`, `Finish`,
`Schedule`, `Successor`, `Put`, `Exit` follow `process_phase`.  `Raise`, `Drop`,
`Jump`, `JumpAll`, `EndPrematurely` are the test.  **PhaseOrder** says what
phasing promises; `OrderSpec` is the refinement.

**RegAccess** — a register of two fields, the hardware behind it, and
processes that call `write`, `read`, `mirror`, `update`, `poke`, `peek` of the
register or of a field, over the bus or the backdoor.  `XpredictX`, `XupdateX`
and `Adjusted` are the tables of the field policies; `HwWritten` and `HwRead`
say what the policies mean for hardware and are written independently of
them.  The variable `env` picks one of the tests of a run in the initial state.

**HdlDesign** is the environment of the C code, as VPI, VHPI, FLI and MHPI show it:
objects with a language, a kind and a size; paths that name an object, a bit or
a slice of it; and the state of a design — values, what the drivers give, what
is forced.  `Put` is what `vpi_put_value` and its relatives do, `Driven` a step of
the design itself.  A bit has one of the four values of an `s_vpi_vecval` pair, a
VHDL position one of the nine of `std_logic`.

**HdlQuesta**, **HdlXcelium**, **HdlVcs** (twice: with and without `VCSMX`) are the three
implementations.  Each function takes the state and the caller's value and
returns the set of its outcomes: state, value, result, whether an error was
reported and whether the simulation was told to end (`tf_dofinish`).  There is more
than one outcome where the C code is undefined: Xcelium reads the language of a
path it has not found from an uninitialised variable (any of three), and reads a
VHDL vector longer than a word from freed memory (arbitrary bits, or the end).

**HdlBackdoor** — the calls that `uvm_hdl.svh` imports, in any order, with the
implementation that `uvm_hdl.c` includes for `tool`, while the design runs
(`Drive`).  `hold` is a history variable: what each position was last forced to.
**HdlRegister** adds `backdoor_write` and `backdoor_read` of a register over its
slices and copies, made of the calls below.  `shadow` is a history variable: the
value last written with success, until something else touches the design.
`WellSliced` says which registers can carry their value at all; the instance of
`hdl_tools` is one (`TwoCopiesFit`).

**RegexMatch** — `uvm_re_deglobbed` character by character, `regcomp` and `regexec` as
far as the expressions of the library go, and `GlobMatches`, the reference, which
deals the letters of a string out to the characters of a glob and is written without
the regular expression.  `regexec` goes over the expression once and keeps the
places of the string that may have been reached, a recursive function.
**RegexCache** — the C heap, its handles, and the LRU
cache with the links of its nodes.  Two fields of `cache` are not
in the code: `recency`, the order of use that the links should have, and `fault`, by
which a followed null handle or a loop without end stops the simulation.  `put`
evicts nothing, although the text over it in `uvm_lru_cache.svh` says it does.
**CmdlineArgs** — the walk over the arguments with the files they
name: a command line is a list of files, each before those that name it
(`LineAssumption`), so that the recursive `walk_level` is a recursive function over
that list.  Further the three static variables that hand them out, the constructor that stops at
the empty string, `get_arg_matches` through the cache.

## 3. Runs

| run | instance | what it shows |
|---|---|---|
| `arb_family` | a parent with a child, and an unrelated sequence that grabs; FIFO and weighted arbitration; the parent's process may die under `disable fork` and leave a zombie in the queue | locks nest, what is over leaves nothing, no completion is slept through, and the arbiter forgets a waiting request only when a body above it returns or a zombie of its family is met |
| `arb_modes` | two sequences of different priority that lock, one of which is sometimes not relevant; FIFO and strict arbitration | no request of a live sequence is lost, every `lock()` returns unless a holder is not relevant |
| `drv_pull` | two processes of one sequence and one of another; `get_next_item`, `get` and `peek` in any order; killed at any point | the fifo never overflows, an item under way stays in the fifo until its own `item_done`, every grant and every `finish_item` returns |
| `drv_stop` | two processes of one sequence and one of another that grabs; `get_next_item`, `try_next_item`, the push loop, `stop_sequences` at any point | queues, locks and grants change only as the arbitration allows, also when the driver's selection is killed in the middle; on the pull interface no second item ever meets a full fifo, whatever is stopped |
| `obj_tree` | root, environment, two agents, a sequence that gets its sequencer later | totals add up, drains are bottom up and never under an objection, the top agrees in silence only, and does |
| `hop_jump` | start_of_simulation, run beside a domain of two phases, extract; one jump back or forward | each phase runs once and in the order of the graph |
| `hop_twin` | two domains with a synced pair; jumps, `jump_all`, early end | a phase ends only unopposed, and the run ends |
| `reg_tests` | every policy beside each of five partners, and the partner policies beside RW; bus and backdoor, failures, a killed reader, two processes, `reset` | the mirror follows the hardware, what a `mirror()` expects is what it reads, neighbours are spared, `update` arrives, the lock comes back |
| `hdl_tools` | four simulators; objects smaller than, as large as and larger than a word or the caller's value, in both languages; whole, by a bit, by a slice in either direction, past the end; a register in two copies, one spread over both languages | reads, writes and releases agree with the path, forces hold, nothing else changes, what `check_path` finds can be read, a register reads back as written |
| `dpi_text` | three tests with globs, regular expressions, one of them the text of the other, what does not compile and what is too long; a cache resized and flushed; nested files of arguments | globs match what they should, one owner for each handle, the list is in the order of use until `m_end` is stale and something is evicted, arguments come in order and are found whatever the cache holds |

Two runs end in a counterexample, each against a sentence of the repository
(`PROJECT.json` "findings"):

* `arb_zombie` — the removal of a request whose process has died takes the
  requests of live processes of the same sequence with it; they sleep for ever.
* `lru_evicts` — `m_update` leaves `m_end` at a node that it moves to the front, so
  shrinking the cache evicts the key used last, and then follows a null handle.

### 3.1 Counterexamples kept beside the runs

These configurations show smaller disagreements.  They are run by hand,
`tlc -config X.cfg M`, and are expected to end in a violation.

| configuration | module | property | what happens |
|---|---|---|---|
| `MCArbStaleIndex` | MCSequencerArb | GrantRespectsLocks | positions noted before a zombie was removed are used after it: an irrelevant sequence is granted |
| `MCDrvStopDone` | MCSequencerDriver | ItemDonePaired | `stop_sequences` flushes the item the driver works on; its paired `item_done` is fatal |
| `MCDrvPush` | MCSequencerDriver | PushGoesOn | the push loop never takes an item out of its fifo; the second one is fatal |
| `MCObjMove` | MCObjection | NoUnderflow | an objection raised before `start()` and dropped after climbs two different paths |
| `MCHopJumpAll` | MCPhaseHopper | InHopperOnce | two phases that jump to the same target both queue it, and its bodies run twice |
| `MCHopJumpRun` | MCPhaseHopper | BodiesBelong | a jump clears a running phase of another domain without killing its threads |
| `MCHopDrain` | MCPhaseHopper | DrainIsAwaited | a phase whose objection drains counts as one without objections |
| `MCRegKilled` | MCRegAccess | LockComesBack | `reset()` puts back the key of a killed writer but not the nesting count, so the next access keeps the key; it leaves the flag of a field's killed poke (two tests; `-continue` shows both) |
| `MCRegUnmappedRead` | MCRegAccess | LockComesBack | a field's read through a map without the register returns with the lock |
| `MCRegSlowPoke` | MCRegAccess | OneHolder | the flag of one process's field poke lets another into the register |
| `MCRegSharedW1CRS` | MCRegAccess | SiblingsSpared | a misspelt `W1CRC` writes a W1CRS neighbour with its own value and clears it |
| `MCHdlWords` | MCHdlBackdoor | VectorReadAgrees | Questa reads the words of a VHDL vector in the wrong order, so what is deposited is not what is read |

One configuration is run by hand and passes: `MCDrvCalls` checks ArbSpec on every call
of the driver together with a forked process.  FifoFree does not hold on that
instance: `stop_sequences` does not reach a forked process whose sequence has returned,
and one that was granted before sends beside the next winner; hence FifoFree is checked
where nothing outlives its sequence.

Three more disagreements among the simulators are visible as exceptions in the
properties of HdlBackdoor, each named where it is made: Questa forces a part of a
VHDL signal by a deposit, which the next driver undoes (`Exact`); Xcelium's
`release_and_read` of a slice releases and then fails (`OnlyNamedChange`); VCS
returns from `release_and_read` without having read (`ReleaseFrees`).

### 3.2 Bounds

| bound | value | why it is enough |
|---|---|---|
| `MaxLocks` | 2 (0 where locks are not the subject) | a held lock and one that must wait, or a nested pair; requests are bounded by the processes |
| `NbaCount` | 1 or 2 | with and without a selection repeated after another NBA region; the wait itself is the guard `Quiet` |
| `Modes` | FIFO and one more per run: weighted or strict | the modes differ only in the choice among available requests |
| sequences, processes | at most 3 each | a holder, a requester it blocks, a requester it does not |
| `MaxStep`, `MaxCount`, `MaxForks` | 2, 3, 3 | a count raised in one call and dropped in two; a context of each object beside one more guard |
| `MaxRaise`, `MaxCalls` | 1, 1 | an objection is raised or not; what one jump or early end may meet |
| `MaxReady` | 1 or 2 | with and without a second round of READY_TO_END |
| `Slots` | 4 or 5 | enough for every phase that can be in process at once: in no reachable state of these runs is a phase queued and no process free |
| fields, bits | 2 fields of one bit | a policy acts on each bit alone; a neighbour is what a field's write can disturb |
| processes of RegAccess | 2 | one that holds the lock, one that comes |
| `Word`, `MaxWidth` | 2, 4 (32, 1024) | an object in the first word, one that fills a word in part, one of two words, one that does not fit; every loop over words runs once and more than once |
| `Paths`, `Scopes` | 18 paths, 5 sets of objects | a slice in either direction, at an end and past it, a bit, a missing bit, nothing; a call touches one object, so objects that share no loop need not meet |
| `Written`, `Garbage` | 2 values each | bits 0, 1, x and z in both words; a caller's value that was clear and one that was not |
| `Handles`, `Sizes` | 3, {0, 1, 2} | keys that are first, last and in between; no limit, and limits that evict one key of two and of three, and two of three |
| `Linkable` | — | a key whose evicted node is still linked from a stale handle is not put again: nodes go by their keys, and two of one key would be one |
| `MaxCalls`, `MaxLength` | 6, 9 (2048) | one call beyond the last argument; an expression that fits, and one whose length is counted too high |
| `Tests` of CmdlineArgs | 3 | files in files, an empty file, an empty argument; a glob and a regular expression of one text; what does not compile |

The outcome of the last call does not influence what can happen next: `VIEW` leaves
it out of the fingerprint in `hdl_tools` and `dpi_text`.  No invariant of these runs
but `ArgsInOrder` reads it, for `given`, which follows from the variables that stay;
the action properties are evaluated on every transition.  The handles of
the C heap are interchangeable: `SYMMETRY` in `dpi_text`, which checks no liveness.

The deadlock check is off: in every run the test may have nothing left to do,
which is no error; that nobody is stuck is a property of its own.

### 3.3 Fairness

The simulator runs every process that can run before time advances, so a
process that can take a step takes one.

* SequencerArb: weak fairness of `SelectBegin`, `Scan` and `SelectWake` — the driver
  keeps asking and a function call is carried through.  Strong fairness of each
  process's `Resume`/`WaitAgain`/`SendRequest`, because a scan disables them for
  its duration without taking the process off the run queue, and of `Unlock`: a
  holder gives its lock back in the end, which is the test's obligation.
* SequencerDriver: the same, and the driver calls, finishes an item it has and
  asks again; a granted process sends.
* Objection: weak fairness of `Propagate`, `Fork`, `StartDrain` and of the drain of
  each object: drain times pass and callbacks return.  Raising and dropping are
  not fair: nothing obliges a test to drop.
* PhaseHopper: weak fairness of each process, of the regions (`Advance`) and of the
  drain.  `RunEnds` assumes in its own premise that objections cease.

## 4. Proofs

All theorems are checked by TLAPS for every value of the constants that the
named assumptions admit (`SeqAssumption`, `DriverAssumption`, `ObjAssumption`,
`GraphAssumption`, `RootAssumption`, `HopperAssumption`, `RegAssumption`,
`DesignAssumption`, `BackdoorAssumption`, `RegisterAssumption`, `LengthAssumption`,
`CacheAssumption`, `ArgsAssumption`, `LineAssumption`): any number of sequences, processes,
families, objects, fields, any hierarchy, any graph of phases, any design, any
word, any strings, expressions and command lines.  TLC evaluates each of them in the runs.  A theorem whose property a
counterexample above refutes states the condition it needs as a premise, with
a name.

* **QueuesProofs**.  `Kept` defines what a queue looks like after deletions
  through cardinalities.  The lemmas show that the k-th kept position exists and
  is monotonic; `KeptOrder` and `KeptHeld` say that the survivors keep
  their order and that nothing is invented.  They rest on `FiniteSetTheorems`.
  `LoopRuns` gives the values of a recursive function over the rounds of a loop, from
  well-foundedness, and `Rounds` is induction along them; the C loops over
  slices, nodes and entries are proved with the two.
* **SequencerArbProofs**.  The inductive invariant is
  `TypeOK /\ LockChain /\ CleanExit`.  The
  crucial case of `LockChain` is `GrantedLock`: a request is granted when every
  holder is an ancestor of the requester or the requester itself, hence
  appending it keeps the chain; deletion keeps it by `KeptOrder`.  For
  `CleanExit` every way out of a sequence is shown to leave only owners that are
  still running: what a kill removes is closed downwards (`KillReach`), because
  ancestors are transitive (`SeqAssumption`), and what it does not reach keeps its place.
  Theorems: `TypeCorrect`, `LocksNest`, `ExitsAreClean`.
  A second part adds to that invariant where the request of a process may
  be.  `WakeNotLost` is not inductive: a process that had left an old completion
  behind could begin to wait with it.  `RInv` rules that out: a request somebody
  waits for is queued or completed, once and not both (`Single`), whoever has one
  there waits for exactly it or is dead (`Mine`), and a completion finds its
  process with an old copy of the counter (`Alert`).
  A third part says what can cost a waiting process its request.  `RequestsStay` is
  about every step and has no premise, forked processes and zombies included: each
  action leaves every request that is still waited for in the queue or completed
  (`Remembers`), but for `FinishSequence` and `ScanZombie`, which remove those of one
  sequence; a kill removes requests of processes that die with it.  `RequestsKept` is the
  invariant that follows if no process dies beside its sequence (`Forked = {}`): a
  sequence that is over or under one that is over is excluded by the property itself,
  and without forked processes no zombie of a running sequence is in the queue, so
  nothing else can remove a request (`NInv`).  `arb_zombie` is the counterexample without
  the premise.  That a grant respects locks and relevance is not claimed: where positions
  move under a selection it is false (`MCArbStaleIndex`), elsewhere it is the guard of
  the choice.  Theorems: `CompletionsWake`, `RequestsStay`, `RequestsKept`.
* **DriverProofs**.  `HandshakeArbitrates` is the refinement, step by step: an
  action of the driver module is one of the arbiter on the shared variables or
  leaves them alone, with the one delicate case that a driver takes the choice
  of a selection and its own state changes in the same step (`Chooses`), and
  that a request which a sequence consumed is no longer there to be reclaimed.  It has
  no premise: an item that arrives while `select_process` selects kills the selection,
  which the arbiter allows at any point (`SelectKilled`).
  `ArbiterSafe` carries the theorems above over to a sequencer with a driver.  The other
  two theorems are about the items, on a pull sequencer that nobody stops
  (`PullOnly`): after `stop_sequences` the item under way is lost (`MCDrvStopDone`), and
  with a forked process the fifo may overflow (section 3.1); that it does not where
  every process ends with its sequence is checked by `drv_stop` and not proved.  The
  invariant `HInv` counts winners: a
  process that was granted, or whose completion is there, and has not sent.
  There is at most one; the fifo is empty while there is one; and a selection
  runs only when there is none, although the winner may be killed while the
  driver waits for its item and another one chosen.  Theorems: `HandshakeArbitrates`,
  `FifoNeverFull`, `ItemsPaired`.
* **ObjectionProofs**.  `TypeOK /\ DrainIsIdle` is inductive by itself.  The
  difficult case is a raise: it stops at the first of three searches that finds a
  context, so it is right only if an object has one context over all three
  lists together, which is what `DrainIsIdle` says.  The sums need more (`AInv`):
  `TotalsAddUp` is about the time between calls, so `AddsUp` says it for every
  level of a climb, with the count that is about to arrive; `Keyed`, that what is
  not zero has its key, or a drop would be refused; `TopQuiet`, that the top is
  over only while its total is zero, which is what lets `set_propagate_mode` change
  the mode only while nothing is counted below the top; `Placed`, that a sequence
  is below its parent or below the top.  From `AddsUp` follows that under a total of
  zero nothing is raised and nothing drains (`ZeroBelow`), hence `DrainsBottomUp`; and
  since every object is below the top (`ObjAssumption`), that a top that
  drains stands for silence (`AllQuiet`), hence the refinement of EndOfTest.  All of
  this holds under `QuietMoves`: a sequence gets its sequencer while nothing is
  raised or drained for it.  Without that the code is wrong (`MCObjMove`); with
  movers that do not object it holds by itself (`MovesAreQuiet`).  `NeverBelowZero`
  adds to `AInv` that what callers hold is what the objection counts for
  them, which a `clear()` breaks for callers that drop afterwards
  (`StaleDrops`).  Sums over finite sets are unfolded by their least
  counterexample (`LeastSet`), without induction.  Theorems: `TypeCorrect`,
  `DrainsAreIdle`, `TotalsAreRight`, `DrainsClimb`, `EndIsAgreed`,
  `NeverBelowZero`, `MovesAreQuiet`.
* **PhaseHopperProofs**.  The types are inductive for every graph and any jumps:
  every loop of a process is over phases it still has to visit, a finite set
  of numbers with a least one (`LeastOf`).  The other theorems hold until a
  jump lands, whatever objects, ends early and is asked to jump: the premise
  `NoneLands` excludes the steps `Finish` that carry a jump out, not `Jump` and
  `JumpAll` themselves; and since it excludes steps, a theorem holds of every run
  up to the first of them.  Beyond it the graph decides: two jumps put a
  phase into the hopper twice (`MCHopJumpAll`), a jump clears a phase that
  runs elsewhere (`MCHopJumpRun`), and one jump back is enough for the former where
  three phases meet in one, since it resets the state by which the second of the
  others would see that the first has queued it (phases 2, 3 and 4 between 1 and 5,
  `Jumps = {<<3, 3>>}`, one round of READY_TO_END: `InHopperOnce` fails after 82 steps).
  In the graphs of `hop_jump` and `hop_twin` one jump is harmless, as TLC checks.  The invariant `PInv` ties the place of a process to the state
  of its phase.  `Led` says in which state the phase of a process is, at each
  point of the process, and what is left of its loop; `Placed`, that each phase
  is queued, in a process, or about to be put by one, once in all; `Passed`,
  that a phase that is done has handed over to its successors or is about to;
  `Known`, that a phase knows its threads as long as they live.  A phase ends
  unopposed because in its last pass over the siblings all of them have begun
  (`Pacing`, a part of `Led`): the pass waits for none and sees all in one step.
  The order of the graph (`OrderSpec`) follows because a process goes on only
  when every predecessor is done, and a phase that is done stays so.
  `RootAssumption` — the common domain precedes every phase — is what makes the
  run's end the end of every phase; `run_phases` starts there
  (`base/uvm_phase_hopper.svh:355`).  Theorems: `HopperTyped`, `HopperOnce`,
  `BodiesKnown`, `PhasesEndUnopposed`, `HopperKeepsOrder`.
* **RegAccessProofs**.  The lock of a register is given back only in tests that
  are `Orderly`: no process is killed in a write or in a poke of a field,
  backdoor tasks take no time, and no field is read through a map without the
  register.  Each of the three conditions is needed: `MCRegKilled`,
  `MCRegSlowPoke`, and `MCRegUnmappedRead` are the
  counterexamples without it.  The invariant is `TypeOK`, `BadAllowed` (a wrong
  map comes only from a test that may name one), and for orderly tests `Custody`:
  the lock is free and nobody is at work, or exactly one process is, or was
  killed there, and owner, count and flag are what its call took.  A nested lock
  is why the count belongs to the invariant.  All tests of `MCRegTests` are
  orderly.  Theorems: `TypeCorrect`, `AccessesExclude`, `LockIsReturned`.

  The values are a second invariant, `MInv`, on top of the first.  Two tables are
  written independently of each other, `XpredictX` of the code and `HwWritten` of
  the hardware; they are compared once (`PredictionIsWriting`), and the only memory
  of a policy is whether a field that is written once has been (`OnlyOnceIsOnce`).
  `Tracks` says for each place of an access what the mirror knows of the hardware:
  before it they agree, between the access and its return they differ by what it did.
  `Close` says how far `set` can take a desired value from the mirrored one — a W1C
  bit is never desired higher than it is, say — and holds of every test; without it
  `UpdateTable` is false, for there are desired values no write can bring.  The
  premise `Predictable` names what the mirror needs: an orderly test, no failing bus
  where a field is accessed by itself (such a field is predicted whatever the status),
  no backdoor write of a field that is written once (the hardware does not count
  it, `m_written` does), and no backdoor read where a read changes or hides the
  value.  `Sparing` names the siblings that a field's write cannot spare, of which
  `MCRegSharedW1CRS` is the counterexample.  All tests of `MCRegTests` are predictable
  and sparing.  What a `mirror()` expects is part of `Tracks`: it is the mirror as long
  as the read is on its way, and `SetDesired` leaves that alone.  Theorems:
  `MirrorIsRight`, `MirrorsAgree`, `UpdatesArrive`, `SiblingsAreSpared`.

* **HdlProofs** is about HdlSpec, with any of the four simulators.  Every function is
  shown to do one of two things: it leaves the design, or it is one `Put` of bits at
  some of the positions the path names (`PutLeaves`); so nothing else changes
  (`Frame`).  The work lies in the bits: that a slice, a string, a word or its
  digits come out at the positions of the path (`SpreadWhole`, `QuestaVhdl`,
  `LastWord`, `DigitsFit`), whatever `Word` and `MaxWidth` are.  `ForceHolds` is
  inductive together with the types (`HInv`): a force that is exact puts the value
  where the path says (`Lands`), a deposit and a driver leave what is forced (`ForcedKept`).
  The proof found two things the small instance does not show: `release_and_read` of
  a path wider than the caller's value releases and then fails, which is now an
  exception in `OnlyNamedChange` and a path of the run; and MHPI must refuse to
  force a VHDL constant for the result 1 to mean what it says.  The results are the
  other half: `Works` relates what a write that returns 1 has put to the value it
  was given, `Shows` what a read returns to the positions of the path, simulator by
  simulator, and `Freed` what a release leaves.  A release is right only
  because a VHDL integer is never forced (`Unforced`, inductive): Xcelium's
  `release_and_read` leaves one alone and returns 1 all the same.  Theorems:
  `HdlTypes`, `ForcesHold`, `OnlyNamedChanges`, `WritesLanded`, `ReadsAgree`,
  `PathsRead`, `ReleasesFree`.

  A second part is about RegSpec, the register on top.  A write is a fold over all
  slices of all copies: `DepositSlice` says what one deposit puts, and `WriteRuns`,
  along the slices, that the positions written so far hold their bits — later
  slices keep them, because slices that share a position give it the same value.  A
  read joins the slices of a copy (`SliceReads`, `JoinedBits`, `CopyRuns`), compares
  the copies (`ReadRuns`) and masks the result.  `ShadowStep` puts the two together:
  as long as `shadow` is not empty, every path of the register holds its part of
  it.  `RegistersReadBack` states the round trip under `WellSliced`, which names
  what the proof needs of a register: no slice is missing or narrower than its part of
  the value, none is VHDL longer than a word in Questa or Xcelium or a part of a VHDL
  object in Questa, slices that share a bit agree on it, and every copy holds every bit
  of the register that is not always 0.  `RegisterKeeps`
  carries the theorems above over to a design that registers also write to and read from.
* **TextProofs** begins with CacheSpec: the calls of RegexCache, and what other
  code does to the cache by searching and by leaving it alone, which is all that
  CmdlineArgs does.  The loops of `evict_to_max` and `flush` are functions of the
  number of rounds, whose values follow from well-foundedness (`LoopRuns`) and along
  which an induction over a set-valued invariant runs (`Rounds`).  `HandlesSound`
  is inductive once each operation is described part by part (`EvictParts`,
  `UpdateParts`, `PutParts`): evictions keep what the cache knows of the other
  keys (`Shrinks`), so what is freed is what it no longer knows, broken
  links or not (`OwnedShrink`).  `ListIsRecency` is a statement about one step:
  `LinkedEvict`, `LinkedUpdate` and `LinkedPut` show that a list in order stays in
  order, and `MaxShrinks` carries that, with the keys that are left, through the
  loop.  Its condition, `EndIsLast`, is needed: an eviction from a list whose
  `m_end` is stale leaves keys that no link reaches (sizes 0 and 1 do not show it,
  a third one does), and `EvictsOldest` is the counterexample without it.
  `CacheUnderText` says that both still hold with the command line processor as
  another user of the cache.

  The arguments.  A text put together of parts has each part at a known place
  (`ConcatRuns`, `RunsAt`), so the array of a file holds a flag and a pointer for a file
  it names and one entry for an argument (`Laid`, `ArgvIs`).  `WalkedIs` follows
  `walk_level` over the items of one array, by the sum of their entries; `WalkIs`
  goes from file to file, and `LeavesAre` finds the same in what was typed.
  The invariant of the calls is `AInv`: what has been handed out is the front of the
  arguments, and `argv_ptr` counts it.

  The expressions.  `GlobShape` says where the characters of a glob are in the
  expression that `uvm_re_deglobbed` makes of it, in every combination of anchors
  written and added.  `CharTaken` compares one character with another: from the
  places reached before it, `regexec` reaches what the reference may deal to it; the
  escaped dot and the repeated one are the cases that matter.  `ShapeMatches` carries
  that along the glob, and `GlobRight` closes it with the anchors.  `MatchesAreRight`
  then needs that what is run was compiled from the text that is asked for: from
  `HandlesSound` for the cache, and for a caller's handle from `HeldAsked`, which makes
  the invariant `MInv`.  The proof found a glob the property used to leave out without
  need, `/` alone, which is in brackets by its letters but not by the code.
  Theorems: `HandlesAreSound`, `ListInOrder`, `CacheUnderText`, `ArgumentsInOrder`,
  `MatchesRight`.

Only model-checked: liveness — `LockServed`, `FinishItemReturns`, `GrantServed`,
`DropsReachTop` and `RunEnds`, since fairness and ENABLED are out of the
prover's reach — and what follows after a jump has landed, which the theorems of
the hopper exclude (`NoneLands`).  Every other property of a passing run is stated by a theorem; one that
needs a condition beyond the assumptions has it as a premise, named above.

## 5. Assumptions, and what is left out

* A process forked by a body makes no further request after its sequence has
  finished; a child whose parent has finished does.  Each `start` of a sequence is a
  sequence of its own, and none starts under a parent that was stopped or has not begun.
* The test keeps to the interfaces: the driver pairs its calls, objections are
  dropped by those who raised them, `reset` of a register comes together with
  a reset of the hardware while no access is under way.
* A callback of a drain raises no objection in its own process; other processes
  may at any time.
* The hopper sees of an objection the total of the top, whether the top drains,
  and its events.  A pass over the siblings is one step up to where it blocks.
* Not modelled of phases: the timeout of the run phase,
  `set_use_ovm_run_semantic`, a jump to a phase neither before nor behind, state
  change callbacks, the order of components within a phase.
* Not modelled of registers: vetoing and value-changing callbacks, `predict` by
  hand, explicit prediction, maps with restricted rights, volatile fields, reset
  values other than 0, bytes and addresses.  A backdoor access always succeeds
  (`RawWrite`, `RawRead`): the returns on UVM_NOT_OK after it are left out
  (`reg/uvm_reg.svh:1765`, `reg/uvm_reg_field.svh:1524`).  An update that has to wait for
  the register may write a value that is stale by then, and no property claims more.  W1 and WO1 are not combined with
  backdoor writes: no source says whether those use up the write.
* HDL access: `vpi_handle_by_name` does not resolve a slice, except in VCS.  A release
  lets the drivers of a net or a VHDL signal win again; `releaseKV` of VHPI does not.
  MHPI lays a string that is too short over the right of a signal.  The caller's path is
  copied, never written to.  Not passed are values wider than the caller's buffer
  and VHDL selections out of range, where the C code writes outside its own
  (`Defined`, `Writable`).  Nor are, for Questa, parts of VHDL objects of 128 positions
  or more: their digits are copied to `vector_val[128]` when a part is written or
  released (`dpi/uvm_hdl_questa.c:527`, `:555`); `reduced_vector[256]` of a read
  (`:415`) holds any part that is left.  Names too long for `path_str[80]` are left out too,
  since a name is a model value.
* A bit of a VHDL object is deposited by Questa from the bit of the value at the index
  of the object, not from bit 0 (`dpi/uvm_hdl_questa.c:563`).  The model does so;
  no property is about it, since `Exact` leaves Questa's parts of VHDL out.
* The library is built without `VCSMX_DO_NOT_ERROR_ON_NULL_HANDLE`.
* Not modelled of HDL access: the variants under `VCSMX_FAST_UVM`, which do not
  compile; `uvm_hdl_force_time`, the stubs, reading and writing as strings, removal of
  `$root.`, handles that are not released.
* Not modelled of expressions: `^` within an expression, `|`, `{`, `}`, bracket
  expressions that are closed (`Modelled`); `deglob = 0` with `/` alone, for which
  `uvm_re_comp` copies -1 characters (`CacheAssumption`).  The order in
  which `flush` evicts is arbitrary.  A `-f` is always followed by a file, and the
  first call of `uvm_dpi_get_next_arg_c` is the library's own, with `init`.
* Responses, recording, reporting, construction, printing: see the plan.

## 6. Plan

The order is by importance; each module comes with its MC module, its run, its
mutants, and proofs where the prover can reach.  Properties of small modules
share a run by an MC module that composes their instances.

1. Proofs for what exists: the hopper beyond the landing of a jump, with the
   conditions on the graph that make it right.
2. `SequenceLife`: the states of `start()`, hooks, kill in each of them, the
   starting-phase objection (dropped exactly once), a second start; composed
   with the data access policies it uses.
3. `ResponseQueue`: depth, overflow, responses by transaction id, late responses.
4. `EventBarrier`: waits, triggers and resets in one time step; an abstract
   barrier of which every round lets exactly the threshold through.
5. `TlmFifo` and `TlmChannel` implementing a bounded queue; the comparators.
6. `RegMap` (an access split into bus cycles, byte enables) against a reference;
   `RegPredictor` composed with RegAccess: the mirror follows with a delay.
7. `MemMam` (regions never overlap, provable), `Factory` (override chains end),
   `ResourcePool`/`ConfigDb` (precedence, wait_modified), `Callbacks` (deletion
   during a walk), `Report` (counts and quit), `Heartbeat`, `Recorder`, the packer.
