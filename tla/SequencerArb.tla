---------------------------- MODULE SequencerArb ----------------------------
(***************************************************************************)
(* Arbitration and locking of uvm_sequencer_base: the queue of requests,   *)
(* the lock list, the arb_completed handshake that resumes a requester,    *)
(* and the removal of sequences that finish, are killed, or lose the       *)
(* process that made a request.                                            *)
(*                                                                         *)
(* A simulation process runs without preemption until it blocks, so an     *)
(* action is the code between two blocking points of one process.  The     *)
(* choice of the next request (m_choose_next_request) is the one function  *)
(* cut into steps, one per iteration of its loop; no other process moves   *)
(* while it runs.                                                          *)
(*                                                                         *)
(* A request is named by the process that made it and its purpose, instead *)
(* of the global counter g_request_id: a process has at most one request   *)
(* it waits for, and consumes its completion before it makes another.      *)
(* Every start of a sequence is a sequence of its own in Seqs.             *)
(***************************************************************************)
EXTENDS Queues

CONSTANTS
  Seqs,        \* the sequences running on this sequencer
  Threads,     \* the processes that execute code of those sequences
  SeqOf,       \* the sequence on whose behalf a process calls the sequencer
  Ancestors,   \* the chain of get_parent_sequence() of each sequence
  Forked,      \* processes forked by a body, which disable fork may kill
  Lockers,     \* processes whose code calls lock() or uses lock_request
  Grabbers,    \* processes whose code calls grab()
  Volatile,    \* sequences that override is_relevant()
  Modes,       \* the values set_arbitration() is called with
  Priority,    \* get_priority() of the sequence of each process
  ByItem,      \* processes that request with start_item, which names a priority
  NbaCount,    \* m_wait_for_sequences_count
  MaxLocks     \* a bound of the model: locks held and asked for

Selector == "selector"   \* the process of the driver, as a waiting process

Arbitrations ==
  {"FIFO", "WEIGHTED", "RANDOM", "STRICT_FIFO", "STRICT_RANDOM", "USER"}

ASSUME SeqAssumption ==
  /\ SeqOf \in [Threads -> Seqs] /\ Selector \notin Threads
  /\ Ancestors \in [Seqs -> SUBSET Seqs]
  /\ \A s \in Seqs : s \notin Ancestors[s]
  /\ \A s \in Seqs : \A a \in Ancestors[s] : Ancestors[a] \subseteq Ancestors[s]
  /\ Forked \subseteq Threads /\ Lockers \subseteq Threads
  /\ Grabbers \subseteq Threads /\ Volatile \subseteq Seqs
  /\ Modes \subseteq Arbitrations /\ ByItem \subseteq Threads
  /\ Priority \in [Threads -> Nat]
  /\ NbaCount \in Nat \ {0} /\ MaxLocks \in Nat

VARIABLES
  arb,       \* q: arb_sequence_q, locks: lock_list, done: arb_completed,
             \* reg: reg_sequences, ids: sequences with an id on this sequencer,
             \* snap: processes whose copy of m_lock_arb_size is current
  pc,        \* where each process is
  sem,       \* m_wait_for_grant_semaphore of each sequence
  state,     \* m_sequence_state, as far as the sequencer can tell
  relevant,  \* sequences whose is_relevant() answers 1
  mode,      \* m_arbitration
  sel        \* the process that selects a sequence for the driver

arbVars == <<arb, pc, sem, state, relevant, mode, sel>>

States == {"created", "running", "stopped", "finished"}
Tags == {"grant", "lock", "prelock"}    \* prelock: wait_for_grant's lock_request
Request == [t : Threads, tag : Tags]
Selection ==
  [pc : {"idle", "scan", "wait", "null", "fatal"}, i : Nat \ {0},
   avail : SUBSET Nat, watch : SUBSET Seqs, tries : Nat]
ArbRecord ==
  [q : Seq(Request), locks : Seq(Seqs), done : SUBSET Request, reg : SUBSET Seqs,
   ids : SUBSET Seqs, snap : SUBSET (Threads \cup {Selector})]

(* The selection, and one whose scan begins before the queue. *)
UnsetZeroBased == [pc |-> "idle", i |-> 0, avail |-> {}, watch |-> {}, tries |-> 0]
Unset == [pc |-> "idle", i |-> 1, avail |-> {}, watch |-> {}, tries |-> 0]

IsLock(r) == r.tag # "grant"
ReqSeq(r) == SeqOf[r.t]
(* is_child called with its arguments exchanged. *)
FamilySwapped(s) == {c \in Seqs : c = s \/ c \in Ancestors[s]}

Family(s) == {c \in Seqs : c = s \/ s \in Ancestors[c]}
Families(S) == UNION {Family(s) : s \in S}
DeadThreads == {t \in Threads : pc[t] = "dead"}
ThreadsOf(S) == {t \in Threads : SeqOf[t] \in S}

(* is_child called with its arguments exchanged. *)
BlockedSwapped(a, s) == \E h \in Held(a.locks) : h # s /\ s \notin Ancestors[h]

(* A lock held by a sequence that is neither s nor an ancestor of s blocks s. *)
Blocked(a, s) == \E h \in Held(a.locks) : h # s /\ h \notin Ancestors[s]

(* m_lock_arb_size is not incremented. *)
UpdatedNever(a) == a

(* m_update_lists: every wait on m_lock_arb_size falls through. *)
Updated(a) == [a EXCEPT !.snap = {}]

Registered(a, s) ==
  [a EXCEPT !.reg = IF s \in a.ids THEN @ ELSE @ \cup {s}, !.ids = @ \cup {s}]

(* The loop over lock_list is missing. *)
RemovedKeepsLocks(a, S) ==
  LET keepQ == {i \in DOMAIN a.q : ReqSeq(a.q[i]) \notin Families(S)}
  IN  [a EXCEPT !.q = Kept(a.q, keepQ), !.reg = @ \ S,
                !.snap = IF keepQ = DOMAIN a.q THEN @ ELSE {}]

(* remove_sequence_from_queues for each sequence of S. *)
Removed(a, S) ==
  LET gone == Families(S)
      keepQ == {i \in DOMAIN a.q : ReqSeq(a.q[i]) \notin gone}
      keepL == {i \in DOMAIN a.locks : a.locks[i] \notin gone}
  IN  [a EXCEPT !.q = Kept(a.q, keepQ),
                !.locks = Kept(a.locks, keepL),
                !.reg = @ \ S,
                !.snap = IF keepQ = DOMAIN a.q /\ keepL = DOMAIN a.locks
                         THEN @ ELSE {}]

(* The sequences whose lock request was made by a process now dead. *)
LockZombies(a) ==
  {ReqSeq(r) : r \in {x \in Held(a.q) : IsLock(x) /\ x.t \in DeadThreads}}

(* The grant of a lock does not tell the process that waits for it. *)
GrantedLockUncompleted(a, i) ==
  Updated([a EXCEPT !.locks = Append(@, ReqSeq(a.q[i])), !.q = Deleted(a.q, i)])

GrantedLock(a, i) ==
  Updated([a EXCEPT !.locks = Append(@, ReqSeq(a.q[i])),
                    !.done = @ \cup {a.q[i]},
                    !.q = Deleted(a.q, i)])

(* grant_queued_locks: drop the zombies, then grant the first lock request *)
(* that no held lock blocks, wherever it is in the queue.                  *)
Unblocked(a) == {i \in DOMAIN a.q : IsLock(a.q[i]) /\ ~Blocked(a, ReqSeq(a.q[i]))}

LocksGranted(a) ==
  LET b == Removed(a, LockZombies(a))
  IN  IF Unblocked(b) = {} THEN b ELSE GrantedLock(b, First(Unblocked(b)))

(* A process starts to wait for request r: it samples m_lock_arb_size and *)
(* finds the request either completed, and returns, or not.               *)
Sampled(a, t) == [a EXCEPT !.snap = @ \cup {t}]
Consumed(a, r) == [a EXCEPT !.done = @ \ {r}]

-----------------------------------------------------------------------------
Init ==
  /\ arb = [q |-> <<>>, locks |-> <<>>, done |-> {}, reg |-> {}, ids |-> {},
            snap |-> {}]
  /\ pc = [t \in Threads |-> "run"]
  /\ sem = [s \in Seqs |-> 0]
  /\ state = [s \in Seqs |-> "created"]
  /\ relevant = Seqs
  /\ mode = "FIFO"
  /\ sel = Unset

(* start() registers a sequence; a body starts the children, or a process *)
(* that outlives the body that forked it.                                 *)
StartSequence(s) ==
  /\ state[s] = "created"
  /\ \A a \in Ancestors[s] : state[a] \in {"running", "finished"}
  /\ state' = [state EXCEPT ![s] = "running"]
  /\ arb' = Registered(arb, s)
  /\ UNCHANGED <<pc, sem, relevant, mode, sel>>

(* Sequence code runs only between two calls of the selecting process. *)
Runs(t) ==
  /\ pc[t] = "run"
  /\ state[SeqOf[t]] = "running"

(* Nothing in the code limits how often a sequence locks; the model does. *)
LockRoom ==
  Len(arb.locks) + Cardinality({r \in Held(arb.q) : IsLock(r)}) < MaxLocks

(* wait_for_grant up to its wait, with or without lock_request. *)
WaitForGrant(t, lockRequest) ==
  LET a == Registered(arb, SeqOf[t])
      new == IF lockRequest
             THEN <<[t |-> t, tag |-> "prelock"], [t |-> t, tag |-> "grant"]>>
             ELSE <<[t |-> t, tag |-> "grant"]>>
  IN  /\ Runs(t)
      /\ lockRequest => t \in Lockers /\ LockRoom
      /\ arb' = Sampled(Updated([a EXCEPT !.q = @ \o new]), t)
      /\ pc' = [pc EXCEPT ![t] = "waitGrant"]
      /\ UNCHANGED <<sem, state, relevant, mode, sel>>

(* m_lock_req: lock appends the request, grab puts it in front; a request *)
(* that can be granted at once is, and the call returns without blocking. *)
Queued(a, r, grab) ==
  IF grab THEN Updated([a EXCEPT !.q = <<r>> \o @]) ELSE [a EXCEPT !.q = @ \o <<r>>]

LockReq(t, grab) ==
  LET r == [t |-> t, tag |-> "lock"]
      a == LocksGranted(Queued(Registered(arb, SeqOf[t]), r, grab))
  IN  /\ Runs(t) /\ LockRoom
      /\ t \in (IF grab THEN Grabbers ELSE Lockers)
      /\ IF r \in a.done
         THEN arb' = Consumed(a, r) /\ UNCHANGED pc
         ELSE arb' = Sampled(a, t) /\ pc' = [pc EXCEPT ![t] = "waitLock"]
      /\ UNCHANGED <<sem, state, relevant, mode, sel>>

(* m_wait_for_arbitration_completed after m_lock_arb_size has changed. *)
Awaited(t) == [t |-> t, tag |-> IF pc[t] = "waitGrant" THEN "grant" ELSE "lock"]

Waiting(t) == pc[t] \in {"waitGrant", "waitLock"}

Resume(t) ==
  /\ Waiting(t)
  /\ t \notin arb.snap
  /\ Awaited(t) \in arb.done
  /\ arb' = Consumed(arb, Awaited(t))
  /\ IF pc[t] = "waitGrant"
     THEN /\ pc' = [pc EXCEPT ![t] = "granted"]
          /\ sem' = [sem EXCEPT ![SeqOf[t]] = @ + 1]
     ELSE pc' = [pc EXCEPT ![t] = "run"] /\ UNCHANGED sem
  /\ UNCHANGED <<state, relevant, mode, sel>>

WaitAgain(t) ==
  /\ Waiting(t)
  /\ t \notin arb.snap
  /\ Awaited(t) \notin arb.done
  /\ arb' = Sampled(arb, t)
  /\ UNCHANGED <<pc, sem, state, relevant, mode, sel>>

(* send_request: the semaphore check, then locks are granted. *)
SendRequest(t) ==
  /\ pc[t] = "granted"
  /\ sem[SeqOf[t]] >= 1
  /\ sem' = [sem EXCEPT ![SeqOf[t]] = @ - 1]
  /\ pc' = [pc EXCEPT ![t] = "run"]
  /\ arb' = LocksGranted(arb)
  /\ UNCHANGED <<state, relevant, mode, sel>>

(* m_unlock_req: the first entry of the sequence, if it holds a lock. *)
HeldAt(s) == {i \in DOMAIN arb.locks : arb.locks[i] = s}

Unlock(t) ==
  /\ Runs(t)
  /\ HeldAt(SeqOf[t]) # {}
  /\ arb' = Updated(LocksGranted(
              [arb EXCEPT !.locks = Deleted(@, First(HeldAt(SeqOf[t])))]))
  /\ UNCHANGED <<pc, sem, state, relevant, mode, sel>>

(* disable fork, or the natural end, of a process a body has forked. *)
KillThread(t) ==
  /\ t \in Forked
  /\ pc[t] # "dead" /\ state[SeqOf[t]] # "created"
  /\ pc' = [pc EXCEPT ![t] = "dead"]
  /\ UNCHANGED <<arb, sem, state, relevant, mode, sel>>

(* kill_sequence for each sequence of S.  m_kill goes down children_array, *)
(* where a child stays as long as it and its parent run; the processes of  *)
(* the others below S die as subprocesses of those it kills.               *)
Killed(S) ==
  S \cup {s \in Families(S) :
           \A a \in ({s} \cup (Ancestors[s] \cap Families(S))) \ S :
             state[a] = "running"}

Kill(S) ==
  /\ arb' = [Removed(arb, Killed(S)) EXCEPT !.ids = @ \ Killed(S)]
  /\ pc' = [t \in Threads |-> IF SeqOf[t] \in Families(S) THEN "dead" ELSE pc[t]]
  /\ state' = [s \in Seqs |-> IF s \in Killed(S) THEN "stopped" ELSE state[s]]
  /\ UNCHANGED <<sem, relevant, mode, sel>>

KillSequence(s) == state[s] \in {"running", "finished"} /\ Kill({s})

StopSequences == arb.reg # {} /\ Kill(arb.reg)

(* The body of s returns (clean_exit_sequence).  Processes it has forked  *)
(* and not joined live on, and so do children they have started; what any *)
(* of them requests or holds at this moment is taken away (SEQFINERR).    *)
FinishSequence(s) ==
  /\ state[s] = "running"
  /\ \A t \in ThreadsOf({s}) \ Forked : pc[t] \in {"run", "dead"}
  /\ arb' = [Removed(arb, {s}) EXCEPT !.ids = @ \ {s}]
  /\ pc' = [t \in Threads |->
              IF SeqOf[t] = s /\ pc[t] = "run" THEN "dead" ELSE pc[t]]
  /\ state' = [state EXCEPT ![s] = "finished"]
  /\ UNCHANGED <<sem, relevant, mode, sel>>

(* A sequence changes its answer to is_relevant(). *)
SetRelevant(s) ==
  /\ s \in Volatile
  /\ relevant' = IF s \in relevant THEN relevant \ {s} ELSE relevant \cup {s}
  /\ UNCHANGED <<arb, pc, sem, state, mode, sel>>

SetArbitration(m) ==
  /\ mode' = m
  /\ UNCHANGED <<arb, pc, sem, state, relevant, sel>>

-----------------------------------------------------------------------------
(* m_select_sequence and m_choose_next_request, run by the driver's process *)
(* once wait_for_sequences() has let the NBA region pass.                   *)
Available(i) ==
  /\ ~IsLock(arb.q[i])
  /\ ~Blocked(arb, ReqSeq(arb.q[i]))
  /\ ReqSeq(arb.q[i]) \in relevant

SelectBegin ==
  /\ sel.pc = "idle"
  /\ arb' = LocksGranted(arb)
  /\ sel' = [Unset EXCEPT !.pc = "scan", !.tries = sel.tries]
  /\ UNCHANGED <<pc, sem, state, relevant, mode>>

Scanning == sel.pc = "scan"

(* The requester at position i is dead: its sequence is removed, and the  *)
(* loop continues at the same position of the shorter queue.              *)
ScanZombie ==
  /\ Scanning /\ sel.i <= Len(arb.q)
  /\ arb.q[sel.i].t \in DeadThreads
  /\ arb' = Removed(arb, {ReqSeq(arb.q[sel.i])})
  /\ UNCHANGED <<pc, sem, state, relevant, mode, sel>>

(* The request at position i is not the answer, or not yet. *)
ScanEntry ==
  /\ Scanning /\ sel.i <= Len(arb.q)
  /\ arb.q[sel.i].t \notin DeadThreads
  /\ Available(sel.i) => mode # "FIFO"
  /\ sel' = [sel EXCEPT !.i = @ + 1,
                        !.avail = IF Available(sel.i) THEN @ \cup {sel.i} ELSE @]
  /\ UNCHANGED <<arb, pc, sem, state, relevant, mode>>

(* The positions left after the second look at the locks, and the ones    *)
(* m_arbitration lets the function return.                                *)
Usable ==
  IF arb.locks # <<>> /\ Cardinality(sel.avail) > 1
  THEN {i \in sel.avail : ~Blocked(arb, ReqSeq(arb.q[i]))}
  ELSE sel.avail

Zero(i) == Priority[arb.q[i].t] = 0

Highest(K) ==
  {i \in K : \A j \in K : Priority[arb.q[j].t] <= Priority[arb.q[i].t]}

(* With no weight at all $urandom_range(-1, 0) is any number, and a        *)
(* negative one selects the first entry.                                   *)
Weighted(K) ==
  IF \A i \in K : Zero(i) THEN {First(K)} ELSE {i \in K : ~Zero(i)}

Candidates(K) ==
  CASE Cardinality(K) = 1 \/ mode = "RANDOM" -> K
    [] mode = "WEIGHTED"      -> Weighted(K)
    [] mode = "STRICT_RANDOM" -> Highest(K)
    [] mode = "STRICT_FIFO"   -> {First(Highest(K))}
    [] OTHER                  -> {First(K)}

ByPriority == mode \in {"WEIGHTED", "STRICT_FIFO", "STRICT_RANDOM"}

(* Whether the end of the function looks into every position collected. *)
ReadsAll ==
  /\ Cardinality(sel.avail) > 1
  /\ arb.locks # <<>> \/ ByPriority

ScanOver == Scanning /\ sel.i > Len(arb.q)

(* A position collected before a zombie was removed may lie beyond the end. *)
Stale == sel.avail \ DOMAIN arb.q
ReadsNull == ReadsAll /\ Stale # {}

(* m_get_seq_item_priority rejects an item priority of zero. *)
Rejected ==
  /\ ByPriority /\ Cardinality(Usable) > 1
  /\ \E i \in Usable : Zero(i) /\ arb.q[i].t \in ByItem

(* What the function may return; FIFO returns from inside the loop. *)
Choices ==
  IF mode = "FIFO"
  THEN {i \in {sel.i} \cap DOMAIN arb.q :
          arb.q[i].t \notin DeadThreads /\ Available(i)}
  ELSE IF ScanOver /\ ~ReadsNull /\ ~Rejected /\ Usable # {}
       THEN Candidates(Usable) ELSE {}

(* m_select_sequence without m_update_lists. *)
ScanChooseQuiet(i) ==
  /\ Scanning
  /\ i \in Choices
  /\ arb' = [arb EXCEPT !.done = @ \cup {arb.q[i]}, !.q = Deleted(@, i)]
  /\ sel' = Unset
  /\ UNCHANGED <<pc, sem, state, relevant, mode>>

(* The chosen request is completed and taken off the queue. *)
ScanChoose(i) ==
  /\ Scanning
  /\ i \in Choices
  /\ arb' = Updated([arb EXCEPT !.done = @ \cup {arb.q[i]}, !.q = Deleted(@, i)])
  /\ sel' = Unset
  /\ UNCHANGED <<pc, sem, state, relevant, mode>>

(* Reading beyond the end gives null: the simulation stops there. *)
ScanNull ==
  /\ ScanOver
  /\ ReadsNull \/ Choices \cap Stale # {}
  /\ sel' = [sel EXCEPT !.pc = "null"]
  /\ UNCHANGED <<arb, pc, sem, state, relevant, mode>>

(* A fatal report ends the simulation: an illegal priority, or a weighted  *)
(* draw that no entry covers.                                              *)
ScanFatal ==
  /\ ScanOver
  /\ ~ReadsNull
  /\ \/ Rejected
     \/ /\ mode = "WEIGHTED" /\ Cardinality(Usable) > 1
        /\ \A i \in Usable : Zero(i)
  /\ sel' = [sel EXCEPT !.pc = "fatal"]
  /\ UNCHANGED <<arb, pc, sem, state, relevant, mode>>

(* Nothing can be chosen: another NBA region, or m_wait_for_available_    *)
(* sequence, which samples m_lock_arb_size and watches the sequences that *)
(* are neither blocked nor relevant.                                      *)
Watched ==
  {ReqSeq(r) : r \in {x \in Held(arb.q) : /\ ~IsLock(x)
                                          /\ ~Blocked(arb, ReqSeq(x))
                                          /\ ReqSeq(x) \notin relevant}}

ScanNone ==
  /\ ScanOver
  /\ ~ReadsNull
  /\ mode = "FIFO" \/ Usable = {}
  /\ IF sel.tries + 1 < NbaCount
     THEN sel' = [Unset EXCEPT !.tries = sel.tries + 1] /\ UNCHANGED arb
     ELSE /\ sel' = [Unset EXCEPT !.pc = "wait", !.watch = Watched]
          /\ arb' = Sampled(arb, Selector)
  /\ UNCHANGED <<pc, sem, state, relevant, mode>>

(* try_next_item does not wait: it returns null to the driver. *)
ScanGiveUp ==
  /\ ScanOver
  /\ ~ReadsNull
  /\ mode = "FIFO" \/ Usable = {}
  /\ sel' = Unset
  /\ UNCHANGED <<arb, pc, sem, state, relevant, mode>>

(* The queues have changed, or a wait_for_relevant() has returned. *)
SelectWake ==
  /\ sel.pc = "wait"
  /\ Selector \notin arb.snap \/ sel.watch \cap relevant # {}
  /\ sel' = Unset
  /\ UNCHANGED <<arb, pc, sem, state, relevant, mode>>

(* The winner of a selection died before it sent its request: what it did *)
(* not consume is deleted from arb_completed.                             *)
Reclaim(r) ==
  /\ r.t \in DeadThreads
  /\ arb' = Consumed(arb, r)
  /\ UNCHANGED <<pc, sem, state, relevant, mode, sel>>

(* item_done grants the locks it can. *)
GrantLocks ==
  /\ arb' = LocksGranted(arb)
  /\ UNCHANGED <<pc, sem, state, relevant, mode, sel>>

(* An item has arrived: the process that may be selecting again is killed *)
(* wherever it waits, and get goes on with item_done, which grants locks.  *)
SelectKilled(locks) ==
  /\ arb' = IF locks THEN LocksGranted(arb) ELSE arb
  /\ sel' = Unset
  /\ UNCHANGED <<pc, sem, state, relevant, mode>>

-----------------------------------------------------------------------------
ThreadStep(t) ==
  \/ \E l \in BOOLEAN : WaitForGrant(t, l) \/ LockReq(t, l)
  \/ Resume(t)
  \/ WaitAgain(t)
  \/ SendRequest(t)
  \/ Unlock(t)
  \/ KillThread(t)

SeqStep(s) ==
  StartSequence(s) \/ KillSequence(s) \/ FinishSequence(s) \/ SetRelevant(s)

Others ==
  /\ ~Scanning
  /\ sel.pc \notin {"null", "fatal"}
  /\ \/ \E t \in Threads : ThreadStep(t)
     \/ \E s \in Seqs : SeqStep(s)
     \/ \E m \in Modes : SetArbitration(m)
     \/ \E r \in arb.done : Reclaim(r)
     \/ \E l \in BOOLEAN : SelectKilled(l)
     \/ StopSequences
     \/ GrantLocks

Scan ==
  \/ ScanZombie \/ ScanEntry \/ ScanNull \/ ScanFatal \/ ScanNone \/ ScanGiveUp
  \/ \E i \in DOMAIN arb.q : ScanChoose(i)

Next == Others \/ SelectBegin \/ Scan \/ SelectWake

Spec == Init /\ [][Next]_arbVars

(* Time advances only when no process can run, so a process that can run   *)
(* does (the steps of a selection are one function call: what they         *)
(* interrupt stays runnable, hence the strong fairness), a selection that  *)
(* has begun is carried through, the driver asks again, and a lock is      *)
(* given back in the end.                                                  *)
Fairness ==
  /\ WF_arbVars(SelectBegin) /\ WF_arbVars(Scan) /\ WF_arbVars(SelectWake)
  /\ \A t \in Threads :
       /\ SF_arbVars(~Scanning /\ (Resume(t) \/ WaitAgain(t) \/ SendRequest(t)))
       /\ SF_arbVars(~Scanning /\ Unlock(t))

FairSpec == Spec /\ Fairness

-----------------------------------------------------------------------------
TypeOK ==
  /\ arb \in ArbRecord
  /\ pc \in [Threads -> {"run", "waitGrant", "waitLock", "granted", "dead"}]
  /\ sem \in [Seqs -> Nat]
  /\ state \in [Seqs -> States]
  /\ relevant \in SUBSET Seqs
  /\ mode \in Arbitrations
  /\ sel \in Selection

(* The locks form a chain: every later holder is a descendant of, or the   *)
(* same sequence as, every earlier holder, so two unrelated sequences      *)
(* never hold the sequencer at once and current_grabber is the innermost.  *)
Nested(L) ==
  \A i, j \in DOMAIN L : i < j => L[i] \in Ancestors[L[j]] \cup {L[j]}

LockChain == Nested(arb.locks)

(* A sequence that is over leaves nothing behind: requests in the queue    *)
(* and held locks belong to running sequences (remove_sequence_from_queues *)
(* on every way out of a sequence).                                        *)
Owners(a) == {ReqSeq(r) : r \in Held(a.q)} \cup Held(a.locks)

CleanExit == \A s \in Owners(arb) : state[s] = "running"

(* A process that waits for a completion already recorded is not asleep on *)
(* m_lock_arb_size: m_set_arbitration_completed is always followed by a    *)
(* m_update_lists before the waiter can sample again.                      *)
WakeNotLost ==
  \A t \in Threads : Waiting(t) /\ Awaited(t) \in arb.done => t \notin arb.snap

(* A sequence whose parent is over runs on without the arbiter's promise. *)
Orphaned(s) == \E a \in Ancestors[s] : state[a] \in {"stopped", "finished"}
Known(t) == Awaited(t) \in Held(arb.q) \cup arb.done

(* A waiting process of a running sequence with running parents is still   *)
(* known to the arbiter: its request is queued or already completed ("to   *)
(* avoid a deadlock the sequence will be removed from the arbitration      *)
(* queues").                                                               *)
NoLostRequest ==
  \A t \in Threads :
    Waiting(t) /\ state[SeqOf[t]] = "running" /\ ~Orphaned(SeqOf[t]) => Known(t)

(* The arbiter forgets the request of a process that goes on waiting for   *)
(* two reasons only: its sequence or one above it returns from its body    *)
(* ("The item request ... is being removed"), or a request of such a       *)
(* sequence was made by a process now dead ("to avoid a deadlock").  No    *)
(* grant, lock, unlock, kill or end of any other sequence costs it.        *)
Line(s) == {s} \cup Ancestors[s]
Returns(s) == state[s] = "running" /\ state'[s] = "finished"
Zombie(s) == \E r \in Held(arb.q) : r.t \in DeadThreads /\ ReqSeq(r) = s

OnlyEndsForget ==
  [][\A t \in Threads :
       Waiting(t) /\ Waiting(t)' /\ Known(t) /\ ~Known(t)'
         => \E s \in Line(SeqOf[t]) : Returns(s) \/ Zombie(s)]_arbVars

(* What the driver is given is the "next available, unlocked, relevant     *)
(* sequence": a request completed by a selection is no lock request, and   *)
(* its sequence is relevant and blocked by no lock.                        *)
GrantRespectsLocks ==
  [][Scanning => \A r \in arb'.done \ arb.done :
                   /\ ~IsLock(r)
                   /\ ~Blocked(arb, ReqSeq(r))
                   /\ ReqSeq(r) \in relevant]_arbVars

(* Locks are served: a process that calls lock() is resumed in the end, if *)
(* nobody grabs and every holder unlocks, or a fatal report ends the run,  *)
(* or a holder is not relevant and may sleep with its lock, or a parent    *)
(* ends first.                                                             *)
LockServed ==
  \A t \in Lockers :
    pc[t] = "waitLock" ~> \/ pc[t] # "waitLock" \/ sel.pc \in {"null", "fatal"}
                          \/ ~ (Held(arb.locks) \subseteq relevant)
                          \/ Orphaned(SeqOf[t])

(* Requests are served: if nobody locks, wait_for_grant returns, unless a  *)
(* parent ends first.                                                      *)
GrantServed ==
  \A t \in Threads :
    pc[t] = "waitGrant" ~> pc[t] # "waitGrant" \/ Orphaned(SeqOf[t])
=============================================================================
