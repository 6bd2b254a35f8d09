------------------------- MODULE SequencerArbProofs -------------------------
(***************************************************************************)
(* For every set of sequences, processes and modes: the types, the nesting *)
(* of the lock list along families, and the clean exit of sequences.       *)
(*                                                                         *)
(* Every step changes the queues through three operations, so the proof    *)
(* says once what each of them preserves: Removed, GrantedLock, and their  *)
(* combination LocksGranted.  The inductive invariant is the conjunction   *)
(* of the three properties.                                                *)
(***************************************************************************)
EXTENDS SequencerArb, QueuesProofs

(* What the lemmas keep of the queues: their types and the lock chain. *)
Sound(a) == a \in ArbRecord /\ Nested(a.locks)

LEMMA SeqTypes ==
  /\ \A r \in Request : ReqSeq(r) \in Seqs
  /\ \A s \in Seqs : Ancestors[s] \in SUBSET Seqs
  /\ \A S : Families(S) \in SUBSET Seqs
BY SeqAssumption DEF Request, ReqSeq, Families, Family

(* Keeping some positions of the lock list keeps it nested. *)
LEMMA NestedKept ==
  ASSUME NEW L \in Seq(Seqs), Nested(L), NEW K \in SUBSET (DOMAIN L)
  PROVE  Nested(Kept(L, K))
<1> SUFFICES ASSUME NEW k \in DOMAIN Kept(L, K), NEW l \in DOMAIN Kept(L, K), k < l
             PROVE  Kept(L, K)[k] \in Ancestors[Kept(L, K)[l]] \cup {Kept(L, K)[l]}
  BY DEF Nested
<1>1. Nth(K, k) \in K /\ Kept(L, K)[k] = L[Nth(K, k)]
  BY KeptEntry
<1>2. Nth(K, l) \in K /\ Kept(L, K)[l] = L[Nth(K, l)]
  BY KeptEntry
<1>3. Nth(K, k) < Nth(K, l)
  BY KeptOrder
<1> QED
  BY <1>1, <1>2, <1>3 DEF Nested

(* A lock that no held lock blocks extends the chain. *)
LEMMA NestedAppend ==
  ASSUME NEW a \in ArbRecord, Nested(a.locks), NEW s \in Seqs, ~Blocked(a, s)
  PROVE  Nested(Append(a.locks, s))
<1> DEFINE L == a.locks
           M == Append(L, s)
<1>1. L \in Seq(Seqs) /\ Len(L) \in Nat /\ DOMAIN L = 1 .. Len(L)
  BY DEF ArbRecord
<1>2. /\ DOMAIN M = 1 .. Len(L) + 1
      /\ M[Len(L) + 1] = s
      /\ \A i \in DOMAIN L : M[i] = L[i]
  BY <1>1
<1>3. \A i \in DOMAIN L : L[i] \in Ancestors[s] \cup {s}
  BY DEF Blocked, Held
<1> SUFFICES ASSUME NEW i \in DOMAIN M, NEW j \in DOMAIN M, i < j
             PROVE  M[i] \in Ancestors[M[j]] \cup {M[j]}
  BY DEF Nested
<1>4. i \in DOMAIN L
  BY <1>1, <1>2
<1>5. CASE j \in DOMAIN L
  BY <1>2, <1>4, <1>5 DEF Nested
<1>6. CASE j = Len(L) + 1
  BY <1>2, <1>3, <1>4, <1>6
<1> QED
  BY <1>1, <1>2, <1>5, <1>6

(* remove_sequence_from_queues takes whole families out, and nothing else. *)
LEMMA RemovedSound ==
  ASSUME NEW a, Sound(a), NEW S \in SUBSET Seqs
  PROVE  /\ Sound(Removed(a, S))
         /\ Owners(Removed(a, S)) \subseteq Owners(a) \ Families(S)
<1> DEFINE gone == Families(S)
           keepQ == {i \in DOMAIN a.q : ReqSeq(a.q[i]) \notin gone}
           keepL == {i \in DOMAIN a.locks : a.locks[i] \notin gone}
           b == Removed(a, S)
<1>1. a \in ArbRecord /\ a.q \in Seq(Request) /\ a.locks \in Seq(Seqs)
  BY DEF Sound, ArbRecord
<1>2. b.q = Kept(a.q, keepQ) /\ b.locks = Kept(a.locks, keepL)
  BY <1>1 DEF Removed, ArbRecord
<1>3. b.q \in Seq(Request) /\ Held(b.q) = {a.q[i] : i \in keepQ}
  BY <1>1, <1>2, KeptType, KeptHeld
<1>4. b.locks \in Seq(Seqs) /\ Held(b.locks) = {a.locks[i] : i \in keepL}
  BY <1>1, <1>2, KeptType, KeptHeld
<1>5. b \in ArbRecord
  BY <1>1, <1>2, <1>3, <1>4 DEF Removed, ArbRecord
<1>6. Nested(b.locks)
  BY <1>1, <1>2, NestedKept DEF Sound
<1> QED
  BY <1>3, <1>4, <1>5, <1>6 DEF Sound, Owners, Held

(* A granted lock moves from the queue to the end of the lock list. *)
LEMMA GrantedLockSound ==
  ASSUME NEW a, Sound(a), NEW i \in Unblocked(a)
  PROVE  /\ Sound(GrantedLock(a, i))
         /\ Owners(GrantedLock(a, i)) \subseteq Owners(a)
<1> DEFINE s == ReqSeq(a.q[i])
           b == GrantedLock(a, i)
<1>1. a \in ArbRecord /\ a.q \in Seq(Request) /\ a.locks \in Seq(Seqs)
  BY DEF Sound, ArbRecord
<1>2. i \in DOMAIN a.q /\ a.q[i] \in Request /\ s \in Seqs /\ ~Blocked(a, s)
  BY <1>1, SeqTypes DEF Unblocked
<1>3. /\ b.q = Deleted(a.q, i) /\ b.locks = Append(a.locks, s)
      /\ b.done = a.done \cup {a.q[i]} /\ b.snap = {}
      /\ b.reg = a.reg /\ b.ids = a.ids
      /\ DOMAIN b = DOMAIN a
  BY <1>1 DEF GrantedLock, Updated, ArbRecord
<1>4. b.q \in Seq(Request) /\ Held(b.q) \subseteq Held(a.q)
  <2> DEFINE K == DOMAIN a.q \ {i}
  <2>1. K \in SUBSET (DOMAIN a.q) /\ b.q = Kept(a.q, K)
    BY <1>3 DEF Deleted
  <2>2. b.q \in Seq(Request) /\ Held(b.q) = {a.q[j] : j \in K}
    BY <1>1, <2>1, KeptType, KeptHeld
  <2> QED
    BY <2>1, <2>2 DEF Held
<1>5. b.locks \in Seq(Seqs) /\ Held(b.locks) \subseteq Held(a.locks) \cup {s}
  BY <1>1, <1>2, <1>3 DEF Held
<1>6. b \in ArbRecord
  BY <1>1, <1>2, <1>3, <1>4, <1>5 DEF GrantedLock, Updated, ArbRecord
<1>7. Nested(b.locks)
  BY <1>1, <1>2, <1>3, NestedAppend DEF Sound
<1>8. s \in Owners(a)
  BY <1>2 DEF Owners, Held
<1> QED
  BY <1>4, <1>5, <1>6, <1>7, <1>8 DEF Sound, Owners

(* grant_queued_locks adds no owner and keeps the chain. *)
LEMMA LocksGrantedSound ==
  ASSUME NEW a, Sound(a)
  PROVE  Sound(LocksGranted(a)) /\ Owners(LocksGranted(a)) \subseteq Owners(a)
<1> DEFINE b == Removed(a, LockZombies(a))
<1>1. LockZombies(a) \in SUBSET Seqs
  BY SeqTypes DEF LockZombies, Held, Sound, ArbRecord
<1>2. Sound(b) /\ Owners(b) \subseteq Owners(a)
  BY <1>1, RemovedSound
<1>3. CASE Unblocked(b) = {}
  BY <1>2, <1>3 DEF LocksGranted
<1>4. CASE Unblocked(b) # {}
  <2>1. b.q \in Seq(Request)
    BY <1>2 DEF Sound, ArbRecord
  <2>2. Len(b.q) \in Nat /\ Unblocked(b) \in SUBSET (1 .. Len(b.q))
    BY <2>1 DEF Unblocked
  <2>3. First(Unblocked(b)) \in Unblocked(b)
    BY <1>4, <2>2, FirstIsLeast
  <2>4. /\ Sound(GrantedLock(b, First(Unblocked(b))))
        /\ Owners(GrantedLock(b, First(Unblocked(b)))) \subseteq Owners(b)
    BY <1>2, <2>3, GrantedLockSound
  <2> QED
    BY <1>2, <1>4, <2>4 DEF LocksGranted
<1> QED
  BY <1>3, <1>4

-----------------------------------------------------------------------------
IInv == TypeOK /\ LockChain /\ CleanExit

LEMMA InvSound == IInv => Sound(arb)
BY DEF IInv, TypeOK, LockChain, Sound

(* Changes of a field no owner depends on. *)
LEMMA FieldSound ==
  ASSUME NEW a, Sound(a), NEW D \in SUBSET Request,
         NEW N \in SUBSET (Threads \cup {Selector})
  PROVE  /\ Sound([a EXCEPT !.done = D]) /\ Owners([a EXCEPT !.done = D]) = Owners(a)
         /\ Sound([a EXCEPT !.snap = N]) /\ Owners([a EXCEPT !.snap = N]) = Owners(a)
BY DEF Sound, ArbRecord, Owners

LEMMA UpdatedSound ==
  ASSUME NEW a, Sound(a)
  PROVE  Sound(Updated(a)) /\ Owners(Updated(a)) = Owners(a)
BY DEF Updated, Sound, ArbRecord, Owners

LEMMA SampledSound ==
  ASSUME NEW a, Sound(a), NEW t \in Threads \cup {Selector}
  PROVE  Sound(Sampled(a, t)) /\ Owners(Sampled(a, t)) = Owners(a)
BY DEF Sampled, Sound, ArbRecord, Owners

LEMMA ConsumedSound ==
  ASSUME NEW a, Sound(a), NEW r
  PROVE  Sound(Consumed(a, r)) /\ Owners(Consumed(a, r)) = Owners(a)
BY DEF Consumed, Sound, ArbRecord, Owners

LEMMA RegisteredSound ==
  ASSUME NEW a, Sound(a), NEW s \in Seqs
  PROVE  Sound(Registered(a, s)) /\ Owners(Registered(a, s)) = Owners(a)
BY DEF Registered, Sound, ArbRecord, Owners

(* Requests appended to the queue, or put in front of it. *)
LEMMA QueueSound ==
  ASSUME NEW a, Sound(a), NEW x \in Seq(Request)
  PROVE  /\ Sound([a EXCEPT !.q = a.q \o x])
         /\ Owners([a EXCEPT !.q = a.q \o x])
              \subseteq Owners(a) \cup {ReqSeq(r) : r \in Held(x)}
         /\ Sound([a EXCEPT !.q = x \o a.q])
         /\ Owners([a EXCEPT !.q = x \o a.q])
              \subseteq Owners(a) \cup {ReqSeq(r) : r \in Held(x)}
<1> DEFINE p == a.q \o x
           f == x \o a.q
<1>1. a \in ArbRecord /\ a.q \in Seq(Request)
  BY DEF Sound, ArbRecord
<1>2. p \in Seq(Request) /\ f \in Seq(Request)
  BY <1>1
<1>3. Held(p) \subseteq Held(a.q) \cup Held(x)
  BY <1>1 DEF Held
<1>4. Held(f) \subseteq Held(a.q) \cup Held(x)
  BY <1>1 DEF Held
<1>5. \A y \in Seq(Request) : /\ Sound([a EXCEPT !.q = y])
                              /\ [a EXCEPT !.q = y].q = y
                              /\ [a EXCEPT !.q = y].locks = a.locks
  BY <1>1 DEF Sound, ArbRecord
<1> QED
  BY <1>2, <1>3, <1>4, <1>5 DEF Owners

(* A step that keeps the states and adds only running owners is safe. *)
LEMMA CleanKept ==
  ASSUME IInv, UNCHANGED state,
         Owners(arb)' \subseteq Owners(arb) \cup {s \in Seqs : state[s] = "running"}
  PROVE  CleanExit'
BY DEF IInv, CleanExit

(* The sequences that have a process at work. *)
Running == {SeqOf[t] : t \in {u \in Threads : Runs(u)}}

(* What a step must do to the queues to keep the invariant. *)
Adds(S) == Sound(arb') /\ Owners(arb)' \subseteq Owners(arb) \cup S

Preserved == IInv' /\ Owners(arb)' \subseteq Owners(arb) \cup Running

LEMMA StepKept ==
  ASSUME IInv, UNCHANGED state, Adds(Running), TypeOK'
  PROVE  Preserved
<1>1. CleanExit'
  <2>1. Running \subseteq {s \in Seqs : state[s] = "running"}
    BY SeqAssumption DEF Running, Runs
  <2> QED
    BY <2>1, CleanKept DEF Adds
<1>2. LockChain'
  BY DEF Adds, Sound, LockChain
<1> QED
  BY <1>1, <1>2 DEF IInv, Preserved, Adds

(* The requests of a process that runs belong to a running sequence. *)
LEMMA RunsTypes ==
  ASSUME NEW t \in Threads
  PROVE  SeqOf[t] \in Seqs /\ (Runs(t) => SeqOf[t] \in Running)
BY SeqAssumption DEF Runs, Running

LEMMA WaitForGrantKept ==
  ASSUME IInv, NEW t \in Threads, NEW l \in BOOLEAN, WaitForGrant(t, l)
  PROVE  Preserved
<1> DEFINE a == Registered(arb, SeqOf[t])
           new == IF l THEN <<[t |-> t, tag |-> "prelock"], [t |-> t, tag |-> "grant"]>>
                       ELSE <<[t |-> t, tag |-> "grant"]>>
           b == [a EXCEPT !.q = a.q \o new]
<1>1. SeqOf[t] \in Seqs /\ SeqOf[t] \in Running
  BY RunsTypes DEF WaitForGrant
<1>2. Sound(a) /\ Owners(a) = Owners(arb)
  BY <1>1, InvSound, RegisteredSound
<1>3. new \in Seq(Request) /\ {ReqSeq(r) : r \in Held(new)} \subseteq Running
  <2>1. CASE l
    BY <1>1, <2>1 DEF Request, Tags, Held, ReqSeq
  <2>2. CASE ~l
    BY <1>1, <2>2 DEF Request, Tags, Held, ReqSeq
  <2> QED
    BY <2>1, <2>2
<1>4. Sound(b) /\ Owners(b) \subseteq Owners(arb) \cup Running
  BY <1>2, <1>3, QueueSound
<1>5. Sound(Updated(b)) /\ Owners(Updated(b)) = Owners(b)
  BY <1>4, UpdatedSound
<1>6. /\ Sound(Sampled(Updated(b), t))
      /\ Owners(Sampled(Updated(b), t)) = Owners(Updated(b))
  BY <1>5, SampledSound
<1>7. arb' = Sampled(Updated(b), t)
  BY DEF WaitForGrant
<1>8. Adds(Running)
  BY <1>4, <1>5, <1>6, <1>7 DEF Adds, Owners
<1>9. TypeOK'
  BY <1>6, <1>7 DEF WaitForGrant, TypeOK, IInv, Sound
<1> QED
  BY <1>8, <1>9, StepKept DEF WaitForGrant

LEMMA LockReqKept ==
  ASSUME IInv, NEW t \in Threads, NEW grab \in BOOLEAN, LockReq(t, grab)
  PROVE  Preserved
<1> DEFINE r == [t |-> t, tag |-> "lock"]
           b == Registered(arb, SeqOf[t])
           c == Queued(b, r, grab)
           d == LocksGranted(c)
<1>1. SeqOf[t] \in Seqs /\ SeqOf[t] \in Running
  BY RunsTypes DEF LockReq
<1>2. Sound(b) /\ Owners(b) = Owners(arb)
  BY <1>1, InvSound, RegisteredSound
<1>3. /\ <<r>> \in Seq(Request)
      /\ {ReqSeq(x) : x \in Held(<<r>>)} \subseteq Running
  BY <1>1 DEF Request, Tags, Held, ReqSeq
<1>4. Sound(c) /\ Owners(c) \subseteq Owners(arb) \cup Running
  <2>1. CASE grab
    <3>1. /\ Sound([b EXCEPT !.q = <<r>> \o b.q])
          /\ Owners([b EXCEPT !.q = <<r>> \o b.q]) \subseteq Owners(arb) \cup Running
      BY <1>2, <1>3, QueueSound
    <3> QED
      BY <2>1, <3>1, UpdatedSound DEF Queued
  <2>2. CASE ~grab
    BY <1>2, <1>3, <2>2, QueueSound DEF Queued
  <2> QED
    BY <2>1, <2>2
<1>5. Sound(d) /\ Owners(d) \subseteq Owners(c)
  BY <1>4, LocksGrantedSound
<1>6. arb' \in {Consumed(d, r), Sampled(d, t)}
  BY DEF LockReq
<1>7. Sound(arb') /\ Owners(arb') = Owners(d)
  BY <1>5, <1>6, ConsumedSound, SampledSound
<1>8. Adds(Running)
  BY <1>4, <1>5, <1>7 DEF Adds, Owners
<1>9. TypeOK'
  BY <1>7 DEF LockReq, TypeOK, IInv, Sound
<1> QED
  BY <1>8, <1>9, StepKept DEF LockReq

LEMMA ResumeKept ==
  ASSUME IInv, NEW t \in Threads, Resume(t) \/ WaitAgain(t)
  PROVE  Preserved
<1>1. Sound(arb') /\ Owners(arb') = Owners(arb)
  BY InvSound, ConsumedSound, SampledSound DEF Resume, WaitAgain
<1>2. Adds(Running)
  BY <1>1 DEF Adds, Owners
<1>3. TypeOK'
  <2>1. SeqOf[t] \in Seqs
    BY SeqAssumption
  <2>2. sem' \in [Seqs -> Nat]
    BY <2>1 DEF Resume, WaitAgain, IInv, TypeOK
  <2> QED
    BY <1>1, <2>2 DEF Resume, WaitAgain, IInv, TypeOK, Sound
<1> QED
  BY <1>2, <1>3, StepKept DEF Resume, WaitAgain

LEMMA SendRequestKept ==
  ASSUME IInv, NEW t \in Threads, SendRequest(t)
  PROVE  Preserved
<1>1. Sound(arb') /\ Owners(arb') \subseteq Owners(arb)
  BY InvSound, LocksGrantedSound DEF SendRequest
<1>2. Adds(Running)
  BY <1>1 DEF Adds, Owners
<1>3. TypeOK'
  <2>1. sem[SeqOf[t]] - 1 \in Nat
    <3>1. SeqOf[t] \in Seqs
      BY SeqAssumption
    <3>2. sem[SeqOf[t]] \in Nat /\ sem[SeqOf[t]] >= 1
      BY <3>1 DEF SendRequest, IInv, TypeOK
    <3> QED
      BY <3>2
  <2>2. sem' \in [Seqs -> Nat]
    BY <2>1 DEF SendRequest, IInv, TypeOK
  <2> QED
    BY <1>1, <2>2 DEF SendRequest, IInv, TypeOK, Sound
<1> QED
  BY <1>2, <1>3, StepKept DEF SendRequest

LEMMA UnlockKept ==
  ASSUME IInv, NEW t \in Threads, Unlock(t)
  PROVE  Preserved
<1> DEFINE i == First(HeldAt(SeqOf[t]))
           K == DOMAIN arb.locks \ {i}
           b == [arb EXCEPT !.locks = Kept(arb.locks, K)]
           c == LocksGranted(b)
<1>1. Sound(arb) /\ arb \in ArbRecord /\ arb.locks \in Seq(Seqs)
  BY InvSound DEF Sound, ArbRecord
<1>2. K \in SUBSET (DOMAIN arb.locks)
  OBVIOUS
<1>3. Kept(arb.locks, K) \in Seq(Seqs) /\ Nested(Kept(arb.locks, K))
  BY <1>1, <1>2, KeptType, NestedKept DEF Sound
<1>4. Held(Kept(arb.locks, K)) \subseteq Held(arb.locks)
  <2>1. Held(Kept(arb.locks, K)) = {arb.locks[j] : j \in K}
    BY <1>1, <1>2, KeptHeld
  <2> QED
    BY <1>2, <2>1 DEF Held
<1>5. Sound(b) /\ Owners(b) \subseteq Owners(arb)
  BY <1>1, <1>3, <1>4 DEF Sound, ArbRecord, Owners
<1>6. Sound(c) /\ Owners(c) \subseteq Owners(b)
  BY <1>5, LocksGrantedSound
<1>7. arb' = Updated(c)
  BY DEF Unlock, Deleted
<1>8. Sound(arb') /\ Owners(arb') = Owners(c)
  BY <1>6, <1>7, UpdatedSound
<1>9. Adds(Running)
  BY <1>5, <1>6, <1>8 DEF Adds, Owners
<1>10. TypeOK'
  BY <1>8 DEF Unlock, IInv, TypeOK, Sound
<1> QED
  BY <1>9, <1>10, StepKept DEF Unlock

LEMMA StartSequenceKept ==
  ASSUME IInv, NEW s \in Seqs, StartSequence(s)
  PROVE  Preserved
<1>1. Sound(arb') /\ Owners(arb') = Owners(arb)
  BY InvSound, RegisteredSound DEF StartSequence
<1>2. state' \in [Seqs -> States] /\ \A x \in Owners(arb) : state'[x] = "running"
  BY DEF StartSequence, States, IInv, TypeOK, CleanExit
<1>3. TypeOK'
  BY <1>1, <1>2 DEF StartSequence, IInv, TypeOK, Sound
<1>4. CleanExit'
  BY <1>1, <1>2 DEF CleanExit, Owners
<1> QED
  BY <1>1, <1>3, <1>4 DEF IInv, LockChain, Sound, Preserved, Owners

(* A kill reaches down a family, so what it takes out of the queues is     *)
(* the families it was called for, the unreached children included.        *)
LEMMA KillReach ==
  ASSUME NEW S \in SUBSET Seqs
  PROVE  /\ Killed(S) \in SUBSET Seqs /\ Killed(S) \subseteq Families(S)
         /\ Families(Killed(S)) = Families(S)
<1>1. S \subseteq Killed(S) /\ Killed(S) \subseteq Families(S)
  BY DEF Killed, Families, Family
<1>2. Families(Families(S)) \subseteq Families(S)
  BY SeqAssumption DEF Families, Family
<1> QED
  BY <1>1, <1>2, SeqTypes DEF Families

LEMMA KillQueues ==
  ASSUME Sound(arb), NEW S \in SUBSET Seqs, Kill(S)
  PROVE  /\ Sound(arb') /\ Owners(arb') = Owners(Removed(arb, Killed(S)))
         /\ arb'.q = Removed(arb, Killed(S)).q
         /\ arb'.done = Removed(arb, Killed(S)).done
         /\ arb'.snap = Removed(arb, Killed(S)).snap
<1> DEFINE a == Removed(arb, Killed(S))
<1>1. Sound(a)
  BY KillReach, RemovedSound
<1>2. arb' = [a EXCEPT !.ids = a.ids \ Killed(S)]
  BY DEF Kill
<1> HIDE DEF a
<1>3. /\ Sound(arb') /\ Owners(arb') = Owners(a)
      /\ arb'.q = a.q /\ arb'.done = a.done /\ arb'.snap = a.snap
  BY <1>1, <1>2 DEF Sound, ArbRecord, Owners
<1> QED
  BY <1>3 DEF a

(* Killing takes every sequence that stops out of the queues. *)
LEMMA KillKept ==
  ASSUME IInv, NEW S \in SUBSET Seqs, Kill(S)
  PROVE  Preserved
<1>1. Sound(arb) /\ Sound(arb')
  BY InvSound, KillQueues
<1>2. Owners(arb') \subseteq Owners(arb) \ Families(S)
  BY <1>1, KillQueues, KillReach, RemovedSound
<1>3. state' = [s \in Seqs |-> IF s \in Killed(S) THEN "stopped" ELSE state[s]]
  BY DEF Kill
<1>4. TypeOK'
  BY <1>1, <1>3 DEF Kill, IInv, TypeOK, Sound, States
<1>5. \A s \in Owners(arb') : s \in Seqs /\ s \notin Killed(S) /\ state[s] = "running"
  <2>1. \A s \in Owners(arb) : s \in Seqs /\ state[s] = "running"
    BY <1>1, SeqTypes DEF Sound, ArbRecord, Owners, Held, IInv, CleanExit
  <2> QED
    BY <1>2, <2>1, KillReach
<1>6. CleanExit'
  BY <1>3, <1>5 DEF CleanExit, Owners
<1> QED
  BY <1>1, <1>2, <1>4, <1>6 DEF IInv, LockChain, Sound, Preserved, Owners

(* clean_exit_sequence does so for a body that returns. *)
LEMMA FinishSequenceKept ==
  ASSUME IInv, NEW s \in Seqs, FinishSequence(s)
  PROVE  Preserved
<1> DEFINE a == Removed(arb, {s})
<1>1. Sound(arb)
  BY InvSound
<1>2. Sound(a) /\ Owners(a) \subseteq Owners(arb) \ Families({s})
  BY <1>1, RemovedSound
<1>3. s \in Families({s})
  BY DEF Families, Family
<1>4. arb' = [a EXCEPT !.ids = a.ids \ {s}]
  BY DEF FinishSequence
<1>5. Sound(arb') /\ Owners(arb') = Owners(a)
  BY <1>2, <1>4 DEF Sound, ArbRecord, Owners
<1>6. TypeOK'
  BY <1>5 DEF FinishSequence, IInv, TypeOK, Sound, States
<1>7. state' = [state EXCEPT ![s] = "finished"]
  BY DEF FinishSequence
<1>8. \A x \in Owners(arb') : x # s /\ state[x] = "running"
  BY <1>2, <1>3, <1>5 DEF IInv, CleanExit
<1>9. CleanExit'
  BY <1>7, <1>8 DEF CleanExit, Owners, IInv, TypeOK
<1> QED
  BY <1>2, <1>5, <1>6, <1>9 DEF IInv, LockChain, Sound, Preserved, Owners

(* The selections the steps build from the initial one. *)
LEMMA UnsetType ==
  /\ Unset \in Selection
  /\ \A n \in Nat : /\ [Unset EXCEPT !.tries = n] \in Selection
                     /\ [Unset EXCEPT !.pc = "scan", !.tries = n] \in Selection
  /\ \A W \in SUBSET Seqs : [Unset EXCEPT !.pc = "wait", !.watch = W] \in Selection
<1>1. Unset \in Selection
  <2>1. 1 \in Nat \ {0} /\ 0 \in Nat
    OBVIOUS
  <2> QED
    BY <2>1 DEF Unset, Selection
<1>2. \A r \in Selection, n \in Nat, W \in SUBSET Seqs :
        /\ [r EXCEPT !.tries = n] \in Selection
        /\ [r EXCEPT !.pc = "scan", !.tries = n] \in Selection
        /\ [r EXCEPT !.pc = "wait", !.watch = W] \in Selection
  BY DEF Selection
<1> QED
  BY <1>1, <1>2

(* Steps that leave the queues alone. *)
LEMMA QuietKept ==
  ASSUME IInv,
         \/ \E t \in Threads : KillThread(t)
         \/ \E s \in Seqs : SetRelevant(s)
         \/ \E m \in Modes : SetArbitration(m)
         \/ ScanEntry \/ ScanNull \/ ScanFatal
         \/ ScanGiveUp \/ SelectWake
  PROVE  Preserved
<1>1. UNCHANGED <<arb, state>>
  BY DEF KillThread, SetRelevant, SetArbitration, ScanEntry, ScanNull, ScanFatal,
         ScanGiveUp, SelectWake
<1>2. TypeOK'
  <2>0. arb' \in ArbRecord /\ state' \in [Seqs -> States]
    BY <1>1 DEF IInv, TypeOK
  <2>1. CASE \E t \in Threads : KillThread(t)
    BY <2>0, <2>1 DEF KillThread, IInv, TypeOK
  <2>2. CASE \E s \in Seqs : SetRelevant(s)
    BY <2>0, <2>2 DEF SetRelevant, IInv, TypeOK
  <2>3. CASE \E m \in Modes : SetArbitration(m)
    BY <2>0, <2>3, SeqAssumption DEF SetArbitration, IInv, TypeOK
  <2>4. CASE ScanEntry
    <3>1. sel \in Selection /\ sel.i + 1 \in Nat \ {0}
      BY DEF IInv, TypeOK, Selection
    <3>2. sel.avail \in SUBSET Nat /\ sel.avail \cup {sel.i} \in SUBSET Nat
      BY <3>1 DEF Selection
    <3>3. PICK A \in SUBSET Nat : sel' = [sel EXCEPT !.i = sel.i + 1, !.avail = A]
      BY <2>4, <3>2 DEF ScanEntry
    <3>4. sel' \in Selection
      BY <3>1, <3>3 DEF Selection
    <3> QED
      BY <2>0, <2>4, <3>4 DEF ScanEntry, IInv, TypeOK
  <2>5. CASE ScanNull \/ ScanFatal
    <3>1. sel' \in Selection
      <4>1. sel \in Selection
        BY DEF IInv, TypeOK
      <4>2. sel' = [sel EXCEPT !.pc = "null"] \/ sel' = [sel EXCEPT !.pc = "fatal"]
        BY <2>5 DEF ScanNull, ScanFatal
      <4> QED
        BY <4>1, <4>2 DEF Selection
    <3> QED
      BY <2>0, <2>5, <3>1 DEF ScanNull, ScanFatal, IInv, TypeOK
  <2>6. CASE ScanGiveUp \/ SelectWake
    BY <2>0, <2>6, UnsetType DEF ScanGiveUp, SelectWake, IInv, TypeOK
  <2> QED
    BY <2>1, <2>2, <2>3, <2>4, <2>5, <2>6
<1> QED
  BY <1>1, <1>2 DEF IInv, LockChain, Nested, CleanExit, Owners, Held, Preserved

(* item_done, the clean-up after a selected process that died, and the end *)
(* of a selection the driver does not need any more.                       *)
LEMMA DriverKept ==
  ASSUME IInv, \/ GrantLocks \/ \E r \in arb.done : Reclaim(r)
               \/ \E l \in BOOLEAN : SelectKilled(l)
  PROVE  Preserved
<1>1. Sound(arb') /\ Owners(arb') \subseteq Owners(arb)
  BY InvSound, LocksGrantedSound, ConsumedSound DEF GrantLocks, Reclaim, SelectKilled
<1>2. Adds(Running)
  BY <1>1 DEF Adds, Owners
<1>3. TypeOK'
  BY <1>1, UnsetType DEF GrantLocks, Reclaim, SelectKilled, IInv, TypeOK, Sound
<1> QED
  BY <1>2, <1>3, StepKept DEF GrantLocks, Reclaim, SelectKilled

LEMMA SelectBeginKept ==
  ASSUME IInv, SelectBegin
  PROVE  Preserved
<1>1. Sound(arb') /\ Owners(arb') \subseteq Owners(arb)
  BY InvSound, LocksGrantedSound DEF SelectBegin
<1>2. Adds(Running)
  BY <1>1 DEF Adds, Owners
<1>3. TypeOK'
  BY <1>1, UnsetType DEF SelectBegin, Selection, IInv, TypeOK, Sound
<1> QED
  BY <1>2, <1>3, StepKept DEF SelectBegin

LEMMA ScanZombieKept ==
  ASSUME IInv, ScanZombie
  PROVE  Preserved
<1> DEFINE S == {ReqSeq(arb.q[sel.i])}
<1>1. sel.i \in DOMAIN arb.q /\ arb.q[sel.i] \in Request
  <2>1. sel.i \in Nat \ {0} /\ sel.i <= Len(arb.q) /\ arb.q \in Seq(Request)
    BY DEF ScanZombie, IInv, TypeOK, ArbRecord, Selection
  <2> QED
    BY <2>1
<1>2. S \in SUBSET Seqs
  BY <1>1, SeqTypes
<1>3. Sound(arb') /\ Owners(arb') \subseteq Owners(arb)
  BY <1>2, InvSound, RemovedSound DEF ScanZombie
<1>4. Adds(Running)
  BY <1>3 DEF Adds, Owners
<1>5. TypeOK'
  BY <1>3 DEF ScanZombie, IInv, TypeOK, Sound
<1> QED
  BY <1>4, <1>5, StepKept DEF ScanZombie

LEMMA ScanChooseKept ==
  ASSUME IInv, NEW i \in DOMAIN arb.q, ScanChoose(i)
  PROVE  Preserved
<1> DEFINE K == DOMAIN arb.q \ {i}
           b == [arb EXCEPT !.done = arb.done \cup {arb.q[i]}, !.q = Kept(arb.q, K)]
<1>1. Sound(arb) /\ arb \in ArbRecord /\ arb.q \in Seq(Request) /\ arb.q[i] \in Request
  BY InvSound DEF Sound, ArbRecord
<1>2. K \in SUBSET (DOMAIN arb.q)
  OBVIOUS
<1>3. Kept(arb.q, K) \in Seq(Request) /\ Held(Kept(arb.q, K)) = {arb.q[j] : j \in K}
  BY <1>1, <1>2, KeptType, KeptHeld
<1>4. Held(Kept(arb.q, K)) \subseteq Held(arb.q)
  BY <1>2, <1>3 DEF Held
<1>5. Sound(b) /\ Owners(b) \subseteq Owners(arb)
  BY <1>1, <1>3, <1>4 DEF Sound, ArbRecord, Owners
<1>6. arb' = Updated(b)
  BY DEF ScanChoose, Deleted
<1>7. Sound(arb') /\ Owners(arb') \subseteq Owners(arb)
  BY <1>5, <1>6, UpdatedSound
<1>8. Adds(Running)
  BY <1>7 DEF Adds, Owners
<1>9. TypeOK'
  BY <1>7, UnsetType DEF ScanChoose, IInv, TypeOK, Sound
<1> QED
  BY <1>8, <1>9, StepKept DEF ScanChoose

LEMMA ScanNoneKept ==
  ASSUME IInv, ScanNone
  PROVE  Preserved
<1>1. Sound(arb') /\ Owners(arb') = Owners(arb)
  BY InvSound, SampledSound DEF ScanNone
<1>2. Adds(Running)
  BY <1>1 DEF Adds, Owners
<1>3. Watched \in SUBSET Seqs
  BY SeqTypes DEF Watched, Held, IInv, TypeOK, ArbRecord
<1>4. TypeOK'
  <2>1. sel.tries + 1 \in Nat
    BY DEF IInv, TypeOK, Selection
  <2>2. sel' \in Selection
    BY <1>3, <2>1, UnsetType DEF ScanNone
  <2> QED
    BY <1>1, <2>2 DEF ScanNone, IInv, TypeOK, Sound
<1> QED
  BY <1>2, <1>4, StepKept DEF ScanNone

-----------------------------------------------------------------------------
THEOREM InitInv == Init => IInv
<1> SUFFICES ASSUME Init PROVE IInv
  OBVIOUS
<1>1. arb \in ArbRecord /\ arb.q = <<>> /\ arb.locks = <<>>
  BY DEF Init, ArbRecord
<1>2. TypeOK
  BY <1>1, UnsetType DEF Init, TypeOK, Arbitrations, States
<1>3. LockChain /\ CleanExit
  BY <1>1 DEF LockChain, Nested, CleanExit, Owners, Held
<1> QED
  BY <1>2, <1>3 DEF IInv

LEMMA NextPreserves == IInv /\ [Next]_arbVars => Preserved
<1> SUFFICES ASSUME IInv, [Next]_arbVars PROVE Preserved
  OBVIOUS
<1>1. ASSUME NEW t \in Threads, ThreadStep(t) PROVE Preserved
  <2>1. ASSUME NEW l \in BOOLEAN, WaitForGrant(t, l) PROVE Preserved
    BY <2>1, WaitForGrantKept
  <2>2. ASSUME NEW l \in BOOLEAN, LockReq(t, l) PROVE Preserved
    BY <2>2, LockReqKept
  <2>3. CASE Resume(t) \/ WaitAgain(t)
    BY <2>3, ResumeKept
  <2>4. CASE SendRequest(t)
    BY <2>4, SendRequestKept
  <2>5. CASE Unlock(t)
    BY <2>5, UnlockKept
  <2>6. CASE KillThread(t)
    BY <2>6, QuietKept
  <2> QED
    BY <1>1, <2>1, <2>2, <2>3, <2>4, <2>5, <2>6 DEF ThreadStep
<1>2. ASSUME NEW s \in Seqs, SeqStep(s) PROVE Preserved
  <2>1. CASE KillSequence(s)
    BY <2>1, KillKept DEF KillSequence
  <2>2. CASE FinishSequence(s)
    BY <2>2, FinishSequenceKept
  <2>3. CASE SetRelevant(s)
    BY <2>3, QuietKept
  <2>4. CASE StartSequence(s)
    BY <2>4, StartSequenceKept
  <2> QED
    BY <1>2, <2>1, <2>2, <2>3, <2>4 DEF SeqStep
<1>3. CASE StopSequences
  <2>1. arb.reg \in SUBSET Seqs
    BY DEF IInv, TypeOK, ArbRecord
  <2> QED
    BY <1>3, <2>1, KillKept DEF StopSequences
<1>4. CASE \E m \in Modes : SetArbitration(m)
  BY <1>4, QuietKept
<1>5. CASE SelectBegin
  BY <1>5, SelectBeginKept
<1>6. CASE Scan
  <2>1. CASE ScanZombie
    BY <2>1, ScanZombieKept
  <2>2. CASE ScanEntry \/ ScanNull \/ ScanFatal \/ ScanGiveUp
    BY <2>2, QuietKept
  <2>3. CASE ScanNone
    BY <2>3, ScanNoneKept
  <2>4. ASSUME NEW i \in DOMAIN arb.q, ScanChoose(i) PROVE Preserved
    BY <2>4, ScanChooseKept
  <2> QED
    BY <1>6, <2>1, <2>2, <2>3, <2>4 DEF Scan
<1>7. CASE SelectWake
  BY <1>7, QuietKept
<1>8. CASE UNCHANGED arbVars
  BY <1>8 DEF arbVars, IInv, TypeOK, LockChain, Nested, CleanExit, Owners, Held, Preserved
<1>9. CASE \/ GrantLocks \/ \E r \in arb.done : Reclaim(r)
           \/ \E l \in BOOLEAN : SelectKilled(l)
  BY <1>9, DriverKept
<1> QED
  BY <1>1, <1>2, <1>3, <1>4, <1>5, <1>6, <1>7, <1>8, <1>9 DEF Next, Others

THEOREM NextInv == IInv /\ [Next]_arbVars => IInv'
BY NextPreserves DEF Preserved

(* The types, the nesting of locks along families and the clean exit of    *)
(* sequences hold in every reachable state, for any sequences, processes,  *)
(* families, kills and arbitration modes.                                  *)
THEOREM Invariance == Spec => []IInv
BY InitInv, NextInv, PTL DEF Spec

(* Types are kept by every step of the sequencer. *)
THEOREM TypeCorrect == Spec => []TypeOK
BY Invariance, PTL DEF IInv

(* Unrelated sequences never hold the sequencer at the same time. *)
THEOREM LocksNest == Spec => []LockChain
BY Invariance, PTL DEF IInv

(* Sequences that are over own no request and no lock. *)
THEOREM ExitsAreClean == Spec => []CleanExit
BY Invariance, PTL DEF IInv

------------------------------------------------------------------------------
(***************************************************************************)
(* For every set of sequences, processes and modes: no completed request   *)
(* is slept through, and a request is forgotten only when a body of its    *)
(* family returns or a zombie of its family is taken out.                  *)
(*                                                                         *)
(* The first needs to know where the request of a process may be.  A       *)
(* request somebody waits for is queued or completed, once and not both    *)
(* (Single); whoever has one there waits for it or is dead (Expected); and *)
(* a completion finds its process with an old copy of m_lock_arb_size      *)
(* (Alert).  The lock requests of wait_for_grant (prelock) are exempt: no  *)
(* process waits for them, and their completions stay.                     *)
(*                                                                         *)
(* The second looks at one step (Leaves).  If no process dies beside its   *)
(* sequence (Forked is empty) there are no zombies (Buried), and what a    *)
(* running sequence under running parents awaits is always known.          *)
(***************************************************************************)
Own(r) == r.tag # "prelock"

Entries(a) == Held(a.q) \cup a.done

Single(a) ==
  /\ \A i, j \in DOMAIN a.q : Own(a.q[i]) /\ a.q[i] = a.q[j] => i = j
  /\ \A i \in DOMAIN a.q : Own(a.q[i]) => a.q[i] \notin a.done

Alert(a) == \A r \in a.done : Own(r) => r.t \notin a.snap

Well(a) == a \in ArbRecord /\ Single(a) /\ Alert(a)

Expected(p, r) ==
  \/ p[r.t] = "dead"
  \/ r.tag = "grant" /\ p[r.t] = "waitGrant"
  \/ r.tag = "lock" /\ p[r.t] = "waitLock"

Mine(a, p) == \A r \in Entries(a) : Own(r) => Expected(p, r)

RInv == IInv /\ Well(arb) /\ Mine(arb, pc)

-----------------------------------------------------------------------------
(* Keeping positions of a queue makes no request appear twice. *)
LEMMA SingleKept ==
  ASSUME NEW a \in ArbRecord, Single(a), NEW K \in SUBSET (DOMAIN a.q),
         NEW b \in ArbRecord, b.q = Kept(a.q, K), b.done = a.done
  PROVE  Single(b) /\ Held(b.q) = {a.q[i] : i \in K} /\ Entries(b) \subseteq Entries(a)
<1>1. a.q \in Seq(Request) /\ b.q \in Seq(Request)
  BY DEF ArbRecord
<1>2. Held(b.q) = {a.q[i] : i \in K}
  BY <1>1, KeptHeld
<1>3. \A k \in DOMAIN b.q : Nth(K, k) \in K /\ b.q[k] = a.q[Nth(K, k)]
  BY <1>1, KeptEntry
<1>4. ASSUME NEW k \in DOMAIN b.q, NEW l \in DOMAIN b.q, Own(b.q[k]), b.q[k] = b.q[l]
      PROVE  k = l
  <2>1. Nth(K, k) = Nth(K, l)
    BY <1>3, <1>4 DEF Single
  <2>2. k \in Nat /\ l \in Nat /\ Nth(K, k) \in Nat
    BY <1>1, <1>3
  <2>3. ~(k < l)
    BY <1>1, <2>1, <2>2, KeptOrder
  <2>4. ~(l < k)
    BY <1>1, <2>1, <2>2, KeptOrder
  <2> QED
    BY <2>2, <2>3, <2>4
<1> QED
  BY <1>2, <1>3, <1>4 DEF Single, Entries, Held

LEMMA RemovedWell ==
  ASSUME NEW a, Sound(a), Well(a), NEW S \in SUBSET Seqs
  PROVE  Well(Removed(a, S)) /\ Entries(Removed(a, S)) \subseteq Entries(a)
<1> DEFINE keepQ == {i \in DOMAIN a.q : ReqSeq(a.q[i]) \notin Families(S)}
           b == Removed(a, S)
<1>1. b \in ArbRecord /\ a \in ArbRecord
  BY RemovedSound DEF Sound
<1>2. b.q = Kept(a.q, keepQ) /\ b.done = a.done /\ b.snap \subseteq a.snap
  BY <1>1 DEF Removed, ArbRecord
<1>3. Single(b) /\ Entries(b) \subseteq Entries(a)
  BY <1>1, <1>2, SingleKept DEF Well
<1> QED
  BY <1>1, <1>2, <1>3 DEF Well, Alert

(* A request that is completed leaves the queue, and everybody is awake. *)
LEMMA CompletedWell ==
  ASSUME NEW a \in ArbRecord, Single(a), NEW i \in DOMAIN a.q, NEW b \in ArbRecord,
         b.q = Deleted(a.q, i), b.done = a.done \cup {a.q[i]}, b.snap = {}
  PROVE  Well(b) /\ Entries(b) \subseteq Entries(a)
<1> DEFINE K == DOMAIN a.q \ {i}
           c == [b EXCEPT !.done = a.done]
<1>1. c \in ArbRecord /\ c.q = Kept(a.q, K) /\ c.done = a.done /\ b.q = c.q
  BY DEF ArbRecord, Deleted
<1>2. Single(c) /\ Held(c.q) = {a.q[j] : j \in K} /\ Entries(c) \subseteq Entries(a)
  BY <1>1, SingleKept
<1>3. \A k \in DOMAIN b.q : Own(b.q[k]) => b.q[k] \notin b.done
  <2> SUFFICES ASSUME NEW k \in DOMAIN b.q, Own(b.q[k]) PROVE b.q[k] # a.q[i]
    BY <1>1, <1>2 DEF Single
  <2>1. PICK j \in K : b.q[k] = a.q[j]
    BY <1>1, <1>2 DEF Held
  <2> QED
    BY <2>1 DEF Single
<1>4. Single(b)
  BY <1>1, <1>2, <1>3 DEF Single
<1>5. Entries(b) \subseteq Entries(a)
  BY <1>1, <1>2 DEF Entries, Held
<1> QED
  BY <1>4, <1>5 DEF Well, Alert

LEMMA LocksGrantedWell ==
  ASSUME NEW a, Sound(a), Well(a)
  PROVE  Well(LocksGranted(a)) /\ Entries(LocksGranted(a)) \subseteq Entries(a)
<1> DEFINE b == Removed(a, LockZombies(a))
           i == First(Unblocked(b))
           c == GrantedLock(b, i)
<1>1. LockZombies(a) \in SUBSET Seqs
  BY SeqTypes DEF LockZombies, Held, Sound, ArbRecord
<1>2. Sound(b) /\ Well(b) /\ Entries(b) \subseteq Entries(a)
  BY <1>1, RemovedSound, RemovedWell
<1>3. CASE Unblocked(b) = {}
  BY <1>2, <1>3 DEF LocksGranted
<1>4. CASE Unblocked(b) # {}
  <2>1. b.q \in Seq(Request)
    BY <1>2 DEF Sound, ArbRecord
  <2>2. Len(b.q) \in Nat /\ Unblocked(b) \in SUBSET (1 .. Len(b.q))
    BY <2>1 DEF Unblocked
  <2>3. i \in Unblocked(b) /\ i \in DOMAIN b.q
    BY <1>4, <2>2, FirstIsLeast DEF Unblocked
  <2>4. c \in ArbRecord
    BY <1>2, <2>3, GrantedLockSound DEF Sound
  <2>5. c.q = Deleted(b.q, i) /\ c.done = b.done \cup {b.q[i]} /\ c.snap = {}
    BY <1>2 DEF GrantedLock, Updated, Sound, ArbRecord
  <2>6. Well(c) /\ Entries(c) \subseteq Entries(b)
    BY <1>2, <2>3, <2>4, <2>5, CompletedWell DEF Well
  <2> QED
    BY <1>2, <1>4, <2>6 DEF LocksGranted
<1> QED
  BY <1>3, <1>4

-----------------------------------------------------------------------------
(* A process that runs or sends awaits nothing, so it may turn to anything. *)
LEMMA MineKept ==
  ASSUME NEW a, NEW b, NEW p, NEW x, Mine(a, p), Entries(b) \subseteq Entries(a),
         Entries(a) \subseteq Request,
         \A t \in Threads : x[t] \in {p[t], "dead"} \/ p[t] \in {"run", "granted"}
  PROVE  Mine(b, x)
<1> SUFFICES ASSUME NEW r \in Entries(b), Own(r) PROVE Expected(x, r)
  BY DEF Mine
<1>1. r \in Entries(a) /\ r.t \in Threads /\ Expected(p, r)
  BY DEF Mine, Request
<1> QED
  BY <1>1 DEF Expected

LEMMA RequestTypes ==
  ASSUME RInv
  PROVE  /\ Sound(arb) /\ Well(arb) /\ Mine(arb, pc) /\ Entries(arb) \subseteq Request
         /\ pc \in [Threads -> {"run", "waitGrant", "waitLock", "granted", "dead"}]
BY InvSound DEF RInv, Entries, Held, Sound, ArbRecord, IInv, TypeOK

(* Of a process that waits only the awaited request is anywhere. *)
LEMMA AwaitedOnly ==
  ASSUME RInv, NEW r \in Entries(arb), Own(r)
  PROVE  /\ pc[r.t] \notin {"run", "granted"}
         /\ Waiting(r.t) => r = Awaited(r.t)
<1>1. r \in Request /\ Expected(pc, r)
  BY RequestTypes DEF Mine
<1>2. pc[r.t] \notin {"run", "granted"}
  BY <1>1 DEF Expected
<1>3. ASSUME Waiting(r.t) PROVE r = Awaited(r.t)
  <2>1. r = [t |-> r.t, tag |-> r.tag]
    BY <1>1 DEF Request
  <2>2. r.tag = IF pc[r.t] = "waitGrant" THEN "grant" ELSE "lock"
    BY <1>1, <1>3 DEF Expected, Waiting
  <2> QED
    BY <2>1, <2>2 DEF Awaited
<1> QED
  BY <1>2, <1>3

LEMMA ConsumedWell ==
  ASSUME NEW a, Well(a), NEW r
  PROVE  /\ Well(Consumed(a, r))
         /\ Entries(Consumed(a, r)) \subseteq Entries(a)
         /\ r \in a.done /\ Own(r) => r \notin Entries(Consumed(a, r))
<1> DEFINE b == Consumed(a, r)
<1>1. /\ a \in ArbRecord /\ b \in ArbRecord /\ b.q = a.q
      /\ b.done = a.done \ {r} /\ b.snap = a.snap
  BY DEF Well, Consumed, ArbRecord
<1> QED
  BY <1>1 DEF Well, Single, Alert, Entries, Held

LEMMA SampledWell ==
  ASSUME NEW a, Well(a), NEW t \in Threads \cup {Selector},
         \A r \in a.done : Own(r) => r.t # t
  PROVE  Well(Sampled(a, t)) /\ Entries(Sampled(a, t)) = Entries(a)
<1> DEFINE b == Sampled(a, t)
<1>1. /\ a \in ArbRecord /\ b \in ArbRecord /\ b.q = a.q
      /\ b.done = a.done /\ b.snap = a.snap \cup {t}
  BY DEF Well, Sampled, ArbRecord
<1> QED
  BY <1>1 DEF Well, Single, Alert, Entries, Held

LEMMA UpdatedWell ==
  ASSUME NEW a, Well(a)
  PROVE  Well(Updated(a)) /\ Entries(Updated(a)) = Entries(a)
<1> DEFINE b == Updated(a)
<1>1. /\ a \in ArbRecord /\ b \in ArbRecord /\ b.q = a.q
      /\ b.done = a.done /\ b.snap = {}
  BY DEF Well, Updated, ArbRecord
<1> QED
  BY <1>1 DEF Well, Single, Alert, Entries, Held

LEMMA RegisteredWell ==
  ASSUME NEW a, Sound(a), Well(a), NEW s \in Seqs
  PROVE  Well(Registered(a, s)) /\ Entries(Registered(a, s)) = Entries(a)
<1> DEFINE b == Registered(a, s)
<1>1. /\ b \in ArbRecord /\ b.q = a.q
      /\ b.done = a.done /\ b.snap = a.snap
  BY RegisteredSound DEF Well, Registered, Sound, ArbRecord
<1> QED
  BY <1>1 DEF Well, Single, Alert, Entries, Held

(* New requests keep the queue single if none of them is there already,    *)
(* wherever they join it.                                                  *)
Fresh(a, new) ==
  /\ \A i, j \in DOMAIN new : Own(new[i]) /\ new[i] = new[j] => i = j
  /\ \A i \in DOMAIN new : Own(new[i]) => new[i] \notin Entries(a)

LEMMA JoinedWell ==
  ASSUME NEW a, Well(a), NEW new \in Seq(Request), Fresh(a, new),
         NEW b \in ArbRecord, b.q = a.q \o new \/ b.q = new \o a.q,
         b.done = a.done, b.snap \subseteq a.snap
  PROVE  Well(b) /\ Entries(b) \subseteq Entries(a) \cup Held(new)
<1>1. /\ a.q \in Seq(Request) /\ Len(a.q) \in Nat /\ Len(new) \in Nat
      /\ DOMAIN a.q = 1 .. Len(a.q) /\ DOMAIN new = 1 .. Len(new)
  BY DEF Well, ArbRecord
<1> DEFINE Joined(x, y) ==
             /\ DOMAIN b.q = 1 .. Len(x) + Len(y)
             /\ \A i \in DOMAIN b.q :
                  IF i <= Len(x) THEN i \in DOMAIN x /\ b.q[i] = x[i]
                  ELSE i - Len(x) \in DOMAIN y /\ b.q[i] = y[i - Len(x)]
<1>2. Joined(a.q, new) \/ Joined(new, a.q)
  <2>1. CASE b.q = a.q \o new
    BY <1>1, <2>1
  <2>2. CASE b.q = new \o a.q
    BY <1>1, <2>2
  <2> QED
    BY <2>1, <2>2
<1>3. Held(b.q) \subseteq Held(a.q) \cup Held(new)
  BY <1>2 DEF Held
<1>4. \A i, j \in DOMAIN b.q : Own(b.q[i]) /\ b.q[i] = b.q[j] => i = j
  <2> SUFFICES ASSUME NEW i \in DOMAIN b.q, NEW j \in DOMAIN b.q,
                      Own(b.q[i]), b.q[i] = b.q[j]
               PROVE  i = j
    OBVIOUS
  <2>1. ASSUME NEW x \in Seq(Request), NEW y \in Seq(Request), Joined(x, y),
               \A k, l \in DOMAIN x : Own(x[k]) /\ x[k] = x[l] => k = l,
               \A k, l \in DOMAIN y : Own(y[k]) /\ y[k] = y[l] => k = l,
               \A k \in DOMAIN x, l \in DOMAIN y : Own(x[k]) => x[k] # y[l]
        PROVE  i = j
    <3>1. Len(x) \in Nat /\ Len(y) \in Nat /\ i \in Nat /\ j \in Nat
      BY <2>1
    <3>2. CASE i <= Len(x) /\ j <= Len(x)
      BY <2>1, <3>2
    <3>3. CASE i > Len(x) /\ j > Len(x)
      <4>1. ~(i <= Len(x)) /\ ~(j <= Len(x))
        BY <3>1, <3>3
      <4>2. /\ i - Len(x) \in DOMAIN y /\ b.q[i] = y[i - Len(x)]
            /\ j - Len(x) \in DOMAIN y /\ b.q[j] = y[j - Len(x)]
        BY <2>1, <4>1
      <4>3. i - Len(x) = j - Len(x)
        BY <2>1, <4>2
      <4> QED
        BY <3>1, <4>3
    <3>4. CASE i <= Len(x) /\ j > Len(x)
      BY <2>1, <3>1, <3>4
    <3>5. CASE i > Len(x) /\ j <= Len(x)
      BY <2>1, <3>1, <3>5
    <3> QED
      BY <3>1, <3>2, <3>3, <3>4, <3>5
  <2>2. \A k \in DOMAIN a.q, l \in DOMAIN new : Own(a.q[k]) => a.q[k] # new[l]
    BY DEF Fresh, Entries, Held
  <2>3. \A k \in DOMAIN new, l \in DOMAIN a.q : Own(new[k]) => new[k] # a.q[l]
    BY DEF Fresh, Entries, Held
  <2> QED
    BY <1>1, <1>2, <2>1, <2>2, <2>3 DEF Well, Single, Fresh
<1>5. \A i \in DOMAIN b.q : Own(b.q[i]) => b.q[i] \notin b.done
  BY <1>3 DEF Held, Well, Single, Fresh, Entries
<1> QED
  BY <1>3, <1>4, <1>5 DEF Well, Single, Alert, Entries

-----------------------------------------------------------------------------
(* What is left to show of a step, the invariant of SequencerArbProofs      *)
(* being kept by every step.                                               *)
Requests == Well(arb) /\ Mine(arb, pc)

(* Steps that complete or remove requests and wake or kill processes. *)
LEMMA FewerKept ==
  ASSUME RInv, Well(arb'), Entries(arb') \subseteq Entries(arb),
         \A t \in Threads : pc'[t] \in {pc[t], "dead"} \/ pc[t] \in {"run", "granted"}
  PROVE  Requests'
<1>1. Mine(arb', pc')
  BY RequestTypes, MineKept
<1> QED
  BY <1>1 DEF Requests, Mine

LEMMA WaitForGrantRequests ==
  ASSUME RInv, NEW t \in Threads, NEW l \in BOOLEAN, WaitForGrant(t, l)
  PROVE  Requests'
<1> DEFINE a == Registered(arb, SeqOf[t])
           g == [t |-> t, tag |-> "grant"]
           p == [t |-> t, tag |-> "prelock"]
           new == IF l THEN <<p, g>> ELSE <<g>>
           b == [a EXCEPT !.q = a.q \o new]
           c == Updated(b)
<1>1. SeqOf[t] \in Seqs /\ pc[t] = "run"
  BY RunsTypes DEF WaitForGrant, Runs
<1>2. Sound(a) /\ Well(a) /\ Entries(a) = Entries(arb)
  BY <1>1, RequestTypes, RegisteredSound, RegisteredWell
<1>3. \A r \in Entries(arb) : Own(r) => r.t # t
  BY <1>1, AwaitedOnly
<1>4. new \in Seq(Request) /\ Fresh(a, new) /\ Held(new) \subseteq {p, g}
  <2>1. g \in Request /\ p \in Request /\ ~Own(p) /\ g \notin Entries(a)
    BY <1>2, <1>3 DEF Request, Tags, Own
  <2>2. CASE l
    <3>1. DOMAIN new = {1, 2} /\ new[1] = p /\ new[2] = g
      BY <2>2
    <3> QED
      BY <2>1, <2>2, <3>1 DEF Fresh, Held
  <2>3. CASE ~l
    <3>1. DOMAIN new = {1} /\ new[1] = g
      BY <2>3
    <3> QED
      BY <2>1, <2>3, <3>1 DEF Fresh, Held
  <2> QED
    BY <2>2, <2>3
<1>5. b \in ArbRecord
  BY <1>2, <1>4, QueueSound DEF Sound
<1>6. b.q = a.q \o new /\ b.done = a.done /\ b.snap \subseteq a.snap
  BY <1>2 DEF Sound, ArbRecord
<1>7. Well(b) /\ Entries(b) \subseteq Entries(arb) \cup {p, g}
  <2> HIDE DEF a, b, new, p, g
  <2> QED
    BY <1>2, <1>4, <1>5, <1>6, JoinedWell
<1>8. Well(c) /\ Entries(c) = Entries(b) /\ c.done = arb.done
  <2>1. a.done = arb.done
    BY RequestTypes DEF Registered, Sound, ArbRecord
  <2>2. c.done = b.done
    BY <1>5 DEF Updated, ArbRecord
  <2> QED
    BY <1>6, <1>7, <2>1, <2>2, UpdatedWell
<1>9. arb' = Sampled(c, t)
  BY DEF WaitForGrant
<1>10. Well(arb') /\ Entries(arb') = Entries(c)
  BY <1>3, <1>8, <1>9, SampledWell DEF Entries
<1>11. Mine(arb', pc')
  <2> SUFFICES ASSUME NEW r \in Entries(arb'), Own(r) PROVE Expected(pc', r)
    BY DEF Mine
  <2>1. pc' = [pc EXCEPT ![t] = "waitGrant"]
    BY DEF WaitForGrant
  <2>2. CASE r = g
    BY <2>1, <2>2, RequestTypes DEF Expected
  <2>3. CASE r \in Entries(arb)
    <3>1. r \in Request /\ r.t \in Threads /\ Expected(pc, r) /\ r.t # t
      BY <1>3, <2>3, RequestTypes DEF Mine, Request
    <3> QED
      BY <2>1, <3>1, RequestTypes DEF Expected
  <2>4. r # p
    BY DEF Own
  <2> QED
    BY <1>7, <1>8, <1>10, <2>2, <2>3, <2>4
<1> QED
  BY <1>10, <1>11 DEF Requests, Mine

LEMMA LockReqRequests ==
  ASSUME RInv, NEW t \in Threads, NEW grab \in BOOLEAN, LockReq(t, grab)
  PROVE  Requests'
<1> DEFINE r == [t |-> t, tag |-> "lock"]
           a == Registered(arb, SeqOf[t])
           b == Queued(a, r, grab)
           c == LocksGranted(b)
<1>1. SeqOf[t] \in Seqs /\ pc[t] = "run"
  BY RunsTypes DEF LockReq, Runs
<1>2. Sound(a) /\ Well(a) /\ Entries(a) = Entries(arb)
  BY <1>1, RequestTypes, RegisteredSound, RegisteredWell
<1>3. \A x \in Entries(arb) : Own(x) => x.t # t
  BY <1>1, AwaitedOnly
<1>4. <<r>> \in Seq(Request) /\ Fresh(a, <<r>>) /\ Held(<<r>>) = {r} /\ Own(r)
  <2>1. r \in Request /\ r \notin Entries(a) /\ Own(r)
    BY <1>2, <1>3 DEF Request, Tags, Own
  <2> QED
    BY <2>1 DEF Fresh, Held
<1>5. Sound(b) /\ Well(b) /\ Entries(b) \subseteq Entries(arb) \cup {r}
  <2>1. CASE grab
    <3> DEFINE d == [a EXCEPT !.q = <<r>> \o a.q]
    <3>1. Sound(d)
      BY <1>2, <1>4, QueueSound
    <3>2. d.q = <<r>> \o a.q /\ d.done = a.done /\ d.snap \subseteq a.snap /\ d \in ArbRecord
      BY <1>2, <3>1 DEF Sound, ArbRecord
    <3>3. Well(d) /\ Entries(d) \subseteq Entries(arb) \cup {r}
      <4> HIDE DEF d, a, r
      <4> QED
        BY <1>2, <1>4, <3>2, JoinedWell
    <3> QED
      BY <2>1, <3>1, <3>3, UpdatedSound, UpdatedWell DEF Queued
  <2>2. CASE ~grab
    <3> DEFINE d == [a EXCEPT !.q = a.q \o <<r>>]
    <3>1. Sound(d)
      BY <1>2, <1>4, QueueSound
    <3>2. d.q = a.q \o <<r>> /\ d.done = a.done /\ d.snap \subseteq a.snap /\ d \in ArbRecord
      BY <1>2, <3>1 DEF Sound, ArbRecord
    <3>3. Well(d) /\ Entries(d) \subseteq Entries(arb) \cup {r}
      <4> HIDE DEF d, a, r
      <4> QED
        BY <1>2, <1>4, <3>2, JoinedWell
    <3> QED
      BY <2>2, <3>1, <3>3 DEF Queued
  <2> QED
    BY <2>1, <2>2
<1>6. Well(c) /\ Entries(c) \subseteq Entries(arb) \cup {r}
  BY <1>5, LocksGrantedWell
<1>7. CASE r \in c.done
  <2>1. arb' = Consumed(c, r) /\ pc' = pc
    BY <1>7 DEF LockReq
  <2>2. Well(arb') /\ Entries(arb') \subseteq Entries(arb)
    BY <1>4, <1>6, <1>7, <2>1, ConsumedWell
  <2> QED
    BY <2>1, <2>2, FewerKept
<1>8. CASE r \notin c.done
  <2>1. arb' = Sampled(c, t) /\ pc' = [pc EXCEPT ![t] = "waitLock"]
    BY <1>8 DEF LockReq
  <2>2. \A x \in c.done : Own(x) => x.t # t
    BY <1>3, <1>6, <1>8 DEF Entries
  <2>3. Well(arb') /\ Entries(arb') = Entries(c)
    BY <1>6, <2>1, <2>2, SampledWell
  <2>4. Mine(arb', pc')
    <3> SUFFICES ASSUME NEW x \in Entries(arb'), Own(x) PROVE Expected(pc', x)
      BY DEF Mine
    <3>1. CASE x = r
      BY <2>1, <3>1, RequestTypes DEF Expected
    <3>2. CASE x \in Entries(arb)
      <4>1. x \in Request /\ x.t \in Threads /\ Expected(pc, x) /\ x.t # t
        BY <1>3, <3>2, RequestTypes DEF Mine, Request
      <4> QED
        BY <2>1, <4>1, RequestTypes DEF Expected
    <3> QED
      BY <1>6, <2>3, <3>1, <3>2
  <2> QED
    BY <2>3, <2>4 DEF Requests, Mine
<1> QED
  BY <1>7, <1>8

LEMMA ResumeRequests ==
  ASSUME RInv, NEW t \in Threads, Resume(t)
  PROVE  Requests'
<1> DEFINE r == Awaited(t)
<1>1. Well(arb) /\ r \in arb.done /\ Own(r) /\ Waiting(t) /\ arb' = Consumed(arb, r)
  BY RequestTypes DEF Resume, Awaited, Own
<1>2. Well(arb') /\ Entries(arb') \subseteq Entries(arb) /\ r \notin Entries(arb')
  BY <1>1, ConsumedWell
<1>3. \A x \in Threads \ {t} : pc'[x] = pc[x]
  BY RequestTypes DEF Resume
<1>4. Mine(arb', pc')
  <2> SUFFICES ASSUME NEW x \in Entries(arb'), Own(x) PROVE Expected(pc', x)
    BY DEF Mine
  <2>1. x \in Entries(arb) /\ x \in Request /\ x.t \in Threads /\ Expected(pc, x)
    BY <1>2, RequestTypes DEF Mine, Request
  <2>2. x.t # t
    BY <1>1, <1>2, <2>1, AwaitedOnly
  <2> QED
    BY <1>3, <2>1, <2>2 DEF Expected
<1> QED
  BY <1>2, <1>4 DEF Requests, Mine

LEMMA WaitAgainRequests ==
  ASSUME RInv, NEW t \in Threads, WaitAgain(t)
  PROVE  Requests'
<1>1. Well(arb) /\ arb' = Sampled(arb, t) /\ pc' = pc
  BY RequestTypes DEF WaitAgain
<1>2. \A r \in arb.done : Own(r) => r.t # t
  BY AwaitedOnly DEF WaitAgain, Entries
<1>3. Well(arb') /\ Entries(arb') = Entries(arb)
  BY <1>1, <1>2, SampledWell
<1> QED
  BY <1>1, <1>3, FewerKept

(* Changes of the locks or the ids leave the requests alone. *)
LEMMA SameWell ==
  ASSUME NEW a, Well(a), NEW b \in ArbRecord,
         b.q = a.q, b.done = a.done, b.snap \subseteq a.snap
  PROVE  Well(b) /\ Entries(b) = Entries(a)
BY DEF Well, Single, Alert, Entries

LEMMA RunningRequests ==
  ASSUME RInv, NEW t \in Threads, SendRequest(t) \/ Unlock(t) \/ KillThread(t)
  PROVE  Requests'
<1>1. \A x \in Threads : pc'[x] \in {pc[x], "dead"} \/ pc[x] \in {"run", "granted"}
  BY RequestTypes DEF SendRequest, Unlock, KillThread
<1>2. CASE SendRequest(t)
  BY <1>1, <1>2, RequestTypes, LocksGrantedWell, FewerKept DEF SendRequest
<1>3. CASE Unlock(t)
  <2> DEFINE i == First(HeldAt(SeqOf[t]))
             K == DOMAIN arb.locks \ {i}
             b == [arb EXCEPT !.locks = Kept(arb.locks, K)]
             c == LocksGranted(b)
  <2>1. arb \in ArbRecord /\ arb.locks \in Seq(Seqs) /\ K \in SUBSET (DOMAIN arb.locks)
    BY RequestTypes DEF Sound, ArbRecord
  <2>2. Kept(arb.locks, K) \in Seq(Seqs) /\ Nested(Kept(arb.locks, K))
    BY <2>1, RequestTypes, KeptType, NestedKept DEF Sound
  <2>3. Sound(b)
    BY <2>1, <2>2 DEF Sound, ArbRecord
  <2>4. b.q = arb.q /\ b.done = arb.done /\ b.snap = arb.snap
    BY <2>1 DEF ArbRecord
  <2>5. Well(b) /\ Entries(b) = Entries(arb)
    BY <2>3, <2>4, RequestTypes, SameWell DEF Sound
  <2>6. Well(c) /\ Entries(c) \subseteq Entries(arb)
    BY <2>3, <2>5, LocksGrantedWell
  <2>7. arb' = Updated(c)
    BY <1>3 DEF Unlock, Deleted
  <2> QED
    BY <1>1, <2>6, <2>7, UpdatedWell, FewerKept
<1>4. CASE KillThread(t)
  BY <1>1, <1>4, RequestTypes, FewerKept DEF KillThread
<1> QED
  BY <1>2, <1>3, <1>4

LEMMA StartRequests ==
  ASSUME RInv, NEW s \in Seqs, StartSequence(s)
  PROVE  Requests'
BY RequestTypes, RegisteredWell, FewerKept DEF StartSequence

(* The sequences that are stopped take their requests with them. *)
LEMMA KillRequests ==
  ASSUME RInv, NEW S \in SUBSET Seqs, Kill(S)
  PROVE  Requests'
<1> DEFINE a == Removed(arb, Killed(S))
<1>1. Well(a) /\ Entries(a) \subseteq Entries(arb)
  BY KillReach, RequestTypes, RemovedWell
<1>2. arb' \in ArbRecord /\ arb'.q = a.q /\ arb'.done = a.done /\ arb'.snap = a.snap
  BY RequestTypes, KillQueues DEF Sound
<1>3. Well(arb') /\ Entries(arb') \subseteq Entries(arb)
  BY <1>1, <1>2, SameWell
<1>4. \A t \in Threads : pc'[t] \in {pc[t], "dead"}
  BY DEF Kill
<1> QED
  BY <1>3, <1>4, FewerKept

LEMMA FinishRequests ==
  ASSUME RInv, NEW s \in Seqs, FinishSequence(s)
  PROVE  Requests'
<1> DEFINE a == Removed(arb, {s})
<1>1. Sound(a) /\ Well(a) /\ Entries(a) \subseteq Entries(arb)
  BY RequestTypes, RemovedSound, RemovedWell
<1>2. arb' = [a EXCEPT !.ids = a.ids \ {s}]
  BY DEF FinishSequence
<1>3. arb' \in ArbRecord /\ arb'.q = a.q /\ arb'.done = a.done /\ arb'.snap = a.snap
  BY <1>1, <1>2 DEF Sound, ArbRecord
<1>4. Well(arb') /\ Entries(arb') \subseteq Entries(arb)
  BY <1>1, <1>3, SameWell
<1>5. \A t \in Threads : pc'[t] \in {pc[t], "dead"}
  BY DEF FinishSequence
<1> QED
  BY <1>4, <1>5, FewerKept

(* The selection, and what the driver's calls do beside it. *)
LEMMA SelectionRequests ==
  ASSUME RInv, \/ SelectBegin \/ Scan \/ SelectWake \/ GrantLocks
               \/ \E r \in arb.done : Reclaim(r)
               \/ \E l \in BOOLEAN : SelectKilled(l)
  PROVE  Requests'
<1>1. pc' = pc
  BY DEF SelectBegin, Scan, SelectWake, GrantLocks, Reclaim, SelectKilled, ScanZombie,
         ScanEntry, ScanNull, ScanFatal, ScanNone, ScanGiveUp, ScanChoose
<1>2. Well(arb') /\ Entries(arb') \subseteq Entries(arb)
  <2>1. CASE SelectBegin \/ GrantLocks \/ \E l \in BOOLEAN : SelectKilled(l)
    BY <2>1, RequestTypes, LocksGrantedWell DEF SelectBegin, GrantLocks, SelectKilled
  <2>2. CASE \E r \in arb.done : Reclaim(r)
    BY <2>2, RequestTypes, ConsumedWell DEF Reclaim
  <2>3. CASE SelectWake \/ ScanEntry \/ ScanNull \/ ScanFatal \/ ScanGiveUp
    BY <2>3, RequestTypes DEF SelectWake, ScanEntry, ScanNull, ScanFatal, ScanGiveUp
  <2>4. CASE ScanZombie
    <3>1. sel.i \in DOMAIN arb.q /\ arb.q[sel.i] \in Request
      <4>1. sel.i \in Nat \ {0}
        BY DEF RInv, IInv, TypeOK, Selection
      <4>2. arb.q \in Seq(Request)
        BY RequestTypes DEF Sound, ArbRecord
      <4> QED
        BY <2>4, <4>1, <4>2 DEF ScanZombie
    <3>2. {ReqSeq(arb.q[sel.i])} \in SUBSET Seqs
      BY <3>1, SeqTypes
    <3> QED
      BY <2>4, <3>2, RequestTypes, RemovedWell DEF ScanZombie
  <2>5. CASE ScanNone
    <3>1. \A r \in arb.done : r.t # Selector
      BY RequestTypes, SeqAssumption DEF Entries, Request
    <3> QED
      BY <2>5, <3>1, RequestTypes, SampledWell DEF ScanNone
  <2>6. ASSUME NEW i \in DOMAIN arb.q, ScanChoose(i)
        PROVE  Well(arb') /\ Entries(arb') \subseteq Entries(arb)
    <3>1. arb' \in ArbRecord
      BY <2>6, ScanChooseKept DEF RInv, Preserved, IInv, TypeOK
    <3>2. arb'.q = Deleted(arb.q, i) /\ arb'.done = arb.done \cup {arb.q[i]} /\ arb'.snap = {}
      BY <2>6, RequestTypes DEF ScanChoose, Updated, Sound, ArbRecord
    <3> QED
      BY <3>1, <3>2, RequestTypes, CompletedWell DEF Well
  <2> QED
    BY <2>1, <2>2, <2>3, <2>4, <2>5, <2>6 DEF Scan
<1> QED
  BY <1>1, <1>2, FewerKept

-----------------------------------------------------------------------------
THEOREM InitRequests == Init => RInv
<1> SUFFICES ASSUME Init PROVE RInv
  OBVIOUS
<1>1. arb \in ArbRecord /\ arb.q = <<>> /\ arb.done = {}
  BY InitInv DEF Init, IInv, TypeOK
<1>2. Well(arb) /\ Mine(arb, pc)
  BY <1>1 DEF Well, Single, Alert, Mine, Entries, Held
<1> QED
  BY <1>2, InitInv DEF RInv

THEOREM NextRequests == RInv /\ [Next]_arbVars => RInv'
<1> SUFFICES ASSUME RInv, [Next]_arbVars PROVE RInv'
  OBVIOUS
<1>1. IInv'
  BY NextInv DEF RInv
<1>2. Requests'
  <2>1. ASSUME NEW t \in Threads, ThreadStep(t) PROVE Requests'
    BY <2>1, WaitForGrantRequests, LockReqRequests, ResumeRequests, WaitAgainRequests,
       RunningRequests DEF ThreadStep
  <2>2. ASSUME NEW s \in Seqs, SeqStep(s) PROVE Requests'
    <3>1. CASE SetRelevant(s)
      BY <3>1, RequestTypes, FewerKept DEF SetRelevant
    <3> QED
      BY <2>2, <3>1, StartRequests, KillRequests, FinishRequests DEF SeqStep, KillSequence
  <2>3. CASE StopSequences
    <3>1. arb.reg \in SUBSET Seqs
      BY RequestTypes DEF Sound, ArbRecord
    <3> QED
      BY <2>3, <3>1, KillRequests DEF StopSequences
  <2>4. CASE (\E m \in Modes : SetArbitration(m)) \/ UNCHANGED arbVars
    BY <2>4, RequestTypes, FewerKept DEF SetArbitration, arbVars
  <2> QED
    BY <2>1, <2>2, <2>3, <2>4, SelectionRequests DEF Next, Others
<1> QED
  BY <1>1, <1>2 DEF RInv, Requests

THEOREM RequestInvariance == Spec => []RInv
BY InitRequests, NextRequests, PTL DEF Spec

(* A process whose request is completed is not asleep on m_lock_arb_size:  *)
(* whichever step enters a completion wakes everybody, and no process      *)
(* samples the counter with its completion already there.                  *)
THEOREM CompletionsWake == Spec => []WakeNotLost
<1>1. RInv => WakeNotLost
  <2> SUFFICES ASSUME RInv, NEW t \in Threads, Waiting(t), Awaited(t) \in arb.done
               PROVE  t \notin arb.snap
    BY DEF WakeNotLost
  <2>1. Alert(arb) /\ Own(Awaited(t)) /\ Awaited(t).t = t
    BY DEF RInv, Well, Awaited, Own
  <2> QED
    BY <2>1 DEF Alert
<1> QED
  BY <1>1, RequestInvariance, PTL

-----------------------------------------------------------------------------
(* What the arbiter forgets.  Every step leaves the entry of a process     *)
(* that goes on waiting, except where whole families are taken out: those  *)
(* of zombies, and that of a body that returns.                            *)
Zombies == {s \in Seqs : Zombie(s)}

(* Of a queue only the families that are removed lose anything.            *)
LEMMA RemovedLeaves ==
  ASSUME NEW a, Sound(a), NEW S \in SUBSET Seqs,
         NEW r \in Entries(a), ReqSeq(r) \notin Families(S)
  PROVE  r \in Entries(Removed(a, S))
<1> DEFINE keepQ == {i \in DOMAIN a.q : ReqSeq(a.q[i]) \notin Families(S)}
<1>1. a \in ArbRecord /\ a.q \in Seq(Request)
  BY DEF Sound, ArbRecord
<1>2. Removed(a, S).q = Kept(a.q, keepQ) /\ Removed(a, S).done = a.done
  BY <1>1 DEF Removed, ArbRecord
<1>3. Held(Kept(a.q, keepQ)) = {a.q[i] : i \in keepQ}
  BY <1>1, KeptHeld
<1> QED
  BY <1>2, <1>3 DEF Entries, Held

(* A request that is completed is still an entry.                          *)
LEMMA CompletedStays ==
  ASSUME NEW a, a.q \in Seq(Request), NEW i \in DOMAIN a.q, NEW b,
         b.q = Deleted(a.q, i), b.done = a.done \cup {a.q[i]}
  PROVE  Entries(a) \subseteq Entries(b)
<1> DEFINE K == DOMAIN a.q \ {i}
<1>1. Held(Kept(a.q, K)) = {a.q[j] : j \in K}
  BY KeptHeld
<1>2. Held(b.q) = {a.q[j] : j \in K}
  BY <1>1 DEF Deleted
<1> QED
  BY <1>2 DEF Entries, Held

(* grant_queued_locks takes nothing away but the families of zombies.      *)
LEMMA LocksGrantedLeaves ==
  ASSUME NEW a, Sound(a), NEW r \in Entries(a), ReqSeq(r) \notin Families(LockZombies(a))
  PROVE  r \in Entries(LocksGranted(a))
<1> DEFINE b == Removed(a, LockZombies(a))
           i == First(Unblocked(b))
           c == GrantedLock(b, i)
<1>1. LockZombies(a) \in SUBSET Seqs
  BY SeqTypes DEF LockZombies, Held, Sound, ArbRecord
<1>2. Sound(b) /\ r \in Entries(b)
  BY <1>1, RemovedSound, RemovedLeaves
<1>3. CASE Unblocked(b) = {}
  BY <1>2, <1>3 DEF LocksGranted
<1>4. CASE Unblocked(b) # {}
  <2>1. b \in ArbRecord /\ b.q \in Seq(Request)
    BY <1>2 DEF Sound, ArbRecord
  <2>2. Len(b.q) \in Nat /\ Unblocked(b) \in SUBSET (1 .. Len(b.q))
    BY <2>1 DEF Unblocked
  <2>3. i \in DOMAIN b.q
    BY <1>4, <2>2, FirstIsLeast DEF Unblocked
  <2>4. c.q = Deleted(b.q, i) /\ c.done = b.done \cup {b.q[i]}
    BY <2>1 DEF GrantedLock, Updated, ArbRecord
  <2>5. Entries(b) \subseteq Entries(c)
    <3> HIDE DEF b, c, i
    <3> QED
      BY <2>1, <2>3, <2>4, CompletedStays
  <2>6. LocksGranted(a) = c
    BY <1>4 DEF LocksGranted
  <2> QED
    BY <1>2, <2>5, <2>6
<1> QED
  BY <1>3, <1>4

(* The zombies grant_queued_locks finds were in the queue before, unless   *)
(* the request that is new is one.                                         *)
LEMMA LockZombiesFound ==
  ASSUME Sound(arb), NEW a, NEW t \in Threads, pc[t] # "dead",
         \A r \in Held(a.q) : r \in Held(arb.q) \/ r.t = t
  PROVE  LockZombies(a) \subseteq Zombies
<1> SUFFICES ASSUME NEW r \in Held(a.q), r.t \in DeadThreads
             PROVE  ReqSeq(r) \in Zombies
  BY DEF LockZombies
<1>1. r \in Held(arb.q)
  BY DEF DeadThreads
<1>2. r \in Request
  BY <1>1 DEF Held, Sound, ArbRecord
<1> QED
  BY <1>1, <1>2, SeqTypes DEF Zombies, Zombie

LEMMA QueueZombies ==
  ASSUME Sound(arb), NEW a, a.q = arb.q
  PROVE  LockZombies(a) \subseteq Zombies
<1> SUFFICES ASSUME NEW r \in Held(arb.q), r.t \in DeadThreads
             PROVE  ReqSeq(r) \in Zombies
  BY DEF LockZombies
<1>1. r \in Request
  BY DEF Held, Sound, ArbRecord
<1> QED
  BY <1>1, SeqTypes DEF Zombies, Zombie

(* What a step leaves to a process: the entry it awaits, unless a family   *)
(* it belongs to is one of S.                                              *)
Leaves(S) ==
  \A t \in Threads :
    Waiting(t) /\ Waiting(t)' =>
      /\ pc'[t] = pc[t]
      /\ Awaited(t) \in Entries(arb) /\ SeqOf[t] \notin Families(S)
           => Awaited(t) \in Entries(arb')

Ended == {s \in Seqs : Returns(s)}

(* In the words of the property.                                           *)
Remembers ==
  \A t \in Threads :
    Waiting(t) /\ Waiting(t)' /\ Known(t) /\ ~Known(t)'
      => \E s \in Line(SeqOf[t]) : Returns(s) \/ Zombie(s)

LEMMA LeavesRemember == Leaves(Zombies \cup Ended) => Remembers
<1> SUFFICES ASSUME Leaves(Zombies \cup Ended), NEW t \in Threads,
                    Waiting(t), Waiting(t)', Known(t), ~Known(t)'
             PROVE  \E s \in Line(SeqOf[t]) : Returns(s) \/ Zombie(s)
  BY DEF Remembers
<1>1. pc'[t] = pc[t]
  BY DEF Leaves
<1>2. Awaited(t)' = Awaited(t)
  BY <1>1 DEF Awaited
<1>3. Awaited(t) \in Entries(arb) /\ Awaited(t) \notin Entries(arb')
  BY <1>2 DEF Known, Entries
<1>4. SeqOf[t] \in Families(Zombies \cup Ended)
  BY <1>3 DEF Leaves
<1>5. PICK s \in Zombies \cup Ended : SeqOf[t] = s \/ s \in Ancestors[SeqOf[t]]
  BY <1>4 DEF Families, Family
<1> QED
  BY <1>5 DEF Line, Zombies, Ended

(* Steps that take out no entry and let no waiting process turn.           *)
LEMMA NothingForgotten ==
  ASSUME NEW S, Entries(arb) \subseteq Entries(arb'),
         \A t \in Threads : pc'[t] = pc[t] \/ ~Waiting(t) \/ ~Waiting(t)'
  PROVE  Leaves(S)
BY DEF Leaves

(* Steps that grant locks in a queue of the same requests and perhaps new  *)
(* ones, and then only consume what nobody else waits for.                 *)
LEMMA GrantingLeaves ==
  ASSUME NEW S, NEW a, Sound(a), Entries(arb) \subseteq Entries(a),
         LockZombies(a) \subseteq S, NEW u,
         \A r \in Entries(LocksGranted(a)) : r \in Entries(arb') \/ r.t = u,
         \A t \in Threads : pc'[t] = pc[t] \/ ~Waiting(t) \/ ~Waiting(t)',
         \A t \in Threads : t = u => ~Waiting(t) \/ ~Waiting(t)'
  PROVE  Leaves(S)
<1> SUFFICES ASSUME NEW t \in Threads, Waiting(t), Waiting(t)',
                    Awaited(t) \in Entries(arb), SeqOf[t] \notin Families(S)
             PROVE  Awaited(t) \in Entries(arb')
  BY DEF Leaves
<1>1. ReqSeq(Awaited(t)) = SeqOf[t] /\ Awaited(t).t = t
  BY DEF ReqSeq, Awaited
<1>2. SeqOf[t] \notin Families(LockZombies(a))
  BY DEF Families
<1>3. Awaited(t) \in Entries(LocksGranted(a))
  BY <1>1, <1>2, LocksGrantedLeaves
<1> QED
  BY <1>1, <1>3

LEMMA RemovingLeaves ==
  ASSUME NEW S, Sound(arb), NEW R \in SUBSET Seqs,
         arb'.q = Removed(arb, R).q, arb'.done = Removed(arb, R).done,
         \A t \in Threads : pc'[t] = pc[t] \/ ~Waiting(t) \/ ~Waiting(t)',
         \A t \in Threads : SeqOf[t] \in Families(R) /\ Waiting(t)' => SeqOf[t] \in Families(S)
  PROVE  Leaves(S)
<1> SUFFICES ASSUME NEW t \in Threads, Waiting(t), Waiting(t)',
                    Awaited(t) \in Entries(arb), SeqOf[t] \notin Families(S)
             PROVE  Awaited(t) \in Entries(arb')
  BY DEF Leaves
<1>1. ReqSeq(Awaited(t)) \notin Families(R)
  BY DEF ReqSeq, Awaited
<1>2. Awaited(t) \in Entries(Removed(arb, R))
  BY <1>1, RemovedLeaves
<1> QED
  BY <1>2 DEF Entries

(* A completion that is consumed by the one that awaits it, or that only a *)
(* dead process awaits.                                                    *)
LEMMA ConsumingLeaves ==
  ASSUME NEW S, Sound(arb), NEW r, arb' = Consumed(arb, r),
         \A t \in Threads : pc'[t] = pc[t] \/ ~Waiting(t) \/ ~Waiting(t)',
         ~Waiting(r.t) \/ ~Waiting(r.t)'
  PROVE  Leaves(S)
<1>1. arb \in ArbRecord
  BY DEF Sound
<1>2. arb'.q = arb.q /\ arb'.done = arb.done \ {r}
  BY <1>1 DEF Consumed, ArbRecord
<1>3. \A t : Awaited(t).t = t
  BY DEF Awaited
<1> QED
  BY <1>2, <1>3 DEF Leaves, Entries

LEMMA JoinedEntries ==
  ASSUME NEW a, Sound(a), NEW x \in Seq(Request), NEW b,
         b.q = a.q \o x \/ b.q = x \o a.q, b.done = a.done
  PROVE  /\ Held(b.q) = Held(a.q) \cup Held(x)
         /\ Entries(b) = Entries(a) \cup Held(x)
<1>1. a.q \in Seq(Request)
  BY DEF Sound, ArbRecord
<1>2. Held(a.q \o x) = Held(a.q) \cup Held(x) /\ Held(x \o a.q) = Held(x) \cup Held(a.q)
  BY <1>1, JoinedHeld
<1>3. Held(b.q) = Held(a.q) \cup Held(x)
  BY <1>2
<1> QED
  BY <1>3 DEF Entries

LEMMA WaitForGrantLeaves ==
  ASSUME IInv, NEW t \in Threads, NEW l \in BOOLEAN, WaitForGrant(t, l), NEW S
  PROVE  Leaves(S) /\ Awaited(t)' \in Entries(arb')
<1> DEFINE a == Registered(arb, SeqOf[t])
           g == [t |-> t, tag |-> "grant"]
           new == IF l THEN <<[t |-> t, tag |-> "prelock"], g>> ELSE <<g>>
<1>1. Sound(arb) /\ arb \in ArbRecord /\ a \in ArbRecord /\ a.q = arb.q /\ a.done = arb.done
  <2>1. Sound(arb) /\ SeqOf[t] \in Seqs
    BY InvSound, RunsTypes
  <2> QED
    BY <2>1, RegisteredSound DEF Sound, Registered, ArbRecord
<1>2. arb'.q = arb.q \o new /\ arb'.done = arb.done
  BY <1>1 DEF WaitForGrant, Sampled, Updated, ArbRecord
<1>3. new \in Seq(Request) /\ g \in Held(new)
  <2>1. CASE l
    <3>1. DOMAIN new = {1, 2} /\ new[2] = g
      BY <2>1
    <3> QED
      BY <2>1, <3>1 DEF Request, Tags, Held
  <2>2. CASE ~l
    <3>1. DOMAIN new = {1} /\ new[1] = g
      BY <2>2
    <3> QED
      BY <2>2, <3>1 DEF Request, Tags, Held
  <2> QED
    BY <2>1, <2>2
<1>4. Entries(arb') = Entries(arb) \cup Held(new)
  <2> HIDE DEF new
  <2> QED
    BY <1>1, <1>2, <1>3, JoinedEntries
<1>5. pc' = [pc EXCEPT ![t] = "waitGrant"] /\ ~Waiting(t)
      /\ pc \in [Threads -> {"run", "waitGrant", "waitLock", "granted", "dead"}]
  BY DEF WaitForGrant, Runs, Waiting, IInv, TypeOK
<1>6. Awaited(t)' = g
  BY <1>5 DEF Awaited
<1>7. \A x \in Threads : pc'[x] = pc[x] \/ ~Waiting(x)
  BY <1>5
<1> QED
  BY <1>3, <1>4, <1>6, <1>7, NothingForgotten

(* A new lock request is granted at once, waits, or is taken out again     *)
(* with a zombie of its family.                                            *)
LEMMA LockReqLeaves ==
  ASSUME IInv, NEW t \in Threads, NEW grab \in BOOLEAN, LockReq(t, grab)
  PROVE  /\ Leaves(Zombies)
         /\ Zombies = {} /\ Waiting(t)' => Awaited(t)' \in Entries(arb')
<1> DEFINE r == [t |-> t, tag |-> "lock"]
           a == Registered(arb, SeqOf[t])
           b == Queued(a, r, grab)
           c == LocksGranted(b)
<1>1. /\ pc[t] = "run" /\ SeqOf[t] \in Seqs /\ r \in Request
      /\ pc \in [Threads -> {"run", "waitGrant", "waitLock", "granted", "dead"}]
  BY RunsTypes DEF LockReq, Runs, Request, Tags, IInv, TypeOK
<1>2. Sound(arb) /\ Sound(a) /\ a.q = arb.q /\ a.done = arb.done
  BY <1>1, InvSound, RegisteredSound DEF Sound, Registered, ArbRecord
<1>3. <<r>> \in Seq(Request) /\ Held(<<r>>) = {r}
  BY <1>1 DEF Held
<1>4. Sound(b) /\ (b.q = a.q \o <<r>> \/ b.q = <<r>> \o a.q) /\ b.done = a.done
  <2>1. Sound([a EXCEPT !.q = <<r>> \o a.q]) /\ Sound([a EXCEPT !.q = a.q \o <<r>>])
    BY <1>2, <1>3, QueueSound
  <2>2. Sound(b)
    BY <2>1, UpdatedSound DEF Queued
  <2> QED
    BY <1>2, <2>2 DEF Queued, Updated, Sound, ArbRecord
<1>5. Held(b.q) = Held(arb.q) \cup {r} /\ Entries(b) = Entries(arb) \cup {r}
  <2>1. Held(b.q) = Held(a.q) \cup Held(<<r>>) /\ Entries(b) = Entries(a) \cup Held(<<r>>)
    <3> HIDE DEF a, b, r
    <3> QED
      BY <1>2, <1>3, <1>4, JoinedEntries
  <2> QED
    BY <1>2, <1>3, <2>1 DEF Entries
<1>6. LockZombies(b) \subseteq Zombies
  BY <1>1, <1>2, <1>5, LockZombiesFound
<1>7. c \in ArbRecord
  BY <1>4, LocksGrantedSound DEF Sound
<1> HIDE DEF c
<1>8. \A x \in Entries(c) : x \in Entries(arb') \/ x.t = t
  <2>1. arb' = Consumed(c, r) \/ arb' = Sampled(c, t)
    BY DEF LockReq, c
  <2> QED
    BY <1>7, <2>1 DEF Consumed, Sampled, Entries, ArbRecord
<1>9. ~Waiting(t) /\ \A x \in Threads : pc'[x] = pc[x] \/ x = t
  BY <1>1 DEF LockReq, Waiting
<1>10. Leaves(Zombies)
  BY <1>4, <1>5, <1>6, <1>8, <1>9, GrantingLeaves DEF c
<1>11. ASSUME Zombies = {}, Waiting(t)' PROVE Awaited(t)' \in Entries(arb')
  <2>1. r \notin c.done /\ arb' = Sampled(c, t) /\ pc' = [pc EXCEPT ![t] = "waitLock"]
    BY <1>9, <1>11 DEF LockReq, c, Waiting
  <2>2. r \in Entries(c)
    <3>1. Families(LockZombies(b)) = {}
      BY <1>6, <1>11 DEF Families
    <3> QED
      BY <1>4, <1>5, <3>1, LocksGrantedLeaves DEF c
  <2>3. Entries(arb') = Entries(c)
    BY <1>7, <2>1 DEF Sampled, Entries, ArbRecord
  <2>4. Awaited(t)' = r
    BY <1>1, <2>1 DEF Awaited
  <2> QED
    BY <2>2, <2>3, <2>4
<1> QED
  BY <1>10, <1>11

LEMMA ProcessLeaves ==
  ASSUME IInv, NEW t \in Threads,
         \/ Resume(t) \/ WaitAgain(t) \/ SendRequest(t) \/ Unlock(t) \/ KillThread(t)
  PROVE  Leaves(Zombies)
<1>1. Sound(arb) /\ arb \in ArbRecord
      /\ pc \in [Threads -> {"run", "waitGrant", "waitLock", "granted", "dead"}]
  BY InvSound DEF Sound, IInv, TypeOK
<1>2. \A x \in Threads : pc'[x] = pc[x] \/ ~Waiting(x)'
  BY <1>1 DEF Resume, WaitAgain, SendRequest, Unlock, KillThread, Waiting
<1>3. CASE Resume(t)
  <2>1. Awaited(t).t = t /\ ~Waiting(t)'
    BY <1>1, <1>3 DEF Awaited, Resume, Waiting
  <2> QED
    BY <1>1, <1>2, <1>3, <2>1, ConsumingLeaves DEF Resume
<1>4. CASE WaitAgain(t) \/ KillThread(t)
  <2>1. Entries(arb') = Entries(arb)
    BY <1>1, <1>4 DEF WaitAgain, KillThread, Sampled, Entries, ArbRecord
  <2> QED
    BY <1>2, <2>1, NothingForgotten
<1>5. CASE SendRequest(t)
  <2>1. LockZombies(arb) \subseteq Zombies
    BY <1>1, QueueZombies
  <2> QED
    BY <1>1, <1>2, <1>5, <2>1, GrantingLeaves, SeqAssumption DEF SendRequest
<1>6. CASE Unlock(t)
  <2> DEFINE K == DOMAIN arb.locks \ {First(HeldAt(SeqOf[t]))}
             b == [arb EXCEPT !.locks = Kept(arb.locks, K)]
             c == LocksGranted(b)
  <2>1. arb.locks \in Seq(Seqs) /\ K \in SUBSET (DOMAIN arb.locks)
    BY <1>1 DEF ArbRecord
  <2>2. Kept(arb.locks, K) \in Seq(Seqs) /\ Nested(Kept(arb.locks, K))
    BY <1>1, <2>1, KeptType, NestedKept DEF Sound
  <2>3. Sound(b) /\ b.q = arb.q /\ b.done = arb.done
    BY <1>1, <2>2 DEF Sound, ArbRecord
  <2>4. LockZombies(b) \subseteq Zombies
    BY <1>1, <2>3, QueueZombies
  <2>5. arb' = Updated(c) /\ c \in ArbRecord
    BY <1>6, <2>3, LocksGrantedSound DEF Unlock, Deleted, Sound
  <2>6. Entries(arb') = Entries(c)
    <3> HIDE DEF c
    <3> QED
      BY <2>5 DEF Updated, Entries, ArbRecord
  <2> HIDE DEF b
  <2> QED
    BY <1>2, <2>3, <2>4, <2>6, GrantingLeaves, SeqAssumption DEF Entries
<1> QED
  BY <1>3, <1>4, <1>5, <1>6

LEMMA LifecycleLeaves ==
  ASSUME IInv, \/ \E s \in Seqs : SeqStep(s)
               \/ StopSequences
  PROVE  Leaves(Ended)
<1>1. Sound(arb) /\ arb \in ArbRecord
  BY InvSound DEF Sound
<1>2. ASSUME NEW s \in Seqs, StartSequence(s) PROVE Leaves(Ended)
  <2>1. Entries(arb') = Entries(arb) /\ pc' = pc
    BY <1>1, <1>2 DEF StartSequence, Registered, ArbRecord, Entries
  <2> QED
    BY <2>1, NothingForgotten
<1>3. ASSUME NEW S \in SUBSET Seqs, Kill(S) PROVE Leaves(Ended)
  <2>1. /\ arb'.q = Removed(arb, Killed(S)).q /\ arb'.done = Removed(arb, Killed(S)).done
        /\ Killed(S) \in SUBSET Seqs /\ Families(Killed(S)) = Families(S)
    BY <1>1, <1>3, KillQueues, KillReach
  <2>2. \A t \in Threads : IF SeqOf[t] \in Families(S) THEN pc'[t] = "dead" ELSE pc'[t] = pc[t]
    BY <1>3 DEF Kill
  <2>3. \A t \in Threads : /\ pc'[t] = pc[t] \/ ~Waiting(t)'
                           /\ SeqOf[t] \in Families(Killed(S)) => ~Waiting(t)'
    BY <2>1, <2>2 DEF Waiting
  <2> QED
    BY <1>1, <2>1, <2>3, RemovingLeaves
<1>4. ASSUME NEW s \in Seqs, FinishSequence(s) PROVE Leaves(Ended)
  <2>1. arb'.q = Removed(arb, {s}).q /\ arb'.done = Removed(arb, {s}).done
    <3> DEFINE a == Removed(arb, {s})
    <3>1. a \in ArbRecord /\ arb' = [a EXCEPT !.ids = a.ids \ {s}]
      BY <1>1, <1>4, RemovedSound DEF FinishSequence, Sound
    <3>2. arb'.q = a.q /\ arb'.done = a.done
      <4> HIDE DEF a
      <4> QED
        BY <3>1 DEF ArbRecord
    <3> QED
      BY <3>2
  <2>2. \A t \in Threads : pc'[t] = pc[t] \/ pc'[t] = "dead"
    BY <1>4 DEF FinishSequence
  <2>3. s \in Ended
    BY <1>4 DEF FinishSequence, Ended, Returns, IInv, TypeOK
  <2>4. Families({s}) \subseteq Families(Ended)
    BY <2>3 DEF Families
  <2>5. \A t \in Threads : pc'[t] = pc[t] \/ ~Waiting(t)'
    BY <2>2 DEF Waiting
  <2> QED
    BY <1>1, <2>1, <2>4, <2>5, RemovingLeaves
<1>5. ASSUME NEW s \in Seqs, SetRelevant(s) PROVE Leaves(Ended)
  BY <1>5, NothingForgotten DEF SetRelevant
<1>6. arb.reg \in SUBSET Seqs
  BY <1>1 DEF ArbRecord
<1> QED
  BY <1>2, <1>3, <1>4, <1>5, <1>6 DEF SeqStep, KillSequence, StopSequences

LEMMA SelectionLeaves ==
  ASSUME IInv, \/ SelectBegin \/ Scan \/ SelectWake \/ GrantLocks \/ UNCHANGED arbVars
               \/ (\E l \in BOOLEAN : SelectKilled(l))
               \/ (\E r \in arb.done : Reclaim(r))
               \/ (\E m \in Modes : SetArbitration(m))
  PROVE  Leaves(Zombies)
<1>1. pc' = pc
  BY DEF SelectBegin, Scan, SelectWake, GrantLocks, SetArbitration, ScanZombie, ScanEntry,
         ScanNull, ScanFatal, ScanNone, ScanGiveUp, ScanChoose, SelectKilled, Reclaim, arbVars
<1>2. Sound(arb) /\ arb \in ArbRecord /\ arb.q \in Seq(Request)
  BY InvSound DEF Sound, ArbRecord
<1>3. CASE arb' = LocksGranted(arb)
  <2>1. LockZombies(arb) \subseteq Zombies
    BY <1>2, QueueZombies
  <2> QED
    BY <1>1, <1>2, <1>3, <2>1, GrantingLeaves, SeqAssumption
<1>4. CASE arb' = arb
  BY <1>1, <1>4, NothingForgotten
<1>5. CASE ScanNone
  <2>1. Entries(arb') = Entries(arb)
    BY <1>2, <1>5 DEF ScanNone, Sampled, ArbRecord, Entries
  <2> QED
    BY <1>1, <2>1, NothingForgotten
<1>6. ASSUME NEW r \in arb.done, Reclaim(r) PROVE Leaves(Zombies)
  <2>1. ~Waiting(r.t) /\ arb' = Consumed(arb, r)
    BY <1>6 DEF Reclaim, DeadThreads, Waiting
  <2> QED
    BY <1>1, <1>2, <2>1, ConsumingLeaves
<1>7. CASE ScanZombie
  <2> DEFINE s == ReqSeq(arb.q[sel.i])
  <2>1. sel.i \in DOMAIN arb.q
    <3>1. sel.i \in Nat \ {0}
      BY DEF IInv, TypeOK, Selection
    <3> QED
      BY <1>2, <1>7, <3>1 DEF ScanZombie
  <2>2. s \in Zombies
    <3>1. arb.q[sel.i] \in Request /\ arb.q[sel.i] \in Held(arb.q)
      BY <1>2, <2>1 DEF Held
    <3> QED
      BY <1>7, <3>1, SeqTypes DEF ScanZombie, Zombies, Zombie
  <2>3. Families({s}) \subseteq Families(Zombies) /\ {s} \in SUBSET Seqs
    BY <2>2 DEF Families, Zombies
  <2>4. arb' = Removed(arb, {s})
    BY <1>7 DEF ScanZombie
  <2> HIDE DEF s
  <2> QED
    BY <1>1, <1>2, <2>3, <2>4, RemovingLeaves
<1>8. ASSUME NEW i \in DOMAIN arb.q, ScanChoose(i) PROVE Leaves(Zombies)
  <2>1. arb'.q = Deleted(arb.q, i) /\ arb'.done = arb.done \cup {arb.q[i]}
    BY <1>2, <1>8 DEF ScanChoose, Updated, ArbRecord
  <2> QED
    BY <1>1, <1>2, <2>1, CompletedStays, NothingForgotten
<1>9. CASE SelectBegin \/ GrantLocks \/ \E l \in BOOLEAN : SelectKilled(l)
  BY <1>3, <1>4, <1>9 DEF SelectBegin, GrantLocks, SelectKilled
<1>10. CASE \/ SelectWake \/ ScanEntry \/ ScanNull \/ ScanFatal \/ ScanGiveUp
            \/ (\E m \in Modes : SetArbitration(m)) \/ UNCHANGED arbVars
  BY <1>4, <1>10 DEF SelectWake, ScanEntry, ScanNull, ScanFatal, ScanGiveUp, SetArbitration,
     arbVars
<1> QED
  BY <1>5, <1>6, <1>7, <1>8, <1>9, <1>10 DEF Scan

THEOREM NextRemembers == IInv /\ [Next]_arbVars => Remembers
<1> SUFFICES ASSUME IInv, [Next]_arbVars PROVE Leaves(Zombies \cup Ended)
  BY LeavesRemember
<1>1. Leaves(Zombies) \/ Leaves(Ended) => Leaves(Zombies \cup Ended)
  BY DEF Leaves, Families
<1>2. ASSUME NEW t \in Threads, ThreadStep(t) PROVE Leaves(Zombies)
  BY <1>2, WaitForGrantLeaves, LockReqLeaves, ProcessLeaves DEF ThreadStep
<1>3. CASE \/ SelectBegin \/ Scan \/ SelectWake \/ GrantLocks \/ UNCHANGED arbVars
           \/ (\E l \in BOOLEAN : SelectKilled(l))
           \/ (\E r \in arb.done : Reclaim(r))
           \/ (\E m \in Modes : SetArbitration(m))
  BY <1>1, <1>3, SelectionLeaves
<1>4. CASE (\E s \in Seqs : SeqStep(s)) \/ StopSequences
  BY <1>1, <1>4, LifecycleLeaves
<1> QED
  BY <1>1, <1>2, <1>3, <1>4 DEF Next, Others

(* The arbiter forgets a request somebody goes on waiting for only when a  *)
(* body of its family returns or a zombie of its family is taken out; no   *)
(* grant, lock, kill or choice, in any mode and with any processes that    *)
(* die beside their sequence, costs anybody else a request.                *)
THEOREM RequestsStay == Spec => OnlyEndsForget
<1>1. IInv /\ [Next]_arbVars => [Remembers]_arbVars
  BY NextRemembers
<1>2. [Remembers]_arbVars <=>
        [\A t \in Threads :
           Waiting(t) /\ Waiting(t)' /\ Known(t) /\ ~Known(t)'
             => \E s \in Line(SeqOf[t]) : Returns(s) \/ Zombie(s)]_arbVars
  BY DEF Remembers
<1> QED
  BY <1>1, <1>2, Invariance, PTL DEF Spec, OnlyEndsForget

-----------------------------------------------------------------------------
(* Without processes that die beside their sequence (Forked), the          *)
(* processes of a sequence die together, and their requests go with them:  *)
(* the queue holds no zombie.  And nobody waits on behalf of a sequence    *)
(* that has yet to start.                                                  *)
DieTogether ==
  \A t, u \in Threads : SeqOf[t] = SeqOf[u] /\ pc[t] = "dead" => pc[u] = "dead"

Buried == \A t \in Threads : pc[t] = "dead" => SeqOf[t] \notin Owners(arb)

Begun == \A t \in Threads : Waiting(t) => state[SeqOf[t]] # "created"

NInv == IInv /\ DieTogether /\ Buried /\ Begun /\ NoLostRequest

LEMMA NoZombies == NInv => Zombies = {}
<1> SUFFICES ASSUME NInv, NEW s \in Seqs, Zombie(s) PROVE FALSE
  BY DEF Zombies
<1>1. PICK r \in Held(arb.q) : r.t \in DeadThreads /\ ReqSeq(r) = s
  BY DEF Zombie
<1>2. r.t \in Threads /\ pc[r.t] = "dead" /\ SeqOf[r.t] \in Owners(arb)
  BY <1>1 DEF DeadThreads, ReqSeq, Owners
<1> QED
  BY <1>2 DEF NInv, Buried

(* Who turns to wait is known to the arbiter. *)
LEMMA JoinersKnown ==
  ASSUME NInv, [Next]_arbVars, NEW t \in Threads, ~Waiting(t), Waiting(t)'
  PROVE  Awaited(t)' \in Entries(arb') /\ Runs(t)
<1>1. pc \in [Threads -> {"run", "waitGrant", "waitLock", "granted", "dead"}] /\ IInv
  BY DEF NInv, IInv, TypeOK
<1>2. pc'[t] # pc[t] /\ pc'[t] \notin {"run", "granted", "dead"}
  BY DEF Waiting
<1>3. PICK l \in BOOLEAN : WaitForGrant(t, l) \/ LockReq(t, l)
  <2>1. ASSUME NEW u \in Threads, ThreadStep(u), u # t PROVE FALSE
    BY <1>1, <1>2, <2>1 DEF ThreadStep, WaitForGrant, LockReq, Resume, WaitAgain, SendRequest,
       Unlock, KillThread
  <2>2. ASSUME \/ Resume(t) \/ WaitAgain(t) \/ SendRequest(t) \/ Unlock(t) \/ KillThread(t)
        PROVE  FALSE
    BY <1>1, <1>2, <2>2 DEF Resume, WaitAgain, SendRequest, Unlock, KillThread
  <2>3. ASSUME (\E s \in Seqs : SeqStep(s)) \/ StopSequences PROVE FALSE
    BY <1>1, <1>2, <2>3 DEF SeqStep, StopSequences, StartSequence, KillSequence, Kill,
       FinishSequence, SetRelevant
  <2>4. ASSUME \/ SelectBegin \/ Scan \/ SelectWake \/ GrantLocks \/ UNCHANGED arbVars
               \/ (\E l \in BOOLEAN : SelectKilled(l))
               \/ (\E r \in arb.done : Reclaim(r))
               \/ (\E m \in Modes : SetArbitration(m))
        PROVE  FALSE
    BY <1>2, <2>4 DEF SelectBegin, Scan, SelectWake, GrantLocks, SetArbitration, ScanZombie,
       ScanEntry, ScanNull, ScanFatal, ScanNone, ScanGiveUp, ScanChoose, SelectKilled, Reclaim,
       arbVars
  <2> QED
    BY <2>1, <2>2, <2>3, <2>4 DEF Next, Others, ThreadStep
<1>4. Runs(t)
  BY <1>3 DEF WaitForGrant, LockReq
<1>5. Awaited(t)' \in Entries(arb')
  BY <1>1, <1>3, NoZombies, WaitForGrantLeaves, LockReqLeaves
<1> QED
  BY <1>4, <1>5

(* A sequence that has begun neither begins nor runs again. *)
GoesOn ==
  \A s \in Seqs : state[s] # "created" =>
    state'[s] # "created" /\ (state'[s] = "running" => state[s] = "running")

(* Who dies leaves nothing in the queues. *)
Deaths ==
  /\ DieTogether'
  /\ \A t \in Threads : pc[t] # "dead" /\ pc'[t] = "dead" => SeqOf[t] \notin Owners(arb')
  /\ GoesOn

LEMMA QuietDeaths ==
  ASSUME NInv, UNCHANGED state, \A t \in Threads : pc'[t] = "dead" <=> pc[t] = "dead"
  PROVE  Deaths
BY DEF Deaths, GoesOn, NInv, DieTogether

LEMMA KillDeaths ==
  ASSUME NInv, NEW S \in SUBSET Seqs, Kill(S)
  PROVE  Deaths
<1>1. \A t \in Threads : IF SeqOf[t] \in Families(S) THEN pc'[t] = "dead" ELSE pc'[t] = pc[t]
  BY DEF Kill
<1>2. DieTogether'
  BY <1>1 DEF NInv, DieTogether
<1>3. Owners(arb') \cap Families(S) = {}
  <2>1. Sound(arb)
    BY InvSound DEF NInv
  <2> QED
    BY <2>1, KillQueues, KillReach, RemovedSound
<1>4. GoesOn
  BY DEF GoesOn, Kill
<1> QED
  BY <1>1, <1>2, <1>3, <1>4 DEF Deaths

LEMMA FinishDeaths ==
  ASSUME NInv, Forked = {}, NEW s \in Seqs, FinishSequence(s)
  PROVE  Deaths
<1> DEFINE a == Removed(arb, {s})
<1>1. \A t \in Threads : IF SeqOf[t] = s THEN pc'[t] = "dead" ELSE pc'[t] = pc[t]
  BY DEF FinishSequence, ThreadsOf
<1>2. DieTogether'
  BY <1>1 DEF NInv, DieTogether
<1>3. s \notin Owners(arb')
  <2>1. Sound(arb)
    BY InvSound DEF NInv
  <2>2. Sound(a) /\ Owners(a) \subseteq Owners(arb) \ Families({s})
    BY <2>1, RemovedSound
  <2>3. arb' = [a EXCEPT !.ids = a.ids \ {s}]
    BY DEF FinishSequence
  <2>4. Owners(arb') = Owners(a)
    <3> HIDE DEF a
    <3> QED
      BY <2>2, <2>3 DEF Sound, ArbRecord, Owners
  <2> QED
    BY <2>2, <2>4 DEF Families, Family
<1>4. GoesOn
  BY DEF GoesOn, FinishSequence, NInv, IInv, TypeOK
<1> QED
  BY <1>1, <1>2, <1>3, <1>4 DEF Deaths

LEMMA NextDeaths ==
  ASSUME NInv, Forked = {}, [Next]_arbVars
  PROVE  Deaths
<1>1. /\ pc \in [Threads -> {"run", "waitGrant", "waitLock", "granted", "dead"}]
      /\ state \in [Seqs -> States] /\ arb.reg \in SUBSET Seqs
  BY DEF NInv, IInv, TypeOK, ArbRecord
<1>2. ASSUME NEW t \in Threads, ThreadStep(t) PROVE Deaths
  <2>1. state' = state /\ \A x \in Threads : pc'[x] = "dead" <=> pc[x] = "dead"
    <3>1. CASE \E l \in BOOLEAN : WaitForGrant(t, l) \/ LockReq(t, l)
      BY <1>1, <3>1 DEF WaitForGrant, LockReq, Runs
    <3>2. CASE Resume(t) \/ WaitAgain(t) \/ SendRequest(t) \/ Unlock(t)
      BY <1>1, <3>2 DEF Resume, WaitAgain, SendRequest, Unlock, Waiting
    <3>3. ~KillThread(t)
      BY DEF KillThread
    <3> QED
      BY <1>2, <3>1, <3>2, <3>3 DEF ThreadStep
  <2> QED
    BY <2>1, QuietDeaths
<1>3. ASSUME NEW s \in Seqs, StartSequence(s) \/ SetRelevant(s) PROVE Deaths
  <2>1. pc' = pc /\ GoesOn
    BY <1>1, <1>3 DEF StartSequence, SetRelevant, GoesOn
  <2> QED
    BY <2>1 DEF Deaths, NInv, DieTogether
<1>4. CASE \/ SelectBegin \/ Scan \/ SelectWake \/ GrantLocks \/ UNCHANGED arbVars
           \/ (\E l \in BOOLEAN : SelectKilled(l))
           \/ (\E r \in arb.done : Reclaim(r))
           \/ (\E m \in Modes : SetArbitration(m))
  <2>1. pc' = pc /\ state' = state
    BY <1>4 DEF SelectBegin, Scan, SelectWake, GrantLocks, SetArbitration, ScanZombie,
       ScanEntry, ScanNull, ScanFatal, ScanNone, ScanGiveUp, ScanChoose, SelectKilled,
       Reclaim, arbVars
  <2> QED
    BY <2>1, QuietDeaths
<1> QED
  BY <1>1, <1>2, <1>3, <1>4, KillDeaths, FinishDeaths
     DEF Next, Others, SeqStep, KillSequence, StopSequences

THEOREM NextNotLost == Forked = {} /\ NInv /\ [Next]_arbVars => NInv'
<1> SUFFICES ASSUME Forked = {}, NInv, [Next]_arbVars PROVE NInv'
  OBVIOUS
<1>1. Preserved /\ Deaths /\ Remembers /\ Zombies = {}
  BY NextPreserves, NextDeaths, NextRemembers, NoZombies DEF NInv
<1>2. state' \in [Seqs -> States] /\ \A t \in Threads : SeqOf[t] \in Seqs
  BY <1>1, SeqAssumption DEF Preserved, IInv, TypeOK
<1>3. Buried'
  <2> SUFFICES ASSUME NEW t \in Threads, pc'[t] = "dead", SeqOf[t] \in Owners(arb')
               PROVE  FALSE
    BY DEF Buried, Owners
  <2>1. pc[t] = "dead"
    BY <1>1 DEF Deaths
  <2>2. SeqOf[t] \in Running
    BY <1>1, <2>1 DEF Preserved, Owners, NInv, Buried
  <2>3. PICK u \in Threads : Runs(u) /\ SeqOf[u] = SeqOf[t]
    BY <2>2 DEF Running
  <2> QED
    BY <2>1, <2>3 DEF NInv, DieTogether, Runs
<1>4. ASSUME NEW t \in Threads, Waiting(t)'
      PROVE  /\ state[SeqOf[t]] # "created"
             /\ Waiting(t) \/ Known(t)'
  <2>1. CASE Waiting(t)
    BY <2>1 DEF NInv, Begun
  <2>2. CASE ~Waiting(t)
    BY <1>4, <2>2, JoinersKnown DEF Runs, Known, Entries
  <2> QED
    BY <2>1, <2>2
<1>5. Begun'
  BY <1>1, <1>2, <1>4 DEF Begun, Deaths, GoesOn
<1>6. NoLostRequest'
  <2> SUFFICES ASSUME NEW t \in Threads, Waiting(t)', state'[SeqOf[t]] = "running",
                      ~Orphaned(SeqOf[t])', ~Known(t)'
               PROVE  FALSE
    BY DEF NoLostRequest
  <2>1. Waiting(t) /\ state[SeqOf[t]] = "running"
    BY <1>1, <1>2, <1>4 DEF Deaths, GoesOn
  <2>2. Ancestors[SeqOf[t]] \in SUBSET Seqs
    BY <1>2, SeqTypes
  <2>3. ~Orphaned(SeqOf[t])
    <3> SUFFICES ASSUME NEW a \in Ancestors[SeqOf[t]], state[a] \in {"stopped", "finished"}
                 PROVE  FALSE
      BY DEF Orphaned
    <3>1. state'[a] \notin {"created", "running"} /\ state'[a] \in States
      BY <1>1, <1>2, <2>2 DEF Deaths, GoesOn
    <3> QED
      BY <3>1 DEF Orphaned, States
  <2>4. Known(t)
    BY <2>1, <2>3 DEF NInv, NoLostRequest
  <2>5. PICK s \in Line(SeqOf[t]) : Returns(s) \/ Zombie(s)
    BY <1>1, <2>1, <2>4 DEF Remembers
  <2>6. s \in Seqs /\ ~Zombie(s)
    BY <1>1, <1>2, <2>2, <2>5 DEF Line, Zombies
  <2>7. state'[s] = "finished"
    BY <2>5, <2>6 DEF Returns
  <2> QED
    BY <2>5, <2>7 DEF Line, Orphaned
<1> QED
  BY <1>1, <1>3, <1>5, <1>6 DEF NInv, Preserved, Deaths

(* As long as a body forks no process that disable fork may kill beside    *)
(* it, whatever is locked, granted, killed or finished, a process of a     *)
(* running sequence that waits is still known to the arbiter, unless a     *)
(* sequence above it is over.  With such processes it is not: the run      *)
(* arb_zombie.                                                             *)
THEOREM RequestsKept == Forked = {} => (Spec => []NoLostRequest)
<1> SUFFICES ASSUME Forked = {} PROVE Spec => []NoLostRequest
  OBVIOUS
<1>1. Init => NInv
  BY InitInv DEF Init, NInv, DieTogether, Buried, Begun, NoLostRequest, Waiting
<1>2. NInv /\ [Next]_arbVars => NInv'
  BY NextNotLost
<1>3. NInv => NoLostRequest
  BY DEF NInv
<1> QED
  BY <1>1, <1>2, <1>3, PTL DEF Spec
=============================================================================
