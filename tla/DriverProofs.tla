---------------------------- MODULE DriverProofs ----------------------------
(***************************************************************************)
(* For every set of sequences, processes and calls of a driver: the        *)
(* handshake implements the arbitration, so what is proved of the arbiter  *)
(* holds beside a driver; and, on a pull sequencer that is not stopped,    *)
(* at most one item is on its way: the request fifo never overflows and    *)
(* item_done finds the item it reports.                                    *)
(*                                                                         *)
(* The last two rest on who may still send.  A winner is a process that    *)
(* was granted, or whose grant is completed, and has not sent.  There is   *)
(* at most one, the fifo is empty while there is one, and a selection,     *)
(* which alone makes another, runs only when there is none (Handshake).    *)
(***************************************************************************)
EXTENDS SequencerDriver, SequencerArbProofs

(* The choice of a selection, as the driver takes it, and all other steps  *)
(* of the arbitration.                                                     *)
Chooses ==
  \E i \in DOMAIN arb.q : ScanChoose(i) /\ drv' = Chosen(arb.q[i]) /\ fifo' = fifo

NoChoice ==
  \/ Others \/ SelectBegin \/ SelectWake \/ UNCHANGED arbVars
  \/ ScanZombie \/ ScanEntry \/ ScanNull \/ ScanFatal \/ ScanNone \/ ScanGiveUp

(* Reclaiming a request that was consumed meanwhile changes nothing. *)
LEMMA ReclaimSteps ==
  ASSUME IInv, Idle, NEW r, Reclaim(r)
  PROVE  NoChoice
<1>1. CASE r \in arb.done
  BY <1>1 DEF Idle, Fatal, NoChoice, Others
<1>2. CASE r \notin arb.done
  <2>1. arb' = [arb EXCEPT !.done = arb.done \ {r}]
    BY DEF Reclaim, Consumed
  <2>2. arb \in ArbRecord /\ arb.done \ {r} = arb.done
    BY <1>2 DEF IInv, TypeOK
  <2>3. arb' = arb
    BY <2>1, <2>2 DEF ArbRecord
  <2> QED
    BY <2>3 DEF Reclaim, arbVars, NoChoice
<1> QED
  BY <1>1, <1>2

LEMMA ArrivedSteps ==
  ASSUME Idle, NEW d, Arrived(d)
  PROVE  NoChoice
<1>1. \E l \in BOOLEAN : SelectKilled(l)
  BY DEF Arrived
<1> QED
  BY <1>1 DEF Idle, Fatal, NoChoice, Others

LEMMA SequencesStep ==
  ASSUME Idle, Sequences
  PROVE  NoChoice
<1>1. ~Scanning /\ sel.pc \notin {"null", "fatal"}
  BY DEF Idle, Fatal
<1>2. ASSUME NEW t \in Threads, ProcessStep(t) PROVE NoChoice
  <2>1. ThreadStep(t) \/ UNCHANGED arbVars
    BY <1>2 DEF ProcessStep, Send, WaitForItemDone, ItemDoneSeen, ThreadStep
  <2> QED
    BY <1>1, <2>1 DEF NoChoice, Others
<1>3. ASSUME NEW s \in Seqs, SequenceStep(s) PROVE NoChoice
  <2>1. SeqStep(s)
    BY <1>3 DEF SequenceStep, SeqStep
  <2> QED
    BY <1>1, <2>1 DEF NoChoice, Others
<1>4. CASE \E m \in Modes : SetArbitration(m)
  BY <1>1, <1>4 DEF NoChoice, Others
<1>5. CASE Stop
  BY <1>1, <1>5 DEF Stop, NoChoice, Others
<1> QED
  BY <1>2, <1>3, <1>4, <1>5 DEF Sequences

(* Every step of the handshake is a step of the arbitration, or none. *)
LEMMA DriverSteps ==
  ASSUME IInv, [DriverNext]_vars
  PROVE  Chooses \/ NoChoice
<1>1. CASE UNCHANGED vars \/ (\E c \in Calls : Call(c)) \/ PushDone
  <2>1. ASSUME NEW c \in Calls, Call(c) PROVE NoChoice
    <3>1. UNCHANGED arbVars \/ \E d : Arrived(d)
      BY <2>1 DEF Call
    <3> QED
      BY <2>1, <3>1, ArrivedSteps DEF Call, NoChoice
  <2> QED
    BY <1>1, <2>1 DEF vars, PushDone, NoChoice
<1>2. CASE DriverSelectBegin \/ DriverScan \/ DriverSelectWake
  BY <1>2 DEF DriverSelectBegin, DriverScan, DriverSelectWake, Chooses, NoChoice
<1>3. CASE SubAwait
  BY <1>3, ReclaimSteps DEF SubAwait
<1>4. CASE ItemArrives
  BY <1>4, ArrivedSteps DEF ItemArrives
<1>5. CASE ItemDone
  BY <1>5 DEF ItemDone, Idle, Fatal, NoChoice, Others
<1>6. CASE TryReturn
  BY <1>6, ReclaimSteps DEF TryReturn, NoChoice
<1>7. CASE Sequences
  BY <1>7, SequencesStep DEF Sequences
<1> QED
  BY <1>1, <1>2, <1>3, <1>4, <1>5, <1>6, <1>7 DEF DriverNext

LEMMA StepsArbitrate == Chooses \/ NoChoice => [Next]_arbVars
BY DEF Chooses, NoChoice, Next, Scan

(* Whatever its driver calls, the sequencer is an arbiter: every step of   *)
(* the handshake is a step of the arbitration or leaves it alone.          *)
THEOREM HandshakeArbitrates == DriverSpec => ArbSpec
<1>1. DriverInit => Init /\ IInv
  BY InitInv DEF DriverInit
<1>2. IInv /\ [DriverNext]_vars => [Next]_arbVars /\ IInv'
  BY DriverSteps, StepsArbitrate, NextInv
<1> QED
  BY <1>1, <1>2, PTL DEF DriverSpec, ArbSpec, Spec

(* So beside any driver locks nest, exits are clean and completions wake.  *)
THEOREM ArbiterSafe ==
  DriverSpec => [](TypeOK /\ LockChain /\ CleanExit /\ WakeNotLost)
BY HandshakeArbitrates, TypeCorrect, LocksNest, ExitsAreClean, CompletionsWake, PTL DEF ArbSpec

-----------------------------------------------------------------------------
(* A process that was granted, or whose grant is completed, may still send. *)
Grant(t) == [t |-> t, tag |-> "grant"]

Winner(a, p, t) == p[t] = "granted" \/ (p[t] = "waitGrant" /\ Grant(t) \in a.done)

Winners == {t \in Threads : Winner(arb, pc, t)}

(* Granting locks completes lock requests only. *)
LEMMA LocksGrantedDone ==
  ASSUME NEW a, Sound(a)
  PROVE  \A t : Grant(t) \in LocksGranted(a).done => Grant(t) \in a.done
<1> DEFINE b == Removed(a, LockZombies(a))
           i == First(Unblocked(b))
           c == GrantedLock(b, i)
<1>1. Sound(b) /\ b.done = a.done
  <2>1. LockZombies(a) \in SUBSET Seqs
    BY SeqTypes DEF LockZombies, Held, Sound, ArbRecord
  <2>2. a \in ArbRecord
    BY DEF Sound
  <2> QED
    BY <2>1, <2>2, RemovedSound DEF Removed, ArbRecord
<1>2. CASE Unblocked(b) = {}
  BY <1>1, <1>2 DEF LocksGranted
<1>3. CASE Unblocked(b) # {}
  <2>1. b \in ArbRecord /\ b.q \in Seq(Request)
    BY <1>1 DEF Sound, ArbRecord
  <2>2. Len(b.q) \in Nat /\ Unblocked(b) \in SUBSET (1 .. Len(b.q))
    BY <2>1 DEF Unblocked
  <2>3. IsLock(b.q[i])
    BY <1>3, <2>2, FirstIsLeast DEF Unblocked
  <2>4. c.done = b.done \cup {b.q[i]}
    BY <2>1 DEF GrantedLock, Updated, ArbRecord
  <2>5. \A t : Grant(t) # b.q[i]
    BY <2>3 DEF IsLock, Grant
  <2> QED
    BY <1>1, <1>3, <2>4, <2>5 DEF LocksGranted
<1> QED
  BY <1>2, <1>3

(* A process that turns to wait has no grant left over from before. *)
LEMMA NoOldGrant ==
  ASSUME RInv, NEW t \in Threads, pc[t] = "run"
  PROVE  Grant(t) \notin arb.done
BY AwaitedOnly DEF Grant, Own, Entries

(* Steps that complete no grant, and let nobody wait who has one. *)
LEMMA FewerWinners ==
  ASSUME \A x \in Threads : Grant(x) \in arb'.done => Grant(x) \in arb.done,
         \A x \in Threads : pc'[x] \in {pc[x], "dead", "run", "waitLock"}
  PROVE  Winners' \subseteq Winners
BY DEF Winners, Winner

LEMMA ProcessWinners ==
  ASSUME RInv, NEW t \in Threads, ThreadStep(t)
  PROVE  Winners' \subseteq Winners
<1>1. Sound(arb) /\ arb \in ArbRecord /\ SeqOf[t] \in Seqs
      /\ pc \in [Threads -> {"run", "waitGrant", "waitLock", "granted", "dead"}]
  BY RequestTypes, RunsTypes DEF Sound
<1>2. ASSUME NEW l \in BOOLEAN, WaitForGrant(t, l) PROVE Winners' \subseteq Winners
  <2>1. arb'.done = arb.done
    BY <1>1, <1>2 DEF WaitForGrant, Sampled, Updated, Registered, ArbRecord
  <2>2. pc[t] = "run" /\ \A x \in Threads : pc'[x] = pc[x] \/ x = t
    BY <1>1, <1>2 DEF WaitForGrant, Runs
  <2>3. Grant(t) \notin arb'.done /\ pc'[t] = "waitGrant"
    BY <1>1, <1>2, <2>1, <2>2, NoOldGrant DEF WaitForGrant
  <2> QED
    BY <2>1, <2>2, <2>3 DEF Winners, Winner
<1>3. ASSUME NEW g \in BOOLEAN, LockReq(t, g) PROVE Winners' \subseteq Winners
  <2> DEFINE r == [t |-> t, tag |-> "lock"]
             a == Registered(arb, SeqOf[t])
             b == Queued(a, r, g)
             c == LocksGranted(b)
  <2>1. Sound(a) /\ a \in ArbRecord /\ a.done = arb.done
    BY <1>1, RegisteredSound DEF Registered, Sound, ArbRecord
  <2>2. Sound(b) /\ b.done = arb.done
    <3>1. <<r>> \in Seq(Request)
      BY DEF Request, Tags
    <3>2. /\ Sound([a EXCEPT !.q = <<r>> \o a.q]) /\ Sound([a EXCEPT !.q = a.q \o <<r>>])
      BY <2>1, <3>1, QueueSound
    <3>3. Sound(b)
      BY <3>2, UpdatedSound DEF Queued
    <3> QED
      BY <2>1, <3>3 DEF Queued, Updated, ArbRecord
  <2>3. c \in ArbRecord /\ \A x : Grant(x) \in c.done => Grant(x) \in arb.done
    <3> HIDE DEF b
    <3> QED
      BY <2>2, LocksGrantedSound, LocksGrantedDone DEF Sound
  <2>4. arb' \in {Consumed(c, r), Sampled(c, t)}
    BY <1>3 DEF LockReq
  <2>5. arb'.done \subseteq c.done
    <3> HIDE DEF c
    <3> QED
      BY <2>3, <2>4 DEF Consumed, Sampled, ArbRecord
  <2>6. \A x \in Threads : pc'[x] \in {pc[x], "waitLock"}
    BY <1>1, <1>3 DEF LockReq
  <2> QED
    BY <2>3, <2>5, <2>6, FewerWinners
<1>4. CASE Resume(t)
  <2>1. arb'.done \subseteq arb.done
    BY <1>1, <1>4 DEF Resume, Consumed, ArbRecord
  <2>2. \A x \in Threads \ {t} : pc'[x] = pc[x]
    BY <1>1, <1>4 DEF Resume
  <2>3. pc[t] = "waitGrant" => Winner(arb, pc, t)
    BY <1>4 DEF Resume, Awaited, Grant, Winner
  <2>4. pc[t] # "waitGrant" => pc'[t] = "run"
    BY <1>1, <1>4 DEF Resume
  <2> QED
    BY <2>1, <2>2, <2>3, <2>4 DEF Winners, Winner
<1>5. CASE WaitAgain(t) \/ KillThread(t)
  <2>1. arb'.done = arb.done /\ \A x \in Threads : pc'[x] \in {pc[x], "dead"}
    BY <1>1, <1>5 DEF WaitAgain, KillThread, Sampled, ArbRecord
  <2> QED
    BY <2>1, FewerWinners
<1>6. CASE SendRequest(t)
  <2>1. \A x \in Threads : pc'[x] \in {pc[x], "run"}
    BY <1>1, <1>6 DEF SendRequest
  <2>2. \A x : Grant(x) \in arb'.done => Grant(x) \in arb.done
    BY <1>1, <1>6, LocksGrantedDone DEF SendRequest
  <2> QED
    BY <2>1, <2>2, FewerWinners
<1>7. CASE Unlock(t)
  <2> DEFINE i == First(HeldAt(SeqOf[t]))
             K == DOMAIN arb.locks \ {i}
             b == [arb EXCEPT !.locks = Kept(arb.locks, K)]
             c == LocksGranted(b)
  <2>1. arb.locks \in Seq(Seqs) /\ K \in SUBSET (DOMAIN arb.locks)
    BY <1>1 DEF ArbRecord
  <2>2. Kept(arb.locks, K) \in Seq(Seqs) /\ Nested(Kept(arb.locks, K))
    BY <1>1, <2>1, KeptType, NestedKept DEF Sound
  <2>3. Sound(b) /\ b.done = arb.done
    BY <1>1, <2>2 DEF Sound, ArbRecord
  <2>4. c \in ArbRecord /\ \A x : Grant(x) \in c.done => Grant(x) \in arb.done
    <3> HIDE DEF b
    <3> QED
      BY <2>3, LocksGrantedSound, LocksGrantedDone DEF Sound
  <2>5. arb' = Updated(c) /\ pc' = pc
    BY <1>7 DEF Unlock, Deleted
  <2>6. arb'.done = c.done
    <3> HIDE DEF c
    <3> QED
      BY <2>4, <2>5 DEF Updated, ArbRecord
  <2> QED
    BY <2>4, <2>5, <2>6, FewerWinners
<1> QED
  BY <1>2, <1>3, <1>4, <1>5, <1>6, <1>7 DEF ThreadStep

(* Only a selection makes a winner. *)
LEMMA NoNewWinner ==
  ASSUME RInv, NoChoice
  PROVE  Winners' \subseteq Winners
<1>1. Sound(arb) /\ arb \in ArbRecord
      /\ pc \in [Threads -> {"run", "waitGrant", "waitLock", "granted", "dead"}]
  BY RequestTypes DEF Sound
<1>2. CASE \E t \in Threads : ThreadStep(t)
  BY <1>2, ProcessWinners
<1>3. CASE \/ \E s \in Seqs : SeqStep(s)
           \/ \E r \in arb.done : Reclaim(r)
           \/ StopSequences \/ ScanZombie \/ ScanNone
  <2>1. /\ \A x \in Threads : pc'[x] \in {pc[x], "dead"}
        /\ arb'.done \subseteq arb.done
    <3>1. CASE \E s \in Seqs : StartSequence(s) \/ SetRelevant(s)
      BY <1>1, <3>1 DEF StartSequence, SetRelevant, Registered, ArbRecord
    <3>2. ASSUME NEW S \in SUBSET Seqs, Kill(S)
          PROVE  /\ \A x \in Threads : pc'[x] \in {pc[x], "dead"}
                 /\ arb'.done \subseteq arb.done
      BY <1>1, <3>2 DEF Kill, Removed, ArbRecord
    <3>3. CASE \E s \in Seqs : FinishSequence(s)
      BY <1>1, <3>3 DEF FinishSequence, Removed, ArbRecord
    <3>4. CASE StopSequences
      BY <1>1, <3>2, <3>4 DEF StopSequences, ArbRecord
    <3>5. CASE \E r \in arb.done : Reclaim(r)
      BY <1>1, <3>5 DEF Reclaim, Consumed, ArbRecord
    <3>6. CASE ScanZombie
      BY <1>1, <3>6 DEF ScanZombie, Removed, ArbRecord
    <3>7. CASE ScanNone
      BY <1>1, <3>7 DEF ScanNone, Sampled, ArbRecord
    <3> QED
      BY <1>3, <3>1, <3>2, <3>3, <3>4, <3>5, <3>6, <3>7 DEF SeqStep, KillSequence
  <2> QED
    BY <2>1 DEF Winners, Winner
<1>4. CASE SelectBegin \/ GrantLocks \/ \E l \in BOOLEAN : SelectKilled(l)
  <2>1. pc' = pc /\ \A x : Grant(x) \in arb'.done => Grant(x) \in arb.done
    BY <1>1, <1>4, LocksGrantedDone DEF SelectBegin, GrantLocks, SelectKilled
  <2> QED
    BY <2>1 DEF Winners, Winner
<1>5. CASE \/ ScanEntry \/ ScanNull \/ ScanFatal \/ ScanGiveUp \/ SelectWake
           \/ (\E m \in Modes : SetArbitration(m)) \/ UNCHANGED arbVars
  <2>1. arb' = arb /\ pc' = pc
    BY <1>5 DEF ScanEntry, ScanNull, ScanFatal, ScanGiveUp, SelectWake, SetArbitration, arbVars
  <2> QED
    BY <2>1 DEF Winners, Winner
<1> QED
  BY <1>2, <1>3, <1>4, <1>5 DEF NoChoice, Others

LEMMA ChosenWins ==
  ASSUME RInv, NEW i \in DOMAIN arb.q, ScanChoose(i)
  PROVE  Winners' \subseteq Winners \cup {arb.q[i].t} /\ arb.q[i] \in Request
<1>1. arb \in ArbRecord
  BY RequestTypes DEF Sound
<1>2. arb'.done = arb.done \cup {arb.q[i]} /\ pc' = pc
  BY <1>1 DEF ScanChoose, Updated, ArbRecord
<1>3. arb.q[i] \in Request
  BY <1>1 DEF ArbRecord
<1> QED
  BY <1>2, <1>3 DEF Winners, Winner, Grant, Request

-----------------------------------------------------------------------------
(* The driver of a pull sequencer: where it is and what it is given.       *)
DriverType ==
  /\ drv \in [pc : {"idle", "select", "try", "retry", "trywait", "peek"},
              call : {"next", "try", "get", "peek", "none"}, req : BOOLEAN,
              called : BOOLEAN, sub : {"none", "select", "await"},
              chosen : Request \cup {None}, has : Threads \cup {None},
              push : {FALSE}]
  /\ fifo = <<>> \/ \E t \in Threads : fifo = <<t>>

(* The two flags and the places of a call agree. *)
FlagsAgree ==
  /\ drv.pc = "peek" => drv.req /\ drv.call # "none"
  /\ drv.pc = "select" => drv.call # "none"
  /\ drv.pc \in {"trywait", "retry"} => drv.req /\ drv.called
  /\ drv.req /\ ~drv.called => drv.pc = "peek" \/ drv.has # None
  /\ drv.sub # "none" => drv.pc = "peek"
  /\ ~drv.req => fifo = <<>>
  /\ drv.has # None => fifo = <<drv.has>> /\ drv.req

(* One item is on its way at most: in the fifo, or with the one winner,    *)
(* and a new winner is looked for only when there is neither.              *)
OneItem ==
  /\ \A t, u \in Winners : t = u
  /\ Winners # {} => fifo = <<>> /\ drv.req
  /\ sel.pc \in {"scan", "wait"} => Selecting
  /\ Selecting => Winners = {} /\ fifo = <<>>
  /\ drv.sub = "await" \/ drv.pc = "trywait" => \A t \in Winners : t = drv.chosen.t

Handshake == DriverType /\ FlagsAgree /\ OneItem

HInv == RInv /\ Handshake

PullOnly == Stops = FALSE /\ "push" \notin Calls

(* Steps that leave the driver, the fifo and the selection alone.          *)
LEMMA SameHandshake ==
  ASSUME HInv, UNCHANGED <<drv, fifo>>, Winners' \subseteq Winners,
         sel'.pc \in {"scan", "wait"} => Selecting
  PROVE  Handshake'
<1>1. DriverType' /\ FlagsAgree'
  BY DEF HInv, Handshake, DriverType, FlagsAgree
<1>2. Selecting' = Selecting
  BY DEF Selecting
<1>3. OneItem'
  BY <1>2 DEF HInv, Handshake, OneItem
<1> QED
  BY <1>1, <1>3 DEF Handshake

(* Beside the choice itself the scan only fails, goes on, waits, or gives up. *)
LEMMA ScanHandshake ==
  ASSUME HInv, Winners' \subseteq Winners, ~Chooses,
         DriverSelectBegin \/ DriverScan \/ DriverSelectWake
  PROVE  Handshake'
<1>1. CASE DriverSelectBegin \/ DriverSelectWake
  <2>1. UNCHANGED <<drv, fifo>> /\ (sel'.pc = "idle" \/ Selecting)
    BY <1>1 DEF DriverSelectBegin, DriverSelectWake, drvVars, SelectWake, Unset
  <2> QED
    BY <2>1, SameHandshake
<1>2. CASE (ScanZombie \/ ScanEntry \/ ScanNull \/ ScanFatal \/ ScanNone) /\ UNCHANGED drvVars
  <2>1. UNCHANGED <<drv, fifo>> /\ sel.pc = "scan"
    BY <1>2 DEF drvVars, ScanZombie, ScanEntry, ScanNull, ScanFatal, ScanNone, ScanOver, Scanning
  <2>2. Selecting
    BY <2>1 DEF HInv, Handshake, OneItem
  <2> QED
    BY <2>1, <2>2, SameHandshake
<1>3. CASE /\ ScanGiveUp /\ drv.pc \in {"try", "retry"}
           /\ drv' = [drv EXCEPT !.pc = "idle"] /\ fifo' = fifo
  <2>1. sel'.pc = "idle"
    BY <1>3 DEF ScanGiveUp, Unset
  <2>2. Selecting /\ drv.sub = "none" /\ drv.has = None /\ Winners = {} /\ fifo = <<>>
    BY <1>3 DEF HInv, Handshake, OneItem, FlagsAgree, DriverType, Selecting
  <2>3. drv.req => drv.called
    BY <1>3, <2>2 DEF HInv, Handshake, FlagsAgree
  <2> QED
    BY <1>3, <2>1, <2>2, <2>3
       DEF HInv, Handshake, DriverType, FlagsAgree, OneItem, Selecting
<1> QED
  BY <1>1, <1>2, <1>3 DEF DriverScan, Chooses

LEMMA ChooseHandshake ==
  ASSUME HInv, NEW i \in DOMAIN arb.q, ScanChoose(i), drv' = Chosen(arb.q[i]), fifo' = fifo
  PROVE  Handshake'
<1> DEFINE r == arb.q[i]
<1>1. Winners' \subseteq Winners \cup {r.t} /\ r \in Request /\ sel'.pc = "idle"
  BY ChosenWins DEF HInv, ScanChoose, Unset
<1>2. Selecting /\ Winners = {} /\ fifo = <<>> /\ drv.has = None
  BY DEF ScanChoose, Scanning, HInv, Handshake, OneItem, FlagsAgree
<1>3. \A t, u \in Winners' : t = r.t /\ u = r.t
  BY <1>1, <1>2
<1> HIDE DEF r
<1>4. /\ DriverType' /\ drv'.chosen = r /\ drv'.has = None /\ drv'.req
      /\ \/ drv'.pc = "peek" /\ drv'.sub = "await" /\ drv'.call # "none"
         \/ drv'.pc = "trywait" /\ drv'.sub = "none" /\ drv'.called
  <2>1. CASE drv.sub = "select"
    <3>1. drv' = [drv EXCEPT !.sub = "await", !.chosen = r]
      BY <2>1 DEF Chosen, r
    <3> QED
      BY <1>1, <1>2, <2>1, <3>1 DEF HInv, Handshake, DriverType, FlagsAgree
  <2>2. CASE drv.sub # "select" /\ drv.pc \in {"try", "retry"}
    <3>1. drv' = [drv EXCEPT !.pc = "trywait", !.chosen = r, !.req = TRUE, !.called = TRUE]
      BY <2>2 DEF Chosen, r
    <3> QED
      BY <1>1, <1>2, <2>2, <3>1 DEF HInv, Handshake, DriverType, FlagsAgree
  <2>3. CASE drv.sub # "select" /\ drv.pc \notin {"try", "retry"}
    <3>1. drv' = [drv EXCEPT !.pc = "peek", !.sub = "await", !.chosen = r, !.req = TRUE,
                             !.called = drv.called \/ drv.call = "next"]
      BY <2>3 DEF Chosen, r
    <3>2. (drv.called \/ drv.call = "next") \in BOOLEAN
      OBVIOUS
    <3>3. drv.call # "none"
      BY <1>2, <2>3 DEF Selecting, HInv, Handshake, FlagsAgree
    <3> QED
      BY <1>1, <1>2, <3>1, <3>2, <3>3 DEF HInv, Handshake, DriverType
  <2> QED
    BY <2>1, <2>2, <2>3
<1>5. FlagsAgree'
  BY <1>4 DEF FlagsAgree
<1>6. OneItem'
  BY <1>1, <1>2, <1>3, <1>4 DEF OneItem, Selecting
<1> QED
  BY <1>4, <1>5, <1>6 DEF Handshake

(* item_done empties the fifo and clears the flags; no winner is left. *)
LEMMA DoneHandshake ==
  ASSUME HInv, fifo # <<>>, ~Selecting, Winners' \subseteq Winners, sel' = sel,
         drv' = [drv EXCEPT !.pc = "idle", !.req = FALSE, !.called = FALSE, !.has = None,
                            !.sub = "none"],
         fifo' = Tail(fifo)
  PROVE  Handshake'
<1>1. fifo' = <<>>
  <2>1. PICK t \in Threads : fifo = <<t>>
    BY DEF HInv, Handshake, DriverType
  <2>2. Tail(<<t>>) = <<>>
    OBVIOUS
  <2> QED
    BY <2>1, <2>2
<1>2. Winners' = {} /\ sel.pc \notin {"scan", "wait"}
  BY DEF HInv, Handshake, OneItem
<1> QED
  BY <1>1, <1>2 DEF HInv, Handshake, DriverType, FlagsAgree, OneItem, Selecting

(* The item arrives in a call the driver has come to with its flags set. *)
LEMMA ArrivedHandshake ==
  ASSUME HInv, Winners' \subseteq Winners, fifo # <<>>, drv.req, drv.pc \in {"idle", "peek"},
         NEW k \in {"next", "try", "get", "peek"}, NEW b \in BOOLEAN,
         NEW d, d = [drv EXCEPT !.call = k, !.called = b], Arrived(d)
  PROVE  Handshake'
<1>1. ~Selecting /\ Winners = {} /\ sel'.pc = "idle"
  BY DEF HInv, Handshake, OneItem, Arrived, SelectKilled, Unset
<1>2. PICK t \in Threads : fifo = <<t>> /\ Head(fifo) = t /\ Tail(fifo) = <<>> /\ t # None
  <2>1. PICK t \in Threads : fifo = <<t>>
    BY DEF HInv, Handshake, DriverType
  <2>2. Head(<<t>>) = t /\ Tail(<<t>>) = <<>>
    OBVIOUS
  <2> QED
    BY <2>1, <2>2, DriverAssumption
<1>3. Peeked(d) = [drv EXCEPT !.call = k, !.called = b, !.sub = "none", !.pc = "idle", !.has = t]
  BY <1>2 DEF Peeked, HInv, Handshake, DriverType
<1>4. CASE k = "get"
  <2>1. /\ drv' = [Peeked(d) EXCEPT !.pc = "idle", !.req = FALSE, !.called = FALSE,
                                    !.has = None]
        /\ fifo' = <<>>
    BY <1>2, <1>4 DEF Arrived, Popped, HInv, Handshake, DriverType
  <2>2. drv' = [drv EXCEPT !.call = k, !.called = FALSE, !.sub = "none", !.pc = "idle",
                           !.has = None, !.req = FALSE]
    BY <1>3, <2>1 DEF HInv, Handshake, DriverType
  <2> QED
    BY <1>1, <2>1, <2>2 DEF HInv, Handshake, DriverType, FlagsAgree, OneItem, Selecting
<1>5. CASE k # "get"
  <2>1. drv' = Peeked(d) /\ fifo' = <<t>>
    BY <1>2, <1>5 DEF Arrived, HInv, Handshake, DriverType
  <2>2. DriverType'
    BY <1>3, <2>1 DEF HInv, Handshake, DriverType
  <2>3. drv'.has = t /\ drv'.pc = "idle" /\ drv'.sub = "none" /\ drv'.req
    BY <1>3, <2>1 DEF HInv, Handshake, DriverType
  <2>4. FlagsAgree' /\ OneItem'
    BY <1>1, <1>2, <2>1, <2>3 DEF FlagsAgree, OneItem, Selecting
  <2> QED
    BY <2>2, <2>4 DEF Handshake
<1> QED
  BY <1>4, <1>5

LEMMA CallHandshake ==
  ASSUME HInv, PullOnly, Winners' \subseteq Winners, NEW c \in Calls, Call(c)
  PROVE  Handshake'
<1>1. c \in {"next", "try", "get", "peek"} /\ drv.pc = "idle" /\ drv.sub = "none" /\ ~Selecting
  BY DriverAssumption
     DEF PullOnly, Call, HInv, Handshake, FlagsAgree, DriverType, Selecting
<1> DEFINE d == [drv EXCEPT !.call = c, !.called = @ \/ c = "next"]
<1>2. CASE c = "try"
  <2>1. drv' = [drv EXCEPT !.call = c, !.pc = "try"] /\ ~drv.called /\ drv.has = None
        /\ UNCHANGED <<sel, fifo>>
    BY <1>2 DEF Call, arbVars
  <2>2. ~drv.req /\ fifo = <<>> /\ Winners = {}
    BY <1>1, <2>1 DEF HInv, Handshake, FlagsAgree, OneItem, DriverType
  <2> QED
    BY <1>1, <2>1, <2>2 DEF HInv, Handshake, DriverType, FlagsAgree, OneItem, Selecting
<1>3. CASE c # "try" /\ ~drv.req
  <2>1. drv' = [drv EXCEPT !.call = c, !.pc = "select"] /\ UNCHANGED <<sel, fifo>>
    BY <1>3 DEF Call, arbVars
  <2>2. fifo = <<>> /\ Winners = {}
    BY <1>3 DEF HInv, Handshake, FlagsAgree, OneItem
  <2> QED
    BY <1>1, <1>3, <2>1, <2>2
       DEF HInv, Handshake, DriverType, FlagsAgree, OneItem, Selecting
<1>4. CASE c # "try" /\ drv.req /\ fifo = <<>>
  <2>1. drv' = [drv EXCEPT !.call = c, !.called = drv.called \/ c = "next", !.pc = "peek"]
        /\ UNCHANGED <<sel, fifo>>
    BY <1>4 DEF Call, arbVars
  <2>2. (drv.called \/ c = "next") \in BOOLEAN
    OBVIOUS
  <2>3. drv.has = None
    BY <1>4 DEF HInv, Handshake, FlagsAgree
  <2> QED
    BY <1>1, <1>4, <2>1, <2>2, <2>3
       DEF HInv, Handshake, DriverType, FlagsAgree, OneItem, Selecting
<1>5. CASE c # "try" /\ drv.req /\ fifo # <<>>
  <2>1. Arrived(d)
    BY <1>5 DEF Call
  <2>2. /\ d = [drv EXCEPT !.call = c, !.called = drv.called \/ c = "next"]
        /\ (drv.called \/ c = "next") \in BOOLEAN
    OBVIOUS
  <2> HIDE DEF d
  <2> QED
    BY <1>1, <1>5, <2>1, <2>2, ArrivedHandshake
<1> QED
  BY <1>1, <1>2, <1>3, <1>4, <1>5

LEMMA ArrivesHandshake ==
  ASSUME HInv, Winners' \subseteq Winners, ItemArrives
  PROVE  Handshake'
<1>1. drv.req /\ drv.call \in {"next", "try", "get", "peek", "none"} /\ drv.called \in BOOLEAN
      /\ drv = [drv EXCEPT !.call = drv.call, !.called = drv.called]
  BY DEF ItemArrives, HInv, Handshake, FlagsAgree, DriverType
<1>2. drv.call # "none"
  BY DEF ItemArrives, HInv, Handshake, FlagsAgree
<1> QED
  BY <1>1, <1>2, ArrivedHandshake DEF ItemArrives

LEMMA ItemDoneHandshake ==
  ASSUME HInv, Winners' \subseteq Winners, ItemDone
  PROVE  Handshake'
<1>1. fifo # <<>> /\ drv.pc = "idle" /\ drv.sub = "none" /\ ~Selecting
  BY DEF ItemDone, HInv, Handshake, FlagsAgree, DriverType, Selecting
<1>2. /\ drv' = [drv EXCEPT !.pc = "idle", !.req = FALSE, !.called = FALSE, !.has = None]
      /\ fifo' = Tail(fifo) /\ sel' = sel
  BY <1>1 DEF ItemDone, Popped, GrantLocks
<1>3. drv' = [drv EXCEPT !.pc = "idle", !.req = FALSE, !.called = FALSE, !.has = None,
                         !.sub = "none"]
  BY <1>1, <1>2 DEF HInv, Handshake, DriverType
<1> QED
  BY <1>1, <1>2, <1>3, DoneHandshake

(* The winner died, so there is none left, and another may be selected.    *)
LEMMA AgainHandshake ==
  ASSUME HInv, Winners' \subseteq Winners, SubAwait \/ TryReturn
  PROVE  Handshake'
<1>1. drv.chosen.t \in DeadThreads => drv.chosen.t \notin Winners
  BY DEF DeadThreads, Winners, Winner
<1>2. CASE SubAwait
  <2>1. drv' = [drv EXCEPT !.sub = "select"] /\ fifo' = fifo /\ fifo = <<>> /\ sel' = sel
        /\ drv.sub = "await" /\ drv.chosen.t \in DeadThreads
    BY <1>2 DEF SubAwait, Reclaim
  <2>2. Winners' = {} /\ drv.pc = "peek" /\ drv.req
    BY <1>1, <2>1 DEF HInv, Handshake, OneItem, FlagsAgree
  <2> QED
    BY <2>1, <2>2 DEF HInv, Handshake, DriverType, FlagsAgree, OneItem, Selecting
<1>3. CASE TryReturn
  <2>1. drv.pc = "trywait" /\ drv.req /\ drv.called /\ drv.sub = "none" /\ fifo' = fifo
        /\ sel' = sel /\ sel.pc \notin {"scan", "wait"}
    BY <1>3 DEF TryReturn, HInv, Handshake, FlagsAgree, OneItem, Selecting, Reclaim, arbVars
  <2>2. CASE fifo # <<>>
    <3>1. PICK t \in Threads : fifo = <<t>>
      BY <2>2 DEF HInv, Handshake, DriverType
    <3>2. Head(<<t>>) = t /\ t # None
      BY DriverAssumption
    <3>3. drv' = [drv EXCEPT !.pc = "idle", !.has = t]
      BY <1>3, <2>2, <3>1, <3>2 DEF TryReturn
    <3>4. Winners' = {} /\ fifo' = <<t>>
      BY <2>1, <2>2, <3>1 DEF HInv, Handshake, OneItem
    <3>5. DriverType'
      BY <3>3, <3>4 DEF HInv, Handshake, DriverType
    <3>6. drv'.has = t /\ drv'.pc = "idle" /\ drv'.sub = "none" /\ drv'.req /\ drv'.called
      BY <2>1, <3>3 DEF HInv, Handshake, DriverType
    <3>7. FlagsAgree' /\ OneItem'
      BY <2>1, <3>2, <3>4, <3>6 DEF FlagsAgree, OneItem, Selecting
    <3> QED
      BY <3>5, <3>7 DEF Handshake
  <2>3. CASE fifo = <<>> /\ drv.chosen.t \in DeadThreads
    <3>1. drv' = [drv EXCEPT !.pc = "retry"]
      BY <1>3, <2>3 DEF TryReturn
    <3>2. Winners' = {}
      BY <1>1, <2>1, <2>3 DEF HInv, Handshake, OneItem
    <3> QED
      BY <2>1, <2>3, <3>1, <3>2
         DEF HInv, Handshake, DriverType, FlagsAgree, OneItem, Selecting
  <2>4. CASE fifo = <<>> /\ drv.chosen.t \notin DeadThreads
    <3>1. drv' = [drv EXCEPT !.pc = "idle"]
      BY <1>3, <2>4 DEF TryReturn
    <3> QED
      BY <2>1, <2>4, <3>1 DEF HInv, Handshake, DriverType, FlagsAgree, OneItem, Selecting
  <2> QED
    BY <2>2, <2>3, <2>4
<1> QED
  BY <1>2, <1>3

(* Who sends is the one winner, so the fifo is empty and stays with one.   *)
LEMMA SendHandshake ==
  ASSUME HInv, Winners' \subseteq Winners, NEW t \in Threads, Send(t)
  PROVE  Handshake'
<1>1. t \in Winners /\ pc'[t] = "run" /\ sel' = sel
  BY RequestTypes DEF Send, SendRequest, Winners, Winner, HInv
<1>2. fifo = <<>> /\ drv.req /\ ~Selecting /\ drv.has = None
      /\ sel.pc \notin {"scan", "wait"}
  BY <1>1 DEF HInv, Handshake, OneItem, FlagsAgree
<1>3. Winners' = {}
  BY <1>1 DEF HInv, Handshake, OneItem, Winners, Winner
<1>4. fifo' = <<t>> /\ drv' = drv
  BY <1>2 DEF Send
<1> QED
  BY <1>1, <1>2, <1>3, <1>4 DEF HInv, Handshake, DriverType, FlagsAgree, OneItem, Selecting

LEMMA SequencesHandshake ==
  ASSUME HInv, PullOnly, Winners' \subseteq Winners, Sequences
  PROVE  Handshake'
<1>1. CASE \E t \in Threads : Send(t)
  BY <1>1, SendHandshake
<1>2. CASE ~ \E t \in Threads : Send(t)
  <2>1. ~Stop
    BY DEF Stop, PullOnly
  <2>2. UNCHANGED <<drv, fifo, sel>>
    BY <1>2, <2>1 DEF Sequences, ProcessStep, SequenceStep, drvVars, WaitForItemDone,
       ItemDoneSeen, WaitForGrant, LockReq, Resume, WaitAgain, Unlock, KillThread,
       StartSequence, KillSequence, Kill, SetRelevant, FinishSequence, SetArbitration, arbVars
  <2> QED
    BY <2>2, SameHandshake DEF HInv, Handshake, OneItem
<1> QED
  BY <1>1, <1>2

THEOREM NextHandshake == PullOnly /\ HInv /\ [DriverNext]_vars => HInv'
<1> SUFFICES ASSUME PullOnly, HInv, [DriverNext]_vars PROVE HInv'
  OBVIOUS
<1>1. Chooses \/ NoChoice
  BY DriverSteps DEF HInv, RInv
<1>2. RInv'
  BY <1>1, StepsArbitrate, NextRequests DEF HInv
<1>3. CASE Chooses
  BY <1>2, <1>3, ChooseHandshake DEF HInv, Chooses
<1>4. CASE NoChoice /\ ~Chooses
  <2> SUFFICES Handshake'
    BY <1>2 DEF HInv
  <2>1. Winners' \subseteq Winners
    BY <1>4, NoNewWinner DEF HInv
  <2>2. ~PushDone
    BY DEF PushDone, HInv, Handshake, DriverType
  <2>3. CASE UNCHANGED vars
    BY <2>1, <2>3, SameHandshake DEF vars, arbVars, drvVars, HInv, Handshake, OneItem
  <2>4. CASE \E c \in Calls : Call(c)
    BY <2>1, <2>4, CallHandshake
  <2>5. CASE DriverSelectBegin \/ DriverScan \/ DriverSelectWake
    BY <1>4, <2>1, <2>5, ScanHandshake
  <2>6. CASE ItemArrives \/ ItemDone \/ SubAwait \/ TryReturn \/ Sequences
    BY <2>1, <2>6, ArrivesHandshake, ItemDoneHandshake, AgainHandshake, SequencesHandshake
  <2> QED
    BY <2>2, <2>3, <2>4, <2>5, <2>6 DEF DriverNext
<1> QED
  BY <1>1, <1>3, <1>4

THEOREM InitHandshake == PullOnly /\ DriverInit => HInv
<1> SUFFICES ASSUME PullOnly, DriverInit PROVE HInv
  OBVIOUS
<1>1. RInv
  BY InitRequests DEF DriverInit
<1>2. Winners = {} /\ sel.pc = "idle" /\ fifo = <<>>
  BY DEF DriverInit, Init, Winners, Winner, Unset
<1>3. drv = [pc |-> "idle", call |-> "none", req |-> FALSE, called |-> FALSE,
             sub |-> "none", chosen |-> None, has |-> None, push |-> FALSE]
  BY DEF DriverInit, PullOnly
<1> QED
  BY <1>1, <1>2, <1>3 DEF HInv, Handshake, DriverType, FlagsAgree, OneItem, Selecting

(* On a pull sequencer that nobody stops, one driver that pairs its calls  *)
(* never makes a second item arrive while the first is in the fifo, and    *)
(* always finds the item it reports done, whoever is killed meanwhile.     *)
(* After stop_sequences neither is so: the item that is under way is lost  *)
(* (MCDrvStopDone.cfg), and a forked process that was granted before its   *)
(* sequence returned is not stopped, and sends beside the next winner.     *)
THEOREM FifoNeverFull == PullOnly => (DriverSpec => []FifoFree)
<1> SUFFICES ASSUME PullOnly PROVE DriverSpec => []FifoFree
  OBVIOUS
<1>1. HInv => FifoFree
  BY DEF HInv, Handshake, DriverType, FifoFree
<1> QED
  BY <1>1, InitHandshake, NextHandshake, PTL DEF DriverSpec, PullOnly

THEOREM ItemsPaired == PullOnly => (DriverSpec => []ItemDonePaired)
<1> SUFFICES ASSUME PullOnly PROVE DriverSpec => []ItemDonePaired
  OBVIOUS
<1>1. HInv => ItemDonePaired
  <2> SUFFICES ASSUME HInv PROVE ItemDonePaired
    OBVIOUS
  <2>1. drv.pc # "badItemDone"
    BY DEF HInv, Handshake, DriverType
  <2>2. ASSUME drv.has # None PROVE fifo # <<>> /\ Head(fifo) = drv.has
    <3>1. fifo = <<drv.has>>
      BY <2>2 DEF HInv, Handshake, FlagsAgree
    <3>2. <<drv.has>> # <<>> /\ Head(<<drv.has>>) = drv.has
      OBVIOUS
    <3> QED
      BY <3>1, <3>2
  <2> QED
    BY <2>1, <2>2 DEF ItemDonePaired
<1> QED
  BY <1>1, InitHandshake, NextHandshake, PTL DEF DriverSpec
=============================================================================
