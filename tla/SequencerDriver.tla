-------------------------- MODULE SequencerDriver --------------------------
(***************************************************************************)
(* The pull side of uvm_sequencer and uvm_push_sequencer: a driver gets    *)
(* items with get_next_item, try_next_item, get, peek or by being pushed   *)
(* to, and reports them done, while sequences request, send, wait for      *)
(* item_done, and are killed or stopped.  Arbitration and locks are those  *)
(* of SequencerArb, which this module implements (ArbSpec).                *)
(*                                                                         *)
(* The driver is one that keeps to the interface: it reports item_done for *)
(* an item it has from get_next_item or peek, and asks for no other item   *)
(* with get_next_item before that.  A push sequencer has no pull side, and *)
(* of stop_sequences() only the inherited part, which SequencerArb has;    *)
(* which of the two the sequencer is stays as it was built.                *)
(***************************************************************************)
EXTENDS SequencerArb

CONSTANTS
  Calls,       \* what the driver calls: "next", "try", "get", "peek", "push"
  Explicit,    \* processes that call send_request and wait_for_item_done
  Stops,       \* whether stop_sequences() is called
  None         \* no item, no request, and the sequence id -1

ASSUME DriverAssumption ==
  /\ Calls \subseteq {"next", "try", "get", "peek", "push"}
  /\ Explicit \subseteq Threads /\ Stops \in BOOLEAN
  /\ None \notin Threads \cup Seqs \cup Request

VARIABLES
  drv,       \* pc: where the driver is, call: the call it is in, req:
             \* sequence_item_requested, called: get_next_item_called, sub:
             \* select_process, chosen: the selected request, has: the item
             \* the driver works on
  fifo,      \* m_req_fifo, an item is named by the process that sent it
  itemId,    \* m_wait_for_item_sequence_id
  wait,      \* processes in wait_for_item_done
  due        \* history: waits the driver has answered with item_done

drvVars == <<drv, fifo, itemId, wait, due>>
vars == <<arbVars, drvVars>>

-----------------------------------------------------------------------------
DriverInit ==
  /\ Init
  /\ \E c \in Calls :
       drv = [pc |-> "idle", call |-> "none", req |-> FALSE, called |-> FALSE,
              sub |-> "none", chosen |-> None, has |-> None, push |-> c = "push"]
  /\ fifo = <<>>
  /\ itemId = None
  /\ wait = {}
  /\ due = {}

Fatal == drv.pc \in {"badItemDone", "fifoFull"} \/ sel.pc \in {"null", "fatal"}
Selecting == drv.pc \in {"select", "try", "retry"} \/ drv.sub = "select"
Idle == ~Scanning /\ ~Fatal /\ drv.pc # "retry"

Awake(t) == t \in wait /\ itemId = SeqOf[t]

(* The NBA region passes when no process can run. *)
Quiet ==
  \A t \in Threads :
    /\ ~(Waiting(t) /\ t \notin arb.snap)
    /\ pc[t] = "dead" \/ ~Awake(t)

DriverSelectBegin ==
  /\ Selecting
  /\ drv.pc = "retry" \/ Quiet
  /\ SelectBegin
  /\ UNCHANGED drvVars

(* The flags stay clear, and select_process is not forked. *)
ChosenUnrequested(r) ==
  IF drv.sub = "select" THEN [drv EXCEPT !.sub = "await", !.chosen = r]
  ELSE [drv EXCEPT !.pc = "peek", !.sub = "await", !.chosen = r]

(* A selection of the driver's own process sets the flags; one of          *)
(* select_process replaces the request it awaits.                          *)
Chosen(r) ==
  IF drv.sub = "select"
  THEN [drv EXCEPT !.sub = "await", !.chosen = r]
  ELSE IF drv.pc \in {"try", "retry"}
  THEN [drv EXCEPT !.pc = "trywait", !.chosen = r, !.req = TRUE, !.called = TRUE]
  ELSE [drv EXCEPT !.pc = "peek", !.sub = "await", !.chosen = r, !.req = TRUE,
                   !.called = @ \/ drv.call = "next"]

DriverScan ==
  \/ /\ ScanZombie \/ ScanEntry \/ ScanNull \/ ScanFatal
     /\ UNCHANGED drvVars
  \/ /\ ScanNone
     /\ drv.pc # "retry" /\ (drv.pc = "try" => sel'.pc = "idle")
     /\ UNCHANGED drvVars
  \/ /\ drv.pc = "retry" \/ (drv.pc = "try" /\ sel.tries + 1 = NbaCount)
     /\ ScanGiveUp
     /\ drv' = [drv EXCEPT !.pc = "idle"]
     /\ UNCHANGED <<fifo, itemId, wait, due>>
  \/ \E i \in DOMAIN arb.q :
       /\ ScanChoose(i)
       /\ drv' = Chosen(arb.q[i])
       /\ UNCHANGED <<fifo, itemId, wait, due>>

DriverSelectWake == SelectWake /\ UNCHANGED drvVars

(* select_process does not wait for the end of the winner. *)
SubAwaitEager ==
  /\ Idle
  /\ drv.sub = "await"
  /\ fifo = <<>>
  /\ drv' = [drv EXCEPT !.sub = "select"]
  /\ arb' = Consumed(arb, drv.chosen)
  /\ UNCHANGED <<pc, sem, state, relevant, mode, sel, fifo, itemId, wait, due>>

(* select_process: the winner died before it sent, so another is selected. *)
SubAwait ==
  /\ Idle
  /\ drv.sub = "await"
  /\ drv.chosen.t \in DeadThreads
  /\ fifo = <<>>
  /\ drv' = [drv EXCEPT !.sub = "select"]
  /\ Reclaim(drv.chosen)
  /\ UNCHANGED <<fifo, itemId, wait, due>>

(* The driver does not say which item is done. *)
PoppedSilent(d) ==
  /\ drv' = [d EXCEPT !.pc = "idle", !.req = FALSE, !.called = FALSE, !.has = None]
  /\ fifo' = Tail(fifo)
  /\ due' = due \cup {t \in wait : SeqOf[t] = SeqOf[Head(fifo)]}
  /\ UNCHANGED <<itemId, wait>>

(* item_done takes the item out of the fifo and names its sequence. *)
Popped(d) ==
  /\ drv' = [d EXCEPT !.pc = "idle", !.req = FALSE, !.called = FALSE, !.has = None]
  /\ fifo' = Tail(fifo)
  /\ itemId' = SeqOf[Head(fifo)]
  /\ due' = due \cup {t \in wait : SeqOf[t] = SeqOf[Head(fifo)]}
  /\ UNCHANGED wait

ItemDone ==
  /\ Idle
  /\ drv.pc = "idle"
  /\ drv.has # None
  /\ IF fifo = <<>>
     THEN /\ drv' = [drv EXCEPT !.pc = "badItemDone"]
          /\ UNCHANGED <<arbVars, fifo, itemId, wait, due>>
     ELSE Popped(drv) /\ GrantLocks

(* m_req_fifo.peek returns to the driver in state d, and select_process is *)
(* killed, be it in the middle of a selection; get ends with item_done,    *)
(* and the push sequencer goes on to put the item.                         *)
Peeked(d) == [d EXCEPT !.sub = "none", !.pc = "idle", !.has = Head(fifo)]

(* The item is taken out of the fifo: get instead of peek. *)
ArrivedTaken(d) ==
  IF d.call = "get"
  THEN SelectKilled(TRUE) /\ Popped(Peeked(d))
  ELSE /\ SelectKilled(FALSE)
       /\ drv' = Peeked(d) /\ fifo' = Tail(fifo) /\ UNCHANGED <<itemId, wait, due>>

Arrived(d) ==
  CASE d.call = "get" -> SelectKilled(TRUE) /\ Popped(Peeked(d))
    [] d.call = "push" ->
         /\ SelectKilled(FALSE)
         /\ drv' = [Peeked(d) EXCEPT !.pc = "push", !.req = FALSE]
         /\ UNCHANGED <<fifo, itemId, wait, due>>
    [] OTHER ->
         /\ SelectKilled(FALSE)
         /\ drv' = Peeked(d)
         /\ UNCHANGED <<fifo, itemId, wait, due>>

ItemArrives == Idle /\ drv.pc = "peek" /\ fifo # <<>> /\ Arrived(drv)

(* m_safe_select_item: without an item requested, a selection comes first; *)
(* otherwise the call waits for the item, if it is not there already.      *)
Call(c) ==
  LET d == [drv EXCEPT !.call = c, !.called = @ \/ c = "next"]
  IN  /\ Idle
      /\ drv.pc = "idle" /\ c \in Calls /\ drv.push = (c = "push")
      /\ c \in {"next", "try"} => drv.has = None
      /\ CASE c = "try" ->
                /\ ~drv.called
                /\ drv' = [drv EXCEPT !.call = c, !.pc = "try"]
                /\ UNCHANGED <<arbVars, fifo, itemId, wait, due>>
           [] c # "try" /\ ~drv.req ->
                /\ drv' = [drv EXCEPT !.call = c, !.pc = "select"]
                /\ UNCHANGED <<arbVars, fifo, itemId, wait, due>>
           [] c # "try" /\ drv.req /\ fifo = <<>> ->
                /\ drv' = [d EXCEPT !.pc = "peek"]
                /\ UNCHANGED <<arbVars, fifo, itemId, wait, due>>
           [] OTHER -> Arrived(d)

(* req_port.put has returned: the push sequencer reports the item. *)
PushDone ==
  /\ Idle
  /\ drv.pc = "push"
  /\ drv' = [drv EXCEPT !.pc = "idle", !.has = None]
  /\ itemId' = SeqOf[drv.has]
  /\ due' = due \cup {t \in wait : SeqOf[t] = SeqOf[drv.has]}
  /\ UNCHANGED <<arbVars, fifo, wait>>

(* try_next_item after its NBA region: the item, another selection for a   *)
(* dead winner, or an error and a null item.                               *)
TryReturn ==
  /\ Idle
  /\ drv.pc = "trywait"
  /\ IF fifo # <<>>
     THEN drv' = [drv EXCEPT !.pc = "idle", !.has = Head(fifo)] /\ UNCHANGED arbVars
     ELSE IF drv.chosen.t \in DeadThreads
     THEN drv' = [drv EXCEPT !.pc = "retry"] /\ Reclaim(drv.chosen)
     ELSE drv' = [drv EXCEPT !.pc = "idle"] /\ UNCHANGED arbVars
  /\ UNCHANGED <<fifo, itemId, wait, due>>

-----------------------------------------------------------------------------
(* send_request puts the item into m_req_fifo, which holds one; finish_item *)
(* goes on to wait_for_item_done.                                           *)
Send(t) ==
  /\ SendRequest(t)
  /\ IF fifo # <<>>
     THEN drv' = [drv EXCEPT !.pc = "fifoFull"] /\ UNCHANGED <<fifo, itemId, wait, due>>
     ELSE /\ fifo' = <<t>>
          /\ IF t \in Explicit
             THEN UNCHANGED <<itemId, wait, due>>
             ELSE itemId' = None /\ wait' = wait \cup {t} /\ due' = due \ {t}
          /\ UNCHANGED drv

WaitForItemDone(t) ==
  /\ t \in Explicit /\ t \notin wait
  /\ Runs(t)
  /\ itemId' = None
  /\ wait' = wait \cup {t}
  /\ due' = due \ {t}
  /\ UNCHANGED <<arbVars, drv, fifo>>

ItemDoneSeen(t) ==
  /\ pc[t] # "dead" /\ Awake(t)
  /\ wait' = wait \ {t}
  /\ due' = due \ {t}
  /\ UNCHANGED <<arbVars, drv, fifo, itemId>>

(* The queues are emptied around the sequences. *)
StopEmpties ==
  /\ Stops /\ ~drv.push
  /\ arb' = [arb EXCEPT !.q = <<>>, !.locks = <<>>]
  /\ drv' = [drv EXCEPT !.req = FALSE, !.called = FALSE]
  /\ fifo' = <<>>
  /\ UNCHANGED <<pc, sem, state, relevant, mode, sel, itemId, wait, due>>


(* uvm_sequencer::stop_sequences resets the handshake too. *)
Stop ==
  /\ Stops /\ ~drv.push
  /\ IF arb.reg = {} THEN UNCHANGED arbVars ELSE StopSequences
  /\ drv' = [drv EXCEPT !.req = FALSE, !.called = FALSE]
  /\ fifo' = <<>>
  /\ UNCHANGED <<itemId, wait, due>>

ProcessStep(t) ==
  \/ /\ t \notin wait
     /\ \/ \E l \in BOOLEAN : WaitForGrant(t, l) \/ LockReq(t, l)
        \/ Resume(t) \/ WaitAgain(t) \/ Unlock(t)
     /\ UNCHANGED drvVars
  \/ KillThread(t) /\ UNCHANGED drvVars
  \/ t \notin wait /\ Send(t)
  \/ WaitForItemDone(t)
  \/ ItemDoneSeen(t)

SequenceStep(s) ==
  /\ \/ StartSequence(s)
     \/ KillSequence(s)
     \/ SetRelevant(s)
     \/ FinishSequence(s) /\ \A t \in wait \ Forked : SeqOf[t] # s \/ pc[t] = "dead"
  /\ UNCHANGED drvVars

Sequences ==
  /\ Idle
  /\ \/ \E t \in Threads : ProcessStep(t)
     \/ \E s \in Seqs : SequenceStep(s)
     \/ \E m \in Modes : SetArbitration(m) /\ UNCHANGED drvVars
     \/ Stop

DriverNext ==
  \/ \E c \in Calls : Call(c)
  \/ DriverSelectBegin \/ DriverScan \/ DriverSelectWake
  \/ SubAwait \/ ItemArrives \/ ItemDone \/ PushDone \/ TryReturn
  \/ Sequences

DriverSpec == DriverInit /\ [][DriverNext]_vars

(* The driver asks for items, reports what it works on done between its    *)
(* calls, a granted process sends its item, processes that can run do, and *)
(* a lock is given back in the end.                                        *)
DriverFairness ==
  /\ WF_vars(DriverSelectBegin) /\ WF_vars(DriverScan) /\ WF_vars(DriverSelectWake)
  /\ WF_vars(SubAwait) /\ WF_vars(ItemArrives) /\ SF_vars(ItemDone)
  /\ WF_vars(PushDone) /\ WF_vars(TryReturn) /\ WF_vars(\E c \in Calls : Call(c))
  /\ \A t \in Threads :
       /\ SF_vars(Idle /\ (\/ (Resume(t) \/ WaitAgain(t)) /\ UNCHANGED drvVars
                           \/ Send(t) \/ ItemDoneSeen(t)))
       /\ SF_vars(Idle /\ t \notin wait /\ Unlock(t) /\ UNCHANGED drvVars)

FairDriverSpec == DriverSpec /\ DriverFairness

-----------------------------------------------------------------------------

(* The handshake implements the arbitration: no call of the driver changes *)
(* queues, locks or grants in a way the arbiter alone does not.  The       *)
(* variables of the arbitration are this module's own, so the refinement   *)
(* mapping is the identity.                                                *)
ArbSpec == Spec

(* "Each call to item_done() must be paired with a previous call to        *)
(* get_next_item()": a driver that does so never meets an empty fifo, and  *)
(* what item_done takes out is the item the driver works on, whatever was  *)
(* selected, killed and sent meanwhile.                                    *)
ItemDonePaired ==
  /\ drv.pc # "badItemDone"
  /\ drv.has # None => fifo # <<>> /\ Head(fifo) = drv.has

(* "subsequent calls to peek will return the same item": on a pull         *)
(* sequencer a second item never arrives while the first is in the fifo,   *)
(* whoever is killed between its grant and its item, and although          *)
(* stop_sequences clears the flags at any point of a call, as long as no   *)
(* process outlives its sequence: that one a stop does not reach.          *)
FifoFree == ~drv.push => drv.pc # "fifoFull"

(* "The push sequencer continuously selects from its list of available     *)
(* sequences and sends the next item": its fifo takes every item sent.     *)
PushGoesOn == drv.push => drv.pc # "fifoFull"

(* finish_item returns: an item that was sent is taken, done and reported. *)
FinishItemReturns ==
  \A t \in Threads : t \in wait ~> t \notin wait \/ pc[t] = "dead"
=============================================================================
