------------------------------ MODULE RadioSlot ------------------------------
(***************************************************************************)
(* One radio and its two queues: crates/mesh-radio/src/slot.rs over        *)
(* queue.rs.  The radio task calls Service once per loop; between two      *)
(* calls it pushes, pops and cancels queued frames.  All of it runs in one *)
(* task, so every operation is one atomic step; what is nondeterministic   *)
(* is the answer of the SX1262 driver (the RadioInterface trait).          *)
(*                                                                         *)
(* A transmit frame is any value with a field "key": the (from, id) pair   *)
(* of its mesh header.  The ring buffers are sequences.                    *)
(***************************************************************************)
EXTENDS Naturals, Sequences, FiniteSets

CONSTANTS Keys,      \* the (from, id) pairs of mesh headers
          TxFrames,  \* transmit frames, records with a field key \in Keys
          RxFrames,  \* received frames
          RX, TX,    \* DEFAULT_RX_QUEUE and DEFAULT_TX_QUEUE
          None       \* Rust's None

ASSUME QueueSizes == RX \in Nat \ {0} /\ TX \in Nat \ {0}
ASSUME FramesHaveKeys == \A f \in TxFrames : f.key \in Keys
ASSUME NoneIsNoFrame == None \notin TxFrames /\ None \notin RxFrames /\ None \notin Keys

VARIABLES
  txq,        \* tx_queue
  rxq,        \* rx_queue
  inFlight,   \* tx_in_flight
  txFailure,  \* tx_failure: the key of the frame whose outcome is unknown
  rxRestart,  \* rx_restart_pending
  mode,       \* the chip: "rx" listening, "tx" sending, "off" neither
  report      \* what the last call of service returned

slotVars == <<txq, rxq, inFlight, txFailure, rxRestart, mode, report>>

(***************************************************************************)
(* Results of service.  ServiceReport is kept as far as the radio task     *)
(* acts on it: the completed frame (tx_len, tx_from, tx_id), the received  *)
(* frame handed up and whether anything was received in this call.         *)
(***************************************************************************)
RadioErrors == {"Hardware", "TxNotStarted", "TxOutcomeUnknown"}

OkReport(done, rx, n) == [res |-> "Ok", done |-> done, rx |-> rx, receptions |-> n]

ErrReport(err) == [res |-> err, done |-> None, rx |-> None, receptions |-> 0]

Reports ==
  [res : {"Ok"} \cup RadioErrors, done : TxFrames \cup {None},
   rx : RxFrames \cup {None}, receptions : 0..RX]

SlotTypeOK ==
  /\ txq \in Seq(TxFrames) /\ Len(txq) \in 0..TX
  /\ rxq \in Seq(RxFrames) /\ Len(rxq) \in 0..RX
  /\ inFlight \in TxFrames \cup {None}
  /\ txFailure \in Keys \cup {None}
  /\ rxRestart \in BOOLEAN
  /\ mode \in {"rx", "tx", "off"}
  /\ report \in Reports

(* new() followed by a successful init(), which ends in reenter_rx(). *)
SlotInit ==
  /\ txq = <<>> /\ rxq = <<>>
  /\ inFlight = None /\ txFailure = None /\ rxRestart = FALSE
  /\ mode = "rx"
  /\ report = OkReport(None, None, 0)

-----------------------------------------------------------------------------
(* The operations the radio task and the router reach between two calls.   *)

(* Operators whose name begins with Faulty are the code with a bug in it:  *)
(* each shows that some property can fail, none is part of the model.      *)
FaultyPushTx(f) ==
  /\ txq' = Append(txq, f)
  /\ UNCHANGED <<rxq, inFlight, txFailure, rxRestart, mode, report>>

(* enqueue_tx: TxQueue::push refuses a frame when the ring is full. *)
PushTx(f) ==
  /\ Len(txq) < TX
  /\ txq' = Append(txq, f)
  /\ UNCHANGED <<rxq, inFlight, txFailure, rxRestart, mode, report>>

(* remove_where: the frames of q whose key is not in K, in order.  "keep"   *)
(* lists their positions: exactly those, in increasing order.  Stated as a  *)
(* set with one member, the filtered queue.                                 *)
KeepsAllBut(q, K, keep) ==
  /\ \A i, j \in DOMAIN keep : i < j => keep[i] < keep[j]
  /\ {keep[i] : i \in DOMAIN keep} = {i \in DOMAIN q : q[i].key \notin K}

RemoveWhere(q, K) ==
  UNION { { [i \in 1..n |-> q[keep[i]]] :
            keep \in {g \in [1..n -> 1..Len(q)] : KeepsAllBut(q, K, g)} } : n \in 0..Len(q) }

FaultyRemoveTx(k) ==
  /\ txq' = IF txq # <<>> /\ Head(txq).key = k THEN Tail(txq) ELSE txq
  /\ UNCHANGED <<rxq, inFlight, txFailure, rxRestart, mode, report>>

(* remove_tx: drop every queued copy of a cancelled packet.  A frame that  *)
(* is already in flight is not in the queue and is not touched.            *)
RemoveTx(k) ==
  /\ txq' \in RemoveWhere(txq, {k})
  /\ UNCHANGED <<rxq, inFlight, txFailure, rxRestart, mode, report>>

(* tx_queue.pop() by the admission recheck at the head of the loop. *)
PopTx ==
  /\ txq # <<>>
  /\ txq' = Tail(txq)
  /\ UNCHANGED <<rxq, inFlight, txFailure, rxRestart, mode, report>>

(* rx_queue.pop() by the radio task, which drains the queue after service. *)
PopRx ==
  /\ rxq # <<>>
  /\ rxq' = Tail(rxq)
  /\ UNCHANGED <<txq, inFlight, txFailure, rxRestart, mode, report>>

TakeTxFailure ==
  /\ txFailure # None
  /\ txFailure' = None
  /\ UNCHANGED <<txq, rxq, inFlight, rxRestart, mode, report>>

-----------------------------------------------------------------------------
(* service().  start_rx() either leaves the chip listening or fails.       *)

ModeAfterStartRx(ok) == IF ok THEN "rx" ELSE "off"

(* poll_tx() has nothing to say yet: service returns before any reception. *)
PollTxPending ==
  /\ inFlight # None
  /\ txFailure' = None
  /\ report' = OkReport(None, None, 0)
  /\ UNCHANGED <<txq, rxq, inFlight, rxRestart, mode>>

(* poll_tx() failed, or the deadline passed with no TX-done interrupt. *)
PollTxUnknown(restarted) ==
  /\ inFlight # None
  /\ inFlight' = None
  /\ txFailure' = inFlight.key
  /\ rxRestart' = ~restarted
  /\ mode' = ModeAfterStartRx(restarted)
  /\ report' = ErrReport("TxOutcomeUnknown")
  /\ UNCHANGED <<txq, rxq>>

(* The owed start_rx() fails again and service returns its error. *)
RestartRxFails ==
  /\ inFlight = None /\ rxRestart
  /\ txFailure' = None
  /\ mode' = "off"
  /\ report' = ErrReport("Hardware")
  /\ UNCHANGED <<txq, rxq, inFlight, rxRestart>>

(***************************************************************************)
(* The rest of service runs after one of three beginnings.  "done" is the  *)
(* frame whose completion poll_tx() reported, "owed" the restart flag and  *)
(* "m" the chip mode once start_rx() was tried:                            *)
(*   - a transmission completed, and reception restarted or not;           *)
(*   - the owed restart succeeded;                                         *)
(*   - nothing was in flight and no restart was owed.                      *)
(***************************************************************************)
Beginnings ==
  IF inFlight # None
  THEN {[done |-> inFlight, owed |-> ~ok, m |-> ModeAfterStartRx(ok)] : ok \in BOOLEAN}
  ELSE {[done |-> None, owed |-> FALSE, m |-> IF rxRestart THEN "rx" ELSE mode]}

(* The receive loop: it polls only when no restart is owed, only a chip    *)
(* that listens has frames, and it stops at the capacity of the rx queue.  *)
CanReceive(b, got) ==
  /\ Len(rxq) + Len(got) <= RX
  /\ got # <<>> => ~b.owed /\ b.m = "rx"

(* poll_recv() returns an error after the frames of "got" were pushed: the *)
(* "?" operator returns at once and the report built so far is dropped.    *)
(* The failing call may itself be the one that re-enters reception.        *)
RecvFails(b, got, m) ==
  /\ CanReceive(b, got)
  /\ ~b.owed /\ Len(rxq) + Len(got) < RX
  /\ m \in {b.m, "off"}
  /\ inFlight' = None
  /\ txFailure' = None
  /\ rxRestart' = FALSE
  /\ rxq' = rxq \o got
  /\ mode' = m
  /\ report' = ErrReport("Hardware")
  /\ UNCHANGED txq

(* The queue after the receive loop and the frame pop() then hands up. *)
FirstOrNone(q) == IF q = <<>> THEN None ELSE Head(q)
RestOf(q) == IF q = <<>> THEN q ELSE Tail(q)

FaultyMayStartSend(b, got, busy, mayTx, dutyOk) ==
  b.done = None /\ txq # <<>> /\ ~busy /\ mayTx /\ dutyOk

(* Nothing is sent: a completion was just reported, the queue is empty, a  *)
(* reception is under way, a received frame still waits for the router,    *)
(* channel access holds the frame, or the duty cycle is used up.           *)
MayStartSend(b, got, busy, mayTx, dutyOk) ==
  /\ b.done = None
  /\ txq # <<>>
  /\ ~busy
  /\ rxq \o got = <<>>
  /\ mayTx
  /\ dutyOk

ServeWithoutSend(b, got, busy, mayTx, dutyOk) ==
  /\ CanReceive(b, got)
  /\ busy => b.m = "rx"
  /\ ~MayStartSend(b, got, busy, mayTx, dutyOk)
  /\ inFlight' = None
  /\ txFailure' = None
  /\ rxRestart' = b.owed
  /\ mode' = b.m
  /\ rxq' = RestOf(rxq \o got)
  /\ report' = OkReport(b.done, FirstOrNone(rxq \o got), Len(got))
  /\ UNCHANGED txq

FaultyBusyCheckFails(b, got) ==
  /\ CanReceive(b, got)
  /\ b.done = None /\ txq # <<>>
  /\ inFlight' = None
  /\ txFailure' = None
  /\ rxRestart' = b.owed
  /\ mode' = b.m
  /\ rxq' = RestOf(rxq \o got)
  /\ report' = ErrReport("Hardware")
  /\ UNCHANGED txq

(* rx_in_progress() failed: the error returns before the rx queue is popped. *)
BusyCheckFails(b, got) ==
  /\ CanReceive(b, got)
  /\ b.done = None /\ txq # <<>>
  /\ inFlight' = None
  /\ txFailure' = None
  /\ rxRestart' = b.owed
  /\ mode' = b.m
  /\ rxq' = rxq \o got
  /\ report' = ErrReport("Hardware")
  /\ UNCHANGED txq

FaultySendStarts(b, mayTx, dutyOk, certain) ==
  /\ MayStartSend(b, <<>>, FALSE, mayTx, dutyOk)
  /\ inFlight' = Head(txq)
  /\ txFailure' = None
  /\ rxRestart' = b.owed
  /\ mode' = "tx"
  /\ report' = OkReport(None, None, 0)
  /\ UNCHANGED <<txq, rxq>>

(* start_send() succeeded, or failed after set_tx() may have keyed the     *)
(* transmitter: the frame is in flight and its airtime is charged.         *)
SendStarts(b, mayTx, dutyOk, certain) ==
  /\ MayStartSend(b, <<>>, FALSE, mayTx, dutyOk)
  /\ inFlight' = Head(txq)
  /\ txq' = Tail(txq)
  /\ txFailure' = None
  /\ rxRestart' = b.owed
  /\ mode' = "tx"
  /\ report' = IF certain THEN OkReport(None, None, 0) ELSE ErrReport("TxOutcomeUnknown")
  /\ UNCHANGED rxq

(* The frame is dropped, requeued at the back, or the restart is not owed. *)
FaultySendDoesNotStart(b, mayTx, dutyOk, restarted, q, owed) ==
  /\ MayStartSend(b, <<>>, FALSE, mayTx, dutyOk)
  /\ txq' = q
  /\ inFlight' = None
  /\ txFailure' = None
  /\ rxRestart' = owed
  /\ mode' = ModeAfterStartRx(restarted)
  /\ report' = ErrReport("TxNotStarted")
  /\ UNCHANGED rxq
FaultySendDropsFrame(b, mayTx, dutyOk, restarted) ==
  FaultySendDoesNotStart(b, mayTx, dutyOk, restarted, Tail(txq), ~restarted)
FaultySendRequeuesLast(b, mayTx, dutyOk, restarted) ==
  FaultySendDoesNotStart(b, mayTx, dutyOk, restarted, Append(Tail(txq), Head(txq)), ~restarted)
FaultySendForgetsRestart(b, mayTx, dutyOk, restarted) ==
  FaultySendDoesNotStart(b, mayTx, dutyOk, restarted, txq, FALSE)

(* start_send() failed before set_tx(): the frame goes back to the front.  *)
SendDoesNotStart(b, mayTx, dutyOk, restarted) ==
  /\ MayStartSend(b, <<>>, FALSE, mayTx, dutyOk)
  /\ txq' = <<Head(txq)>> \o Tail(txq)
  /\ inFlight' = None
  /\ txFailure' = None
  /\ rxRestart' = ~restarted
  /\ mode' = ModeAfterStartRx(restarted)
  /\ report' = ErrReport("TxNotStarted")
  /\ UNCHANGED rxq

(* One call of service in which the driver receives the frames of "got". *)
Service(mayTx, dutyOk, got) ==
  \/ got = <<>> /\ PollTxPending
  \/ got = <<>> /\ \E restarted \in BOOLEAN : PollTxUnknown(restarted)
  \/ got = <<>> /\ RestartRxFails
  \/ \E b \in Beginnings :
       \/ \E m \in {"rx", "off"} : RecvFails(b, got, m)
       \/ \E busy \in BOOLEAN : ServeWithoutSend(b, got, busy, mayTx, dutyOk)
       \/ BusyCheckFails(b, got)
       \/ got = <<>> /\ \E certain \in BOOLEAN : SendStarts(b, mayTx, dutyOk, certain)
       \/ got = <<>> /\ \E restarted \in BOOLEAN : SendDoesNotStart(b, mayTx, dutyOk, restarted)
=============================================================================
