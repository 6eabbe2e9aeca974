--------------------------- MODULE RadioSlotSpec ---------------------------
(***************************************************************************)
(* The radio slot under any caller: the specification of RadioSlot with a  *)
(* record, kept beside the code's state, of what happened to every frame.  *)
(* Transmit frames carry the number of their enqueue_tx call and received  *)
(* frames the number of their reception, so that order, loss and           *)
(* duplication are visible.                                                *)
(***************************************************************************)
EXTENDS RadioSlot

CONSTANTS MaxTx,  \* bound: enqueue_tx calls that succeed
          MaxRx   \* bound: frames received

ASSUME FramesAreNumbered ==
  /\ MaxTx \in Nat /\ MaxRx \in Nat
  /\ TxFrames = [key : Keys, n : 1..MaxTx]
  /\ RxFrames = 1..MaxRx

VARIABLES
  pushed,     \* enqueue_tx calls that succeeded so far
  aired,      \* numbers of the frames put on the air, in order
  outcome,    \* what became of frame n, as the caller was told
  cancelled,  \* cancelled[k] = pushed at the last remove_tx of key k
  heard,      \* frames the driver handed to the receive loop
  handed      \* frames handed on to the caller

histVars == <<pushed, aired, outcome, cancelled, heard, handed>>
vars == <<slotVars, histVars>>

Outcomes == {"none", "open", "done", "unknown", "cancelled", "discarded", "swallowed"}

TypeOK ==
  /\ SlotTypeOK
  /\ pushed \in 0..MaxTx
  /\ aired \in Seq(1..MaxTx)
  /\ outcome \in [1..MaxTx -> Outcomes]
  /\ cancelled \in [Keys -> 0..MaxTx]
  /\ heard \in 0..MaxRx /\ handed \in 0..MaxRx

Init ==
  /\ SlotInit
  /\ pushed = 0 /\ aired = <<>>
  /\ outcome = [n \in 1..MaxTx |-> "none"]
  /\ cancelled = [k \in Keys |-> 0]
  /\ heard = 0 /\ handed = 0

Enqueue(k) ==
  /\ pushed < MaxTx
  /\ PushTx([key |-> k, n |-> pushed + 1])
  /\ pushed' = pushed + 1
  /\ outcome' = [outcome EXCEPT ![pushed + 1] = "open"]
  /\ UNCHANGED <<aired, cancelled, heard, handed>>

Cancel(k) ==
  /\ RemoveTx(k)
  /\ cancelled' = [cancelled EXCEPT ![k] = pushed]
  /\ outcome' = [n \in 1..MaxTx |->
       IF \E i \in DOMAIN txq : txq[i].n = n /\ txq[i].key = k THEN "cancelled" ELSE outcome[n]]
  /\ UNCHANGED <<pushed, aired, heard, handed>>

Discard ==
  /\ PopTx
  /\ outcome' = [outcome EXCEPT ![Head(txq).n] = "discarded"]
  /\ UNCHANGED <<pushed, aired, cancelled, heard, handed>>

Hand ==
  /\ PopRx
  /\ handed' = Head(rxq)
  /\ UNCHANGED <<pushed, aired, outcome, cancelled, heard>>

TakeFailure ==
  /\ TakeTxFailure
  /\ UNCHANGED histVars

(* What the caller learns of the frame that was in flight. *)
OutcomeTold ==
  IF report'.done # None THEN "done"
  ELSE IF report'.res = "TxOutcomeUnknown" THEN "unknown" ELSE "swallowed"

ServiceCall(mayTx, dutyOk, count) ==
  /\ heard + count <= MaxRx
  /\ Service(mayTx, dutyOk, [i \in 1..count |-> heard + i])
  /\ heard' = heard + count
  /\ handed' = IF report'.rx # None THEN report'.rx ELSE handed
  /\ aired' = IF inFlight' # None /\ inFlight = None THEN Append(aired, inFlight'.n) ELSE aired
  /\ outcome' = IF inFlight # None /\ inFlight' = None
                THEN [outcome EXCEPT ![inFlight.n] = OutcomeTold] ELSE outcome
  /\ UNCHANGED <<pushed, cancelled>>

Next ==
  \/ \E k \in Keys : Enqueue(k) \/ Cancel(k)
  \/ Discard
  \/ Hand
  \/ TakeFailure
  \/ \E mayTx, dutyOk \in BOOLEAN, count \in 0..RX : ServiceCall(mayTx, dutyOk, count)

(***************************************************************************)
(* Fairness.  The radio loop calls service for ever and drains the rx      *)
(* queue after each call.  A transmission ends because poll_tx() gives up  *)
(* at tx_deadline.  The rest is asked of the world: the channel is now and *)
(* then free, the duty cycle now and then open, and start_send() and       *)
(* start_rx() do not fail for ever.                                        *)
(***************************************************************************)
IdleCall == ServiceCall(TRUE, TRUE, 0)
Sends == IdleCall /\ inFlight = None /\ inFlight' # None
Ends == IdleCall /\ inFlight # None /\ inFlight' = None
Restarts == IdleCall /\ rxRestart /\ ~rxRestart'

Spec == Init /\ [][Next]_vars

FairSpec == Spec /\ WF_vars(Hand) /\ WF_vars(Ends) /\ SF_vars(Restarts) /\ SF_vars(Sends)

-----------------------------------------------------------------------------
(* Every frame accepted by enqueue_tx is in exactly one place: once in the *)
(* transmit queue, or in flight, or settled.  A frame requeued after       *)
(* TxNotStarted is not lost, and one that left is not still queued.        *)
FrameInOnePlace ==
  \A n \in 1..pushed :
    LET copies == Cardinality({i \in DOMAIN txq : txq[i].n = n})
                  + IF inFlight # None /\ inFlight.n = n THEN 1 ELSE 0
    IN  copies = IF outcome[n] = "open" THEN 1 ELSE 0

(* Frames go on the air in the order they were enqueued, each at most      *)
(* once, although TxNotStarted puts a popped frame back.                   *)
AiredInOrder == \A i, j \in DOMAIN aired : i < j => aired[i] < aired[j]

(* A received frame is handed to the router in the order of reception and  *)
(* none is lost between the driver and the router: not by a full rx queue, *)
(* and not by an error that ends service half way.                         *)
ReceivedInOrder ==
  /\ handed + Len(rxq) = heard
  /\ \A i \in DOMAIN rxq : rxq[i] = handed + i

(* "Sending before the router processes RX can race the duplicate          *)
(* cancellation": when a transmission starts, the router has been handed   *)
(* every frame received so far.                                            *)
NoSendBeforeRouterSawRx ==
  [][inFlight = None /\ inFlight' # None => handed = heard /\ handed' = heard']_vars

(* Once remove_tx cancelled a packet, no copy of it that was queued at     *)
(* that moment goes on the air.                                            *)
CancelledNeverAired ==
  [][inFlight = None /\ inFlight' # None => inFlight'.n > cancelled[inFlight'.key]]_vars

(* The chip stops listening while nothing is in flight only with a restart *)
(* owed, which service retries - except when poll_recv() itself failed.    *)
Deaf == mode = "off" /\ inFlight = None /\ ~rxRestart
DeafOnlyByPollRecv ==
  [][~Deaf /\ Deaf' => report'.res = "Hardware"]_vars

(* Every enqueued frame is eventually sent, cancelled or discarded.        *)
EveryFrameSettles == \A n \in 1..MaxTx : outcome[n] = "open" ~> outcome[n] # "open"

(* The test successful_tx_is_reported_when_rx_restart_fails_and_is_retried *)
(* (slot.rs:629): the caller of service learns of every transmission that  *)
(* completed.  The code breaks it when poll_recv() fails in the same call. *)
CompletionIsReported == \A n \in 1..MaxTx : outcome[n] # "swallowed"
=============================================================================
