------------------------------- MODULE TxPath -------------------------------
(***************************************************************************)
(* The path of a packet from the router's decision to the air and back:    *)
(* the radio loop of boards/nrf52840/src/lora/radio_task.rs, which moves   *)
(* frames from the router (RouterTx) to the radio slot (RadioSlot), hands  *)
(* received frames to the router, pulls cancelled frames out of the queue  *)
(* and tells the router what became of a transmission.                     *)
(*                                                                         *)
(* One pass of the loop: polls of the router, each only with room in the   *)
(* queue; the admission recheck of the queue's head; one service call;     *)
(* every received frame, each followed by its cancellations; and last the  *)
(* completion.  The polls may come in any order and number, which is what  *)
(* passes with nothing to receive or send in between allow.                *)
(***************************************************************************)
EXTENDS RadioSlot, RouterTx

CONSTANTS MaxRx,     \* bound: receptions
          MaxFaults  \* bound: radio errors

VARIABLES
  rtr,     \* the router's transmit state, a record of RouterTx
  phase,   \* "poll" before the service call, "after" behind it
  heard,   \* receptions so far
  faults,  \* radio errors so far
  sent,    \* own packets already originated
  aired,   \* aired[k]: frames of k that went on the air
  answered,   \* packets answered since they were last planned
  copyHeard   \* packets whose relayed copy was heard since they were last planned

pathVars == <<rtr, phase, heard, faults, sent, aired, answered, copyHeard>>
vars == <<slotVars, pathVars>>
ghostVars == <<heard, faults, sent, aired, answered, copyHeard>>

Kinds == {"relay", "retx", "t1", "local"}
Frame(k, kind) == [key |-> k, kind |-> kind]

(* A received frame is a relayed copy of a packet, the originator's own    *)
(* repetition of it, or a reply that names it.                             *)
ASSUME PathFrames ==
  /\ Keys = Packets
  /\ TxFrames = [key : Packets, kind : Kinds]
  /\ RxFrames = [key : Packets, kind : {"copy", "repeat", "reply"}]
  /\ MaxRx \in Nat /\ MaxFaults \in Nat

(* Frames of packet k in the radio queue or on the air. *)
Copies(k) == Cardinality({i \in DOMAIN txq : txq[i].key = k})
             + IF inFlight # None /\ inFlight.key = k THEN 1 ELSE 0

TypeOK ==
  /\ SlotTypeOK
  /\ rtr \in RouterType
  /\ Cardinality(rtr.pending) <= MAX_PENDING_RELAYS
  /\ Cardinality(rtr.commits) <= MAX_RELAY_STATES
  /\ Cardinality(ActiveSlots(rtr)) <= MAX_PENDING_RELIABLE
  /\ phase \in {"poll", "after"}
  /\ heard \in 0..MaxRx /\ faults \in 0..MaxFaults
  /\ sent \subseteq Own
  /\ aired \in [Packets -> Nat]
  /\ answered \subseteq Packets /\ copyHeard \subseteq Packets

Init ==
  /\ SlotInit
  /\ rtr = NewRouter
  /\ phase = "poll"
  /\ heard = 0 /\ faults = 0 /\ sent = {}
  /\ aired = [k \in Packets |-> 0]
  /\ answered = {} /\ copyHeard = {}

-----------------------------------------------------------------------------
(* Polls and timers.                                                       *)

(* enqueue_tx of a polled frame: there is room, the polls are guarded. *)
Hand(f) == phase = "poll" /\ PushTx(f) /\ UNCHANGED <<phase, heard, faults, aired>>

(* send_local or poll_admin_tx: an own packet that wants an                *)
(* acknowledgement needs a reliable slot, an own broadcast arms T1.        *)
SendLocal(k) ==
  /\ k \in Own \ sent
  /\ k \in OwnUnicasts => CanSchedule(rtr, k)
  /\ Hand(Frame(k, "local"))
  /\ sent' = sent \cup {k}
  /\ LET r == [rtr EXCEPT !.planned[k] = @ + 1] IN
     rtr' = IF k \in OwnUnicasts THEN ScheduleReliable(r, k, FALSE, FALSE, NUM_RELIABLE_RETX)
            ELSE ScheduleT1(r, k)
  /\ UNCHANGED <<answered, copyHeard>>

(* poll_ready_relay: the deferred relay is due. *)
PollReadyRelay(k, f) ==
  /\ k \in rtr.pending \ rtr.ourTx
  /\ Hand(Frame(k, "relay"))
  /\ rtr' = ArmFollowUp(CancelPending(rtr, k), k, f)
  /\ UNCHANGED <<sent, answered, copyHeard>>

(* poll_ready_relay drops a relay we have already sent, and a relay that   *)
(* the rate limit, QoS or our role no longer admit.                        *)
DropPending(k) ==
  /\ phase = "poll" /\ Len(txq) < TX
  /\ k \in rtr.pending
  /\ \/ k \in rtr.ourTx /\ rtr' = CancelPending(rtr, k)
     \/ k \notin rtr.ourTx /\ rtr' = CancelRelay(CancelPending(rtr, k), k)
  /\ UNCHANGED <<slotVars, phase, ghostVars>>

(* poll_reliable_retransmit.  A redirect goes out only when the router has *)
(* an alternate hop it can name; the slot is released either way.          *)
PollRetransmit(k) ==
  /\ RetransmitDue(rtr, k)
  /\ rtr.rel[k].retx > 0
  /\ Hand(Frame(k, "retx"))
  /\ rtr' = Retransmit(rtr, k)
  /\ UNCHANGED <<sent, answered, copyHeard>>

ReleaseReliable(k) ==
  /\ phase = "poll" /\ Len(txq) < TX
  /\ RetransmitDue(rtr, k)
  /\ rtr.rel[k].retx = 0 \/ LastRedirect(rtr.rel[k])
  /\ rtr' = Retransmit(rtr, k)
  /\ UNCHANGED <<slotVars, phase, ghostVars>>

(* poll_t1_retransmit. *)
PollT1(i) ==
  /\ rtr.t1[i].st = "armed"
  /\ rtr.t1[i].key \notin rtr.ourTx
  /\ Hand(Frame(rtr.t1[i].key, "t1"))
  /\ rtr' = FireT1(rtr, i)
  /\ UNCHANGED <<sent, answered, copyHeard>>

StandDownT1(i) ==
  /\ phase = "poll" /\ Len(txq) < TX
  /\ rtr.t1[i].st = "armed"
  /\ rtr' = DropT1(rtr, i)
  /\ UNCHANGED <<slotVars, phase, ghostVars>>

(* clear_expired_commits, 30 s after the commit's slot. *)
ExpireCommit(k) ==
  /\ phase = "poll"
  /\ k \in rtr.commits
  /\ rtr' = CancelRelay(rtr, k)
  /\ UNCHANGED <<slotVars, phase, ghostVars>>

(* has_our_transmission: the record window has passed. *)
ForgetOurTx(k) ==
  /\ phase = "poll"
  /\ k \in rtr.ourTx
  /\ rtr' = [rtr EXCEPT !.ourTx = @ \ {k}]
  /\ UNCHANGED <<slotVars, phase, ghostVars>>

(* The recheck of the queue's head refuses another node's frame. *)
Recheck ==
  /\ phase = "poll"
  /\ PopTx
  /\ Head(txq).key \notin Own
  /\ rtr' = DiscardQueuedForward(rtr, Head(txq).key)
  /\ UNCHANGED <<phase, ghostVars>>

-----------------------------------------------------------------------------
(* The service call and what follows it.                                   *)

Fault == report'.res # "Ok" \/ (rxRestart' /\ ~rxRestart)

CallService(mayTx, got) ==
  /\ phase = "poll" /\ phase' = "after"
  /\ heard + Len(got) <= MaxRx
  /\ \A i \in DOMAIN got : got[i].key \in Own => aired[got[i].key] > 0
  /\ Service(mayTx, TRUE, got)
  /\ faults' = IF Fault THEN faults + 1 ELSE faults
  /\ faults' <= MaxFaults
  /\ heard' = heard + Len(got)
  /\ aired' = IF inFlight = None /\ inFlight' # None
              THEN [aired EXCEPT ![inFlight'.key] = @ + 1] ELSE aired
  /\ UNCHANGED <<rtr, sent, answered, copyHeard>>

(* The plan of a reception whose frame goes to the radio queue at once; a  *)
(* full queue rejects it.                                                  *)
EnqueuePlan(out, k) ==
  CASE ~out.relay -> [r |-> out.r, q |-> txq]
    [] out.relay /\ Len(txq) < TX -> [r |-> out.r, q |-> Append(txq, Frame(k, "relay"))]
    [] out.relay /\ Len(txq) = TX -> [r |-> NoteTxQueueRejected(out.r, k), q |-> txq]

Handlings(f) ==
  IF f.kind = "reply" THEN HandleReply(rtr, f.key) ELSE HandleCopy(rtr, f.key, f.kind = "repeat")

(* handle_rx_frame, then take_tx_cancels and remove_tx for each of them,   *)
(* then the next received frame.                                           *)
HandleRx ==
  /\ phase = "after" /\ report.res = "Ok" /\ report.rx # None
  /\ LET f == report.rx IN
     /\ \E out \in Handlings(f) :
          LET p == EnqueuePlan(out, f.key) IN
          /\ txq' \in RemoveWhere(p.q, p.r.cancels)
          /\ rtr' = [p.r EXCEPT !.cancels = {}]
          /\ answered' = IF f.kind = "reply" THEN answered \cup {f.key}
                         ELSE {k \in answered : p.r.planned[k] = rtr.planned[k]}
          /\ copyHeard' =
               {k \in copyHeard \cup (IF f.kind = "copy" THEN {f.key} \cap rtr.history ELSE {}) :
                  p.r.planned[k] = rtr.planned[k]}
     /\ report' = [report EXCEPT !.rx = FirstOrNone(rxq)]
     /\ rxq' = RestOf(rxq)
  /\ UNCHANGED <<inFlight, txFailure, rxRestart, mode, phase, heard, faults, sent, aired>>

(* note_tx_done comes after the received frames; an error of service ends  *)
(* the pass at once, and only an unknown outcome is passed on.             *)
Finish ==
  /\ phase = "after" /\ phase' = "poll"
  /\ report.res = "Ok" => report.rx = None
  /\ rtr' = CASE report.res = "Ok" /\ report.done # None -> NoteTxDone(rtr, report.done.key)
              [] report.res = "TxOutcomeUnknown" /\ txFailure # None -> NoteTxFailure(rtr, txFailure)
              [] OTHER -> rtr
  /\ txFailure' = IF report.res = "TxOutcomeUnknown" THEN None ELSE txFailure
  /\ report' = OkReport(None, None, 0)
  /\ UNCHANGED <<txq, rxq, inFlight, rxRestart, mode, ghostVars>>

Poll(k) ==
  \/ SendLocal(k)
  \/ \E f \in FollowUps : PollReadyRelay(k, f)
  \/ DropPending(k)
  \/ PollRetransmit(k)
  \/ ReleaseReliable(k)
  \/ ExpireCommit(k)
  \/ ForgetOurTx(k)

Receptions == UNION {[1..n -> RxFrames] : n \in 0..RX}

Next ==
  \/ \E k \in Packets : Poll(k)
  \/ \E i \in T1Index : PollT1(i) \/ StandDownT1(i)
  \/ Recheck
  \/ \E mayTx \in BOOLEAN, got \in Receptions : CallService(mayTx, got)
  \/ HandleRx
  \/ Finish

Spec == Init /\ [][Next]_vars

(***************************************************************************)
(* Fairness.  The loop never stops and makes every poll in every pass, so  *)
(* a poll that is due again and again is served (it needs room in the      *)
(* queue); a transmission ends at the latest at its deadline.  Of the      *)
(* world it is asked that a queued frame now and then finds the channel    *)
(* free and the radio willing, and that reception can be restarted.        *)
(***************************************************************************)
Idle == CallService(TRUE, <<>>)
Sends == Idle /\ inFlight = None /\ inFlight' # None
Ends == Idle /\ inFlight # None /\ inFlight' = None
Restarts == Idle /\ rxRestart /\ ~rxRestart'
Drains == Idle /\ rxq # <<>> /\ rxq' # rxq

FairSpec ==
  /\ Spec
  /\ WF_vars(HandleRx) /\ WF_vars(Finish)
  /\ \A k \in Packets : SF_vars(PollRetransmit(k)) /\ SF_vars(ReleaseReliable(k))
  /\ SF_vars(Sends) /\ SF_vars(Ends) /\ SF_vars(Restarts) /\ SF_vars(Drains)

-----------------------------------------------------------------------------
(* Every transmission was decided on: what is on the air, queued, pending  *)
(* and still to be retried never exceeds what the plans, the follow-up     *)
(* tries and the insurance of a packet add up to - although a rejected     *)
(* retry gives its attempt back (note_tx_queue_rejected), an unsent frame  *)
(* is put back in the queue and a packet may be planned again.             *)
RetriesLeft(k) == IF rtr.rel[k] = NoSlot THEN 0 ELSE rtr.rel[k].retx
ArmedT1(k) == Cardinality({i \in T1Index : rtr.t1[i] = [key |-> k, st |-> "armed"]})
Queued(k) == Cardinality({i \in DOMAIN txq : txq[i].key = k})
AttemptBudget ==
  \A k \in Packets :
    aired[k] + Queued(k) + Cardinality({k} \cap rtr.pending) + RetriesLeft(k) + ArmedT1(k)
      <= rtr.planned[k]

(* A reliable slot that waits for its frame to be sent, with no frame left *)
(* whose end could be reported: nothing re-arms it any more.               *)
Stranded(k) ==
  /\ rtr.rel[k] # NoSlot /\ rtr.rel[k].awaiting
  /\ Copies(k) = 0
  /\ ~(phase = "after" /\ report.done # None /\ report.done.key = k)
  /\ txFailure # k

(* A slot is stranded in two ways only: its frame is pulled out of the     *)
(* queue by a cancellation, or poll_recv() fails in the call in which the  *)
(* transmission completed.                                                 *)
StrandedOnlyByCancelOrSwallow ==
  [][\A k \in Packets : ~Stranded(k) /\ Stranded(k)' =>
        \/ Queued(k) > 0 /\ Queued(k)' = 0 /\ phase = "after"
        \/ inFlight # None /\ inFlight.key = k /\ report'.res = "Hardware"]_vars

(* Once a packet was answered, no further copy of it enters the radio      *)
(* queue unless it is received and planned again: the reply stops the      *)
(* deferred relay and the retries, whatever was due at that moment.        *)
AnsweredStaysQuiet ==
  [][\A k \in answered \cap answered' \cap (Unicasts \cup OwnUnicasts) : Queued(k)' <= Queued(k)]_vars

(* A reliable packet of our own gives its slot back: it is acknowledged,   *)
(* or its retries run out - unless the slot is stranded.                   *)
OwnReliableSettles ==
  \A k \in OwnUnicasts : rtr.rel[k] # NoSlot ~> (rtr.rel[k] = NoSlot \/ Stranded(k))

(* A copy heard after the insurance of a relayed broadcast was armed keeps *)
(* the insurance off the air, also when its frame already waits in the     *)
(* radio queue.  One exception: the slot that fired it was given to        *)
(* another packet, and no slot names the broadcast any more.               *)
NamedByT1(k) == \E i \in T1Index : rtr.t1[i].key = k
StartsT1 ==
  inFlight = None /\ inFlight' # None /\ inFlight'.kind = "t1" /\ inFlight'.key \in Broadcasts
HeardCopyStopsT1 ==
  [][StartsT1 => inFlight'.key \notin copyHeard \/ ~NamedByT1(inFlight'.key)]_vars

(* The same without the exception: two broadcasts refute it. *)
HeardCopyAlwaysStopsT1 == [][StartsT1 => inFlight'.key \notin copyHeard]_vars

(* INTEROP_CONTRACT.md: only the nominated hop's copy or the destination's *)
(* reply cancels the follow-up, other peers leave it armed.  A slot that   *)
(* lost its frame is not armed: its timer never starts.                    *)
FollowUpStaysArmed == \A k \in Packets : ~Stranded(k)
=============================================================================
