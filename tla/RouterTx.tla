------------------------------ MODULE RouterTx ------------------------------
(***************************************************************************)
(* What the router remembers about packets it means to transmit, and every *)
(* operation on it: crates/mesh-routing/src/router.rs with reliable.rs and *)
(* the commit and transmission records of neighbor_graph.rs.               *)
(*                                                                         *)
(* The state is one record r with the fields                               *)
(*   pending  packets waiting for their relay slot (Router::pending)       *)
(*   commits  packets with an active RelayCommit (relay_states)            *)
(*   ourTx    packets recorded as sent by us, inside the record window     *)
(*   rel      the active PendingReliable slot of a packet, or None         *)
(*   t1       the PendingRetransmit slots, in their order in the array     *)
(*   cancels  tx_cancels, packets to pull out of the radio queue           *)
(*   history  packets PacketHistory has seen                               *)
(*   planned  how many transmissions of each packet were decided on: a     *)
(*            record kept beside the code's state for the properties       *)
(* A handler of the code is a composition of operators on r.  Timers carry *)
(* no values: what is armed may be due at any time.  Verdicts that depend  *)
(* on the topology, the rate limits and the roles are parameters.          *)
(***************************************************************************)
EXTENDS Naturals, FiniteSets

CONSTANTS
  Unicasts, Broadcasts,        \* packets of other nodes, (from, id) pairs
  OwnUnicasts, OwnBroadcasts,  \* packets this node originates
  MAX_PENDING_RELAYS, MAX_RELAY_STATES, MAX_PENDING_RELIABLE, MAX_PENDING_RETRANSMITS,
  NUM_RELIABLE_RETX,           \* retransmissions of an own packet
  NAMED_FOLLOWUP_TRIES,        \* retransmissions of a relayed unicast
  NoSlot                       \* an inactive slot

Own == OwnUnicasts \cup OwnBroadcasts
Packets == Unicasts \cup Broadcasts \cup Own

ASSUME RouterSizes ==
  /\ {MAX_PENDING_RELAYS, MAX_RELAY_STATES, MAX_PENDING_RELIABLE, MAX_PENDING_RETRANSMITS}
       \subseteq Nat \ {0}
  /\ NUM_RELIABLE_RETX \in Nat /\ NAMED_FOLLOWUP_TRIES \in Nat
ASSUME PacketsFinite == IsFiniteSet(Packets) /\ NoSlot \notin Packets

(* A packet is ours or not, and for one node or for all. *)
ASSUME PacketClasses ==
  /\ Unicasts \cap Broadcasts = {} /\ OwnUnicasts \cap OwnBroadcasts = {}
  /\ (Unicasts \cup Broadcasts) \cap Own = {}

RelSlots ==
  [named : BOOLEAN, redirect : BOOLEAN, retx : Nat, awaiting : BOOLEAN, sent : BOOLEAN]

T1Index == 1..MAX_PENDING_RETRANSMITS
T1Slots == [key : Packets \cup {NoSlot}, st : {"free", "armed", "fired"}]

RouterType ==
  [pending : SUBSET Packets, commits : SUBSET Packets, ourTx : SUBSET Packets,
   rel : [Packets -> RelSlots \cup {NoSlot}], t1 : [T1Index -> T1Slots],
   cancels : SUBSET Packets, history : SUBSET Packets, planned : [Packets -> Nat]]

NewRouter ==
  [pending |-> {}, commits |-> {}, ourTx |-> {},
   rel |-> [k \in Packets |-> NoSlot],
   t1 |-> [i \in T1Index |-> [key |-> NoSlot, st |-> "free"]],
   cancels |-> {}, history |-> {}, planned |-> [k \in Packets |-> 0]]

-----------------------------------------------------------------------------
(* The small operations.                                                   *)

CancelPending(r, k) == [r EXCEPT !.pending = @ \ {k}]
CancelRelay(r, k) == [r EXCEPT !.commits = @ \ {k}]
NoteTxCancel(r, k) == [r EXCEPT !.cancels = @ \cup {k}]
StopReliable(r, k) == [r EXCEPT !.rel[k] = NoSlot]

ActiveSlots(r) == {k \in Packets : r.rel[k] # NoSlot}

(* schedule_reliable: a packet has one slot; a full table refuses. *)
CanSchedule(r, k) == r.rel[k] # NoSlot \/ Cardinality(ActiveSlots(r)) < MAX_PENDING_RELIABLE

ScheduleReliable(r, k, named, redirect, retx) ==
  IF r.rel[k] = NoSlot /\ CanSchedule(r, k)
  THEN [r EXCEPT !.planned[k] = @ + retx,
                 !.rel[k] = [named |-> named, redirect |-> redirect, retx |-> retx,
                             awaiting |-> TRUE, sent |-> FALSE]]
  ELSE r

(* commit_relay: a new commit is forgotten when every slot is taken. *)
CommitRelay(r, k) ==
  IF Cardinality(r.commits) < MAX_RELAY_STATES THEN [r EXCEPT !.commits = @ \cup {k}] ELSE r

(* store_pending: replaces the entry of the same packet. *)
CanDefer(r, k) == k \in r.pending \/ Cardinality(r.pending) < MAX_PENDING_RELAYS
StorePending(r, k) == [r EXCEPT !.pending = @ \cup {k}]

(* schedule_t1_broadcast takes the first slot that is not armed.  A slot   *)
(* that fired counts as free even while its frame waits in the radio queue.*)
FirstFreeT1(r) ==
  {i \in T1Index : r.t1[i].st # "armed" /\ \A j \in 1..(i - 1) : r.t1[j].st = "armed"}

ScheduleT1(r, k) ==
  IF \E i \in T1Index : r.t1[i] = [key |-> k, st |-> "armed"] THEN r
  ELSE [r EXCEPT !.t1 = [i \in T1Index |->
                           IF i \in FirstFreeT1(r) THEN [key |-> k, st |-> "armed"] ELSE @[i]],
                 !.planned[k] = IF FirstFreeT1(r) = {} THEN @ ELSE @ + 1]

(* cancel_t1_retransmit stops at the first slot that names the packet; a   *)
(* slot that fired asks for its frame to be pulled out of the radio queue. *)
FirstT1Of(r, k) ==
  {i \in T1Index : r.t1[i].key = k /\ \A j \in 1..(i - 1) : r.t1[j].key # k}

(* Operators whose name begins with Faulty are the code with a bug in it:  *)
(* each shows that some property can fail, none is part of the model.      *)
FaultyCancelT1(r, k) ==
  [r EXCEPT !.t1 = [i \in T1Index |-> IF i \in FirstT1Of(r, k) THEN [@[i] EXCEPT !.st = "free"] ELSE @[i]]]

CancelT1(r, k) ==
  [r EXCEPT !.t1 = [i \in T1Index |-> IF i \in FirstT1Of(r, k) THEN [@[i] EXCEPT !.st = "free"] ELSE @[i]],
            !.cancels = IF \E i \in FirstT1Of(r, k) : r.t1[i].st = "fired" THEN @ \cup {k} ELSE @]

-----------------------------------------------------------------------------
(* What the radio reports back.                                            *)

(* The slot leaves "awaiting": the retry delay starts now. *)
Transmitted(s) ==
  IF s # NoSlot /\ s.awaiting THEN [s EXCEPT !.sent = TRUE, !.awaiting = FALSE] ELSE s

NoteTxDone(r, k) ==
  [r EXCEPT !.ourTx = @ \cup {k},
            !.commits = @ \ {k},
            !.t1 = [i \in T1Index |-> IF @[i] = [key |-> k, st |-> "fired"]
                                    THEN [@[i] EXCEPT !.st = "free"] ELSE @[i]],
            !.rel[k] = Transmitted(@)]

FaultyNoteTxFailure(r, k) == r

NoteTxFailure(r, k) == [r EXCEPT !.rel[k] = Transmitted(@)]

(* The frame never went out: a retry is given back, a first try is dropped. *)
NoteTxQueueRejected(r, k) ==
  LET s == r.rel[k] IN
  [r EXCEPT !.rel[k] =
     CASE s = NoSlot -> NoSlot
       [] s # NoSlot /\ ~s.sent -> NoSlot
       [] s # NoSlot /\ s.sent /\ ~s.awaiting -> s
       [] OTHER -> [s EXCEPT !.retx = @ + 1, !.awaiting = FALSE]]

(* The admission recheck dropped a queued frame. *)
DiscardQueuedForward(r, k) ==
  NoteTxQueueRejected(StopReliable(CancelT1(CancelRelay(CancelPending(r, k), k), k), k), k)

-----------------------------------------------------------------------------
(* Timers.                                                                 *)

RetransmitDue(r, k) == r.rel[k] # NoSlot /\ ~r.rel[k].awaiting

(* due_retransmit: a slot without tries left is released, and so is one    *)
(* whose last try is the redirect to an alternate hop.                     *)
LastRedirect(s) == s.redirect /\ s.retx = 1
FaultyRetransmitKeepsTries(r, k) ==
  [r EXCEPT !.rel[k] = IF @.retx = 0 \/ LastRedirect(@) THEN NoSlot ELSE [@ EXCEPT !.awaiting = TRUE]]
FaultyRetransmitKeepsSlot(r, k) ==
  [r EXCEPT !.rel[k] = IF @.retx = 0 THEN @ ELSE [@ EXCEPT !.retx = @ - 1, !.awaiting = TRUE]]
Retransmit(r, k) ==
  LET s == r.rel[k] IN
  [r EXCEPT !.rel[k] = IF s.retx = 0 \/ LastRedirect(s) THEN NoSlot
                       ELSE [s EXCEPT !.retx = @ - 1, !.awaiting = TRUE]]

(* poll_t1_retransmit: the slot is dropped by policy or because our own    *)
(* transmission is on record, or its frame leaves for the radio queue.     *)
DropT1(r, i) == [r EXCEPT !.t1[i].st = "free"]
FireT1(r, i) == [r EXCEPT !.t1[i].st = "fired"]

(* arm_relayed_unicast_followup: no follow-up, one try without a redirect  *)
(* (last hop, weak flood), or the named tries ending in a redirect.        *)
FollowUps == {[retx |-> 0, redirect |-> FALSE], [retx |-> 1, redirect |-> FALSE],
              [retx |-> NAMED_FOLLOWUP_TRIES, redirect |-> TRUE]}

ArmFollowUp(r, k, f) ==
  IF k \in Unicasts /\ f.retx > 0 THEN ScheduleReliable(r, k, TRUE, f.redirect, f.retx) ELSE r

-----------------------------------------------------------------------------
(* Receptions.  Every handler is the set of its possible results, records  *)
(* with the new router state and whether the plan's frame is handed to the *)
(* radio queue at once.                                                    *)

Result(r) == [r |-> r, relay |-> FALSE]

(* evaluate_tx_plan: nothing for a packet we sent or originated; otherwise *)
(* no relay, insurance for a broadcast somebody else is expected to relay, *)
(* or a commit with a deferred relay.  With no room to defer it the frame  *)
(* goes to the radio queue at once.                                        *)
Plans(r, k) ==
  {Result(r)} \cup
  IF k \in Own \cup r.ourTx THEN {}
  ELSE {Result(ScheduleT1(r, b)) : b \in {k} \cap Broadcasts} \cup
       LET c == [CommitRelay(r, k) EXCEPT !.planned[k] = @ + 1]
       IN  IF CanDefer(c, k) THEN {Result(StorePending(c, k))}
           ELSE {[r |-> ArmFollowUp(c, k, f), relay |-> TRUE] : f \in FollowUps}

(* perhaps_cancel_dupe.  dupeCancels: the role and unicast_dupe_cancels    *)
(* agree; cancelingRole: role_allows_canceling_dupe; uncovered: the copy   *)
(* is a rebroadcast that leaves a neighbor uncovered.                      *)
PerhapsCancelDupe(r, k, v) ==
  IF k \in Unicasts \cup OwnUnicasts /\ k \in r.commits \cup r.pending \cup r.ourTx
  THEN IF v.dupeCancels THEN NoteTxCancel(CancelPending(CancelRelay(r, k), k), k) ELSE r
  ELSE IF k \in r.commits /\ k \notin r.pending
  THEN IF v.uncovered THEN CancelT1(r, k) ELSE NoteTxCancel(CancelRelay(CancelT1(r, k), k), k)
  ELSE IF k \in r.commits /\ v.uncovered THEN r
  ELSE LET stood == CancelPending(CancelRelay(r, k), k)
           c == IF k \in r.commits \/ v.cancelingRole
                THEN IF k \in r.pending THEN NoteTxCancel(stood, k) ELSE stood
                ELSE r
       IN  CancelT1(c, k)

(* handle_duplicate_rx.  nominated: the copy comes from the hop our relay  *)
(* named; zeroHops: it is the originator's own repetition.                 *)
HandleDuplicate(r, k, zeroHops, v) ==
  IF k \in Own THEN PerhapsCancelDupe(StopReliable(r, k), k, v)
  ELSE LET c == IF k \in Unicasts /\ v.nominated THEN StopReliable(r, k) ELSE r
       IN  IF zeroHops THEN c ELSE PerhapsCancelDupe(c, k, v)

Verdicts ==
  [nominated : BOOLEAN, dupeCancels : BOOLEAN, uncovered : BOOLEAN, cancelingRole : BOOLEAN]

(* The three ways process_inbound treats a packet it has seen: an ordinary *)
(* duplicate; a repeat that names us, or the originator's retry, of a      *)
(* unicast we never sent, planned afresh; and an upgraded copy of a relay  *)
(* still pending, planned afresh with the better hop limit.                *)
Forget(r, k) == CancelRelay(CancelPending(r, k), k)

Duplicates(r, k, zeroHops) ==
  {Result(HandleDuplicate(r, k, zeroHops, v)) : v \in Verdicts}
Repeats(r, k) ==
  IF k \in Unicasts /\ k \notin r.ourTx THEN Plans(StopReliable(Forget(r, k), k), k) ELSE {}
Upgrades(r, k) ==
  IF k \in r.pending THEN Plans(NoteTxCancel(Forget(r, k), k), k) ELSE {}

HandleCopy(r, k, zeroHops) ==
  IF k \notin r.history THEN Plans([r EXCEPT !.history = @ \cup {k}], k)
  ELSE Duplicates(r, k, zeroHops) \cup Repeats(r, k) \cup Upgrades(r, k)

FaultyForeignReply(r, k) ==
  IF k \in r.pending \cup r.commits \cup r.ourTx
  THEN NoteTxCancel(CancelRelay(CancelPending(r, k), k), k) ELSE CancelPending(r, k)

(* A reply or acknowledgement that names k: process_reliable_rx for our    *)
(* own packet, maybe_cancel_relay_for_foreign_ack for one we relay.        *)
ForeignReply(r, k) ==
  LET known == k \in r.pending \cup r.commits \cup r.ourTx
      c == CancelPending(r, k)
  IN  StopReliable(IF known THEN NoteTxCancel(CancelRelay(c, k), k) ELSE c, k)

HandleReply(r, k) == {Result(IF k \in Own THEN StopReliable(r, k) ELSE ForeignReply(r, k))}
=============================================================================
