---------------------------- MODULE TxPathProofs ----------------------------
(***************************************************************************)
(* The transmit path for every number of packets, table sizes and queue    *)
(* slots: the budget of attempts, silence after an answer, the insurance   *)
(* that a heard copy stops, and the two ways in which a reliable slot can  *)
(* be stranded.                                                            *)
(***************************************************************************)
EXTENDS TxPath, SlotLemmas

Uni == Unicasts \cup OwnUnicasts

(* What the router may still send of packet k. *)
Waits(r, k) == IF k \in r.pending THEN 1 ELSE 0
Tries(r, k) == IF r.rel[k] = NoSlot THEN 0 ELSE r.rel[k].retx
Armed(r, k) == {i \in T1Index : r.t1[i] = [key |-> k, st |-> "armed"]}
Left(r, k) == Waits(r, k) + Tries(r, k) + Cardinality(Armed(r, k))

(* The tables of the router are within their sizes, and each holds only    *)
(* the packets it is for.                                                  *)
Bounded(r) ==
  /\ r \in RouterType
  /\ Cardinality(r.pending) <= MAX_PENDING_RELAYS
  /\ Cardinality(r.commits) <= MAX_RELAY_STATES
  /\ Cardinality(ActiveSlots(r)) <= MAX_PENDING_RELIABLE
Sorted(r) ==
  /\ r.pending \cap Own = {}
  /\ \A k \in Packets : r.rel[k] # NoSlot => k \in Uni
  /\ \A i \in T1Index :
       r.t1[i].key \notin Uni /\ (r.t1[i].st = "armed" => r.t1[i].key # NoSlot)
Good(r) == Bounded(r) /\ Sorted(r)

(* s promises no more transmissions than r does. *)
Eases(r, s) ==
  /\ s.planned = r.planned /\ s.pending \subseteq r.pending
  /\ \A k \in Packets : s.rel[k] \in {r.rel[k], NoSlot, Transmitted(r.rel[k])}
  /\ \A k \in Packets : Armed(s, k) \subseteq Armed(r, k)

-----------------------------------------------------------------------------
(* Sets of packets and of T1 slots are finite. *)
LEMMA Smaller ==
  ASSUME NEW S \in SUBSET Packets, NEW U \in SUBSET S
  PROVE  Cardinality(S) \in Nat /\ Cardinality(U) \in Nat /\ Cardinality(U) <= Cardinality(S)
         /\ IsFiniteSet(S)
  <1>1. IsFiniteSet(S)
    BY PacketsFinite, FS_Subset
  <1> QED
    BY <1>1, FS_Subset, FS_CardinalityType

LEMMA T1Finite ==
  ASSUME NEW S \in SUBSET T1Index, NEW U \in SUBSET S
  PROVE  /\ Cardinality(S) \in Nat /\ Cardinality(U) \in Nat /\ Cardinality(U) <= Cardinality(S)
         /\ IsFiniteSet(S)
  <1>1. IsFiniteSet(T1Index)
    BY RouterSizes, FS_Interval DEF T1Index
  <1>2. IsFiniteSet(S)
    BY <1>1, FS_Subset
  <1> QED
    BY <1>2, FS_Subset, FS_CardinalityType

(* The fields of a router. *)
LEMMA RouterFields ==
  ASSUME NEW r \in RouterType
  PROVE  /\ r.pending \in SUBSET Packets /\ r.commits \in SUBSET Packets
         /\ r.ourTx \in SUBSET Packets /\ r.rel \in [Packets -> RelSlots \cup {NoSlot}]
         /\ r.t1 \in [T1Index -> T1Slots] /\ r.cancels \in SUBSET Packets
         /\ r.history \in SUBSET Packets /\ r.planned \in [Packets -> Nat]
  BY DEF RouterType

(* What is left of a packet is a number, and easing lowers it. *)
LEMMA LeftType ==
  ASSUME NEW r \in RouterType, NEW k \in Packets
  PROVE  /\ Left(r, k) \in Nat /\ Waits(r, k) \in {0, 1} /\ Tries(r, k) \in Nat
         /\ Cardinality(Armed(r, k)) \in Nat /\ IsFiniteSet(Armed(r, k))
  <1>1. Armed(r, k) \in SUBSET T1Index
    BY DEF Armed
  <1>2. Cardinality(Armed(r, k)) \in Nat /\ IsFiniteSet(Armed(r, k))
    BY <1>1, T1Finite
  <1>3. Tries(r, k) \in Nat
    BY RouterFields DEF Tries, RelSlots
  <1> QED
    BY <1>2, <1>3 DEF Left, Waits

LEMMA EasesLeft ==
  ASSUME NEW r \in RouterType, NEW s \in RouterType, Eases(r, s), NEW k \in Packets
  PROVE  Left(s, k) <= Left(r, k)
  <1>1. /\ Cardinality(Armed(s, k)) \in Nat /\ Cardinality(Armed(r, k)) \in Nat
        /\ Cardinality(Armed(s, k)) <= Cardinality(Armed(r, k))
    BY T1Finite DEF Eases, Armed
  <1>2. Tries(s, k) \in Nat /\ Tries(r, k) \in Nat /\ Waits(s, k) \in {0, 1} /\ Waits(r, k) \in {0, 1}
    BY LeftType
  <1>3. Waits(s, k) <= Waits(r, k)
    BY DEF Eases, Waits
  <1>4. Tries(s, k) <= Tries(r, k)
    <2>1. r.rel[k] \in RelSlots \cup {NoSlot}
      BY RouterFields
    <2>2. s.rel[k] \in {r.rel[k], NoSlot, Transmitted(r.rel[k])}
      BY DEF Eases
    <2>3. CASE r.rel[k] = NoSlot
      BY <1>2, <2>2, <2>3 DEF Tries, Transmitted
    <2>4. CASE r.rel[k] # NoSlot
      <3>1. Transmitted(r.rel[k]).retx = r.rel[k].retx /\ r.rel[k].retx \in Nat
        BY <2>1, <2>4 DEF Transmitted, RelSlots
      <3> QED
        BY <1>2, <2>2, <2>4, <3>1 DEF Tries
    <2> QED
      BY <2>3, <2>4
  <1> QED
    BY <1>1, <1>2, <1>3, <1>4 DEF Left

LEMMA EasesTrans ==
  ASSUME NEW r, NEW s, NEW t, Eases(r, s), Eases(s, t),
         \A k \in Packets : s.rel[k] # NoSlot => s.rel[k] \in RelSlots,
         \A k \in Packets : r.rel[k] # NoSlot => r.rel[k] \in RelSlots
  PROVE  Eases(r, t)
  <1>1. ASSUME NEW k \in Packets
        PROVE  t.rel[k] \in {r.rel[k], NoSlot, Transmitted(r.rel[k])}
    BY <1>1 DEF Eases, Transmitted, RelSlots
  <1> QED
    BY <1>1 DEF Eases

(* A router whose tables only shrink stays good. *)
LEMMA ShrinkGood ==
  ASSUME NEW r, Good(r), NEW s \in RouterType,
         s.pending \subseteq r.pending, s.commits \subseteq r.commits,
         \A k \in Packets : s.rel[k] # NoSlot => r.rel[k] # NoSlot,
         \A i \in T1Index :
           s.t1[i].key = r.t1[i].key /\ (s.t1[i].st = "armed" => r.t1[i].st = "armed")
  PROVE  Good(s)
  <1>1. r \in RouterType
    BY DEF Good, Bounded
  <1>2. r.pending \in SUBSET Packets /\ r.commits \in SUBSET Packets
    BY <1>1, RouterFields
  <1>3. ActiveSlots(r) \in SUBSET Packets /\ ActiveSlots(s) \in SUBSET ActiveSlots(r)
    BY DEF ActiveSlots
  <1>4. /\ Cardinality(s.pending) <= Cardinality(r.pending)
        /\ Cardinality(s.pending) \in Nat /\ Cardinality(r.pending) \in Nat
    BY <1>2, Smaller
  <1>5. /\ Cardinality(s.commits) <= Cardinality(r.commits)
        /\ Cardinality(s.commits) \in Nat /\ Cardinality(r.commits) \in Nat
    BY <1>2, Smaller
  <1>6. /\ Cardinality(ActiveSlots(s)) <= Cardinality(ActiveSlots(r))
        /\ Cardinality(ActiveSlots(s)) \in Nat /\ Cardinality(ActiveSlots(r)) \in Nat
    BY <1>3, Smaller
  <1>7. Bounded(s)
    BY <1>4, <1>5, <1>6, RouterSizes DEF Good, Bounded
  <1> QED
    BY <1>7 DEF Good, Sorted

-----------------------------------------------------------------------------
(* The operations that take something back. *)
LEMMA CancelPendingEases ==
  ASSUME NEW r, Good(r), NEW k
  PROVE  Good(CancelPending(r, k)) /\ Eases(r, CancelPending(r, k))
  <1>1. r \in RouterType
    BY DEF Good, Bounded
  <1>2. CancelPending(r, k) \in RouterType
    BY <1>1 DEF CancelPending, RouterType
  <1>3. /\ CancelPending(r, k).pending = r.pending \ {k} /\ CancelPending(r, k).commits = r.commits
        /\ CancelPending(r, k).rel = r.rel /\ CancelPending(r, k).t1 = r.t1
        /\ CancelPending(r, k).planned = r.planned
    BY <1>1 DEF CancelPending, RouterType
  <1>4. Eases(r, CancelPending(r, k))
    BY <1>3 DEF Eases, Armed
  <1> QED
    BY <1>2, <1>3, <1>4, ShrinkGood

LEMMA CancelRelayEases ==
  ASSUME NEW r, Good(r), NEW k
  PROVE  Good(CancelRelay(r, k)) /\ Eases(r, CancelRelay(r, k))
  <1>1. r \in RouterType
    BY DEF Good, Bounded
  <1>2. CancelRelay(r, k) \in RouterType
    BY <1>1 DEF CancelRelay, RouterType
  <1>3. /\ CancelRelay(r, k).pending = r.pending /\ CancelRelay(r, k).commits = r.commits \ {k}
        /\ CancelRelay(r, k).rel = r.rel /\ CancelRelay(r, k).t1 = r.t1
        /\ CancelRelay(r, k).planned = r.planned
    BY <1>1 DEF CancelRelay, RouterType
  <1>4. Eases(r, CancelRelay(r, k))
    BY <1>3 DEF Eases, Armed
  <1> QED
    BY <1>2, <1>3, <1>4, ShrinkGood

LEMMA NoteTxCancelEases ==
  ASSUME NEW r, Good(r), NEW k \in Packets
  PROVE  Good(NoteTxCancel(r, k)) /\ Eases(r, NoteTxCancel(r, k))
  <1>1. r \in RouterType
    BY DEF Good, Bounded
  <1>2. NoteTxCancel(r, k) \in RouterType
    BY <1>1 DEF NoteTxCancel, RouterType
  <1>3. /\ NoteTxCancel(r, k).pending = r.pending /\ NoteTxCancel(r, k).commits = r.commits
        /\ NoteTxCancel(r, k).rel = r.rel /\ NoteTxCancel(r, k).t1 = r.t1
        /\ NoteTxCancel(r, k).planned = r.planned
    BY <1>1 DEF NoteTxCancel, RouterType
  <1>4. Eases(r, NoteTxCancel(r, k))
    BY <1>3 DEF Eases, Armed
  <1> QED
    BY <1>2, <1>3, <1>4, ShrinkGood

LEMMA StopReliableEases ==
  ASSUME NEW r, Good(r), NEW k \in Packets
  PROVE  Good(StopReliable(r, k)) /\ Eases(r, StopReliable(r, k))
  <1>1. r \in RouterType
    BY DEF Good, Bounded
  <1>2. StopReliable(r, k) \in RouterType
    BY <1>1 DEF StopReliable, RouterType
  <1>3. /\ StopReliable(r, k).pending = r.pending /\ StopReliable(r, k).commits = r.commits
        /\ StopReliable(r, k).rel = [r.rel EXCEPT ![k] = NoSlot] /\ StopReliable(r, k).t1 = r.t1
        /\ StopReliable(r, k).planned = r.planned /\ r.rel \in [Packets -> RelSlots \cup {NoSlot}]
    BY <1>1 DEF StopReliable, RouterType
  <1>4. Eases(r, StopReliable(r, k))
    BY <1>3 DEF Eases, Armed
  <1> QED
    BY <1>2, <1>3, <1>4, ShrinkGood

LEMMA CancelT1Eases ==
  ASSUME NEW r, Good(r), NEW k \in Packets
  PROVE  Good(CancelT1(r, k)) /\ Eases(r, CancelT1(r, k))
  <1>1. r \in RouterType
    BY DEF Good, Bounded
  <1> DEFINE t == [i \in T1Index |-> IF i \in FirstT1Of(r, k) THEN [r.t1[i] EXCEPT !.st = "free"] ELSE r.t1[i]]
  <1>2. r.t1 \in [T1Index -> T1Slots] /\ t \in [T1Index -> T1Slots]
    BY <1>1 DEF RouterType, T1Slots
  <1>3. \A i \in T1Index : t[i].key = r.t1[i].key /\ (t[i].st = "armed" => t[i] = r.t1[i])
    BY <1>2 DEF T1Slots
  <1>4. /\ CancelT1(r, k).pending = r.pending /\ CancelT1(r, k).commits = r.commits
        /\ CancelT1(r, k).rel = r.rel /\ CancelT1(r, k).t1 = t
        /\ CancelT1(r, k).planned = r.planned
    BY <1>1 DEF CancelT1, RouterType
  <1>5. CancelT1(r, k) \in RouterType
    BY <1>1, <1>2 DEF CancelT1, RouterType
  <1> HIDE DEF t
  <1>6. Eases(r, CancelT1(r, k))
    BY <1>3, <1>4 DEF Eases, Armed
  <1> QED
    BY <1>3, <1>4, <1>5, <1>6, ShrinkGood

-----------------------------------------------------------------------------
(* The operations that promise a transmission: what they add for packet k  *)
(* they plan, and other packets are left alone.                            *)
Others(r, s, k) ==
  \A j \in Packets \ {k} :
    /\ s.planned[j] = r.planned[j] /\ (j \in s.pending <=> j \in r.pending)
    /\ s.rel[j] = r.rel[j] /\ Armed(s, j) = Armed(r, j)

NewSlot(named, redirect, retx) ==
  [named |-> named, redirect |-> redirect, retx |-> retx, awaiting |-> TRUE, sent |-> FALSE]

LEMMA ScheduleReliableFacts ==
  ASSUME NEW r, Good(r), NEW k \in Uni, NEW named, NEW redirect,
         NEW retx \in Nat, NewSlot(named, redirect, retx) \in RelSlots,
         NEW s, s = ScheduleReliable(r, k, named, redirect, retx)
  PROVE  /\ Good(s) /\ Others(r, s, k) /\ s.pending = r.pending /\ s.cancels = r.cancels
         /\ Armed(s, k) = Armed(r, k)
         /\ \/ s.rel[k] = r.rel[k] /\ s.planned[k] = r.planned[k]
            \/ /\ s.rel[k] = NewSlot(named, redirect, retx) /\ r.rel[k] = NoSlot
               /\ s.planned[k] = r.planned[k] + retx
  <1>1. /\ r \in RouterType /\ k \in Packets
        /\ r.rel \in [Packets -> RelSlots \cup {NoSlot}] /\ r.planned \in [Packets -> Nat]
    BY DEF Good, Bounded, RouterType, Uni, Packets, Own
  <1>2. CASE ~(r.rel[k] = NoSlot /\ CanSchedule(r, k))
    BY <1>2 DEF ScheduleReliable, Others
  <1>3. CASE r.rel[k] = NoSlot /\ CanSchedule(r, k)
    <2> DEFINE slot == NewSlot(named, redirect, retx)
    <2>1. slot \in RelSlots
      OBVIOUS
    <2>2. s = [r EXCEPT !.planned[k] = @ + retx, !.rel[k] = slot]
      BY <1>3 DEF ScheduleReliable, NewSlot
    <2> HIDE DEF slot
    <2>3. s \in RouterType
      <3> DEFINE p == [r.planned EXCEPT ![k] = @ + retx]
                 g == [r.rel EXCEPT ![k] = slot]
      <3>1. p \in [Packets -> Nat] /\ g \in [Packets -> RelSlots \cup {NoSlot}]
        BY <1>1, <2>1
      <3>2. s = [r EXCEPT !.planned = p, !.rel = g]
        BY <1>1, <2>2 DEF RouterType
      <3> HIDE DEF p, g
      <3> QED
        BY <1>1, <3>1, <3>2 DEF RouterType
    <2>4. /\ s.pending = r.pending /\ s.commits = r.commits /\ s.cancels = r.cancels /\ s.t1 = r.t1
          /\ s.rel = [r.rel EXCEPT ![k] = slot]
          /\ s.planned = [r.planned EXCEPT ![k] = @ + retx]
      BY <1>1, <2>2 DEF RouterType
    <2>5. Cardinality(ActiveSlots(s)) <= MAX_PENDING_RELIABLE
      <3>1. ActiveSlots(r) \in SUBSET Packets /\ ActiveSlots(s) \subseteq ActiveSlots(r) \cup {k}
        BY <1>1, <2>4 DEF ActiveSlots
      <3>2. /\ Cardinality(ActiveSlots(r)) \in Nat /\ IsFiniteSet(ActiveSlots(r))
            /\ Cardinality(ActiveSlots(r)) < MAX_PENDING_RELIABLE
        BY <1>3, <3>1, Smaller DEF CanSchedule
      <3>3. /\ IsFiniteSet(ActiveSlots(r) \cup {k})
            /\ Cardinality(ActiveSlots(r) \cup {k}) <= Cardinality(ActiveSlots(r)) + 1
        <4>1. /\ IsFiniteSet(ActiveSlots(r) \cup {k})
              /\ Cardinality(ActiveSlots(r) \cup {k}) =
                   IF k \in ActiveSlots(r) THEN Cardinality(ActiveSlots(r))
                   ELSE Cardinality(ActiveSlots(r)) + 1
          BY <3>2, FS_AddElement
        <4> QED
          BY <3>2, <4>1
      <3>4. ActiveSlots(r) \cup {k} \in SUBSET Packets
        BY <1>1, <3>1
      <3>5. /\ Cardinality(ActiveSlots(s)) <= Cardinality(ActiveSlots(r) \cup {k})
            /\ Cardinality(ActiveSlots(s)) \in Nat /\ Cardinality(ActiveSlots(r) \cup {k}) \in Nat
        BY <3>1, <3>4, Smaller
      <3> QED
        BY <3>2, <3>3, <3>5, RouterSizes
    <2>6. Bounded(s)
      BY <2>3, <2>4, <2>5 DEF Good, Bounded
    <2>7. Sorted(s)
      BY <1>1, <2>4 DEF Good, Sorted
    <2>8. Others(r, s, k) /\ Armed(s, k) = Armed(r, k)
      BY <1>1, <2>4 DEF Others, Armed
    <2>9. s.rel[k] = slot /\ s.planned[k] = r.planned[k] + retx
      BY <1>1, <2>4
    <2> QED
      BY <1>3, <2>4, <2>6, <2>7, <2>8, <2>9 DEF Good, slot
  <1> QED
    BY <1>2, <1>3

LEMMA ScheduleT1Facts ==
  ASSUME NEW r, Good(r), NEW k \in Packets \ Uni, NEW s, s = ScheduleT1(r, k)
  PROVE  /\ Good(s) /\ Others(r, s, k) /\ s.pending = r.pending /\ s.cancels = r.cancels
         /\ s.rel = r.rel
         /\ \/ Armed(s, k) = Armed(r, k) /\ s.planned[k] = r.planned[k]
            \/ /\ Cardinality(Armed(s, k)) = Cardinality(Armed(r, k)) + 1
               /\ s.planned[k] = r.planned[k] + 1
  <1>1. /\ r \in RouterType
        /\ r.t1 \in [T1Index -> T1Slots] /\ r.planned \in [Packets -> Nat]
    BY DEF Good, Bounded, RouterType
  <1>2. CASE \E i \in T1Index : r.t1[i] = [key |-> k, st |-> "armed"]
    BY <1>2 DEF ScheduleT1, Others
  <1>3. CASE ~\E i \in T1Index : r.t1[i] = [key |-> k, st |-> "armed"]
    <2> DEFINE slot == [key |-> k, st |-> "armed"]
               t == [i \in T1Index |-> IF i \in FirstFreeT1(r) THEN slot ELSE r.t1[i]]
               p == [r.planned EXCEPT ![k] = IF FirstFreeT1(r) = {} THEN @ ELSE @ + 1]
    <2>1. slot \in T1Slots
      BY DEF T1Slots
    <2>2. t \in [T1Index -> T1Slots] /\ p \in [Packets -> Nat]
      BY <1>1, <2>1
    <2>3. s = [r EXCEPT !.t1 = t, !.planned = p]
      BY <1>1, <1>3 DEF ScheduleT1, RouterType
    <2> HIDE DEF t, p
    <2>4. s \in RouterType
      BY <1>1, <2>2, <2>3 DEF RouterType
    <2>5. /\ s.pending = r.pending /\ s.commits = r.commits /\ s.cancels = r.cancels /\ s.t1 = t
          /\ s.rel = r.rel /\ s.planned = p
      BY <1>1, <2>3 DEF RouterType
    <2>6. Bounded(s)
      BY <2>4, <2>5 DEF Good, Bounded, ActiveSlots
    <2>7. Sorted(s)
      BY <1>1, <2>5, PacketsFinite DEF Good, Sorted, t
    <2>8. \A i \in FirstFreeT1(r) : i \in T1Index /\ r.t1[i].st # "armed"
      BY DEF FirstFreeT1
    <2>9. \A j \in Packets \ {k} : Armed(s, j) = Armed(r, j) /\ s.planned[j] = r.planned[j]
      BY <1>1, <2>5, <2>8 DEF Armed, t, p
    <2>10. Others(r, s, k)
      BY <2>5, <2>9 DEF Others
    <2>11. CASE FirstFreeT1(r) = {}
      <3>1. t = r.t1 /\ p = r.planned
        BY <1>1, <2>11 DEF t, p
      <3> QED
        BY <2>5, <2>6, <2>7, <2>10, <3>1 DEF Armed, Good
    <2>12. CASE FirstFreeT1(r) # {}
      <3>1. PICK i \in FirstFreeT1(r) : TRUE
        BY <2>12
      <3>2. FirstFreeT1(r) = {i}
        <4>1. ASSUME NEW j \in FirstFreeT1(r), j # i PROVE FALSE
          <5>1. i \in T1Index /\ j \in T1Index /\ i \in Nat /\ j \in Nat
            BY <2>8, <3>1, RouterSizes DEF T1Index
          <5>2. CASE i < j
            <6>1. i \in 1..(j - 1)
              BY <5>1, <5>2 DEF T1Index
            <6> QED
              BY <4>1, <6>1, <2>8, <3>1 DEF FirstFreeT1
          <5>3. CASE j < i
            <6>1. j \in 1..(i - 1)
              BY <5>1, <5>3 DEF T1Index
            <6> QED
              BY <3>1, <4>1, <6>1, <2>8 DEF FirstFreeT1
          <5> QED
            BY <4>1, <5>1, <5>2, <5>3
        <4> QED
          BY <3>1, <4>1
      <3>3. Armed(r, k) = {} /\ Armed(s, k) = {i}
        BY <1>3, <2>5, <2>8, <3>1, <3>2 DEF Armed, t
      <3>4. Cardinality(Armed(s, k)) = 1 /\ Cardinality(Armed(r, k)) = 0
        BY <3>3, FS_EmptySet, FS_Singleton
      <3>5. s.planned[k] = r.planned[k] + 1
        BY <1>1, <2>5, <2>12 DEF p
      <3> QED
        BY <2>5, <2>6, <2>7, <2>10, <3>4, <3>5 DEF Good
    <2> QED
      BY <2>11, <2>12
  <1> QED
    BY <1>2, <1>3

(* commit_relay and the decision to send one frame. *)
LEMMA CommitFacts ==
  ASSUME NEW r, Good(r), NEW k \in Packets,
         NEW c, c = [CommitRelay(r, k) EXCEPT !.planned[k] = @ + 1]
  PROVE  /\ Good(c) /\ Others(r, c, k) /\ c.pending = r.pending /\ c.cancels = r.cancels
         /\ c.rel = r.rel /\ Armed(c, k) = Armed(r, k) /\ c.planned[k] = r.planned[k] + 1
  <1>1. r \in RouterType /\ r.planned \in [Packets -> Nat] /\ r.commits \in SUBSET Packets
    BY DEF Good, Bounded, RouterType
  <1> DEFINE m == IF Cardinality(r.commits) < MAX_RELAY_STATES THEN r.commits \cup {k} ELSE r.commits
             p == [r.planned EXCEPT ![k] = @ + 1]
  <1>2. m \in SUBSET Packets /\ p \in [Packets -> Nat]
    BY <1>1
  <1>3. c = [r EXCEPT !.commits = m, !.planned = p]
    BY <1>1 DEF CommitRelay, RouterType
  <1>4. Cardinality(m) <= MAX_RELAY_STATES
    <2>1. CASE Cardinality(r.commits) < MAX_RELAY_STATES
      <3>1. IsFiniteSet(r.commits) /\ Cardinality(r.commits) \in Nat
        BY <1>1, Smaller
      <3>2. Cardinality(r.commits \cup {k}) =
              IF k \in r.commits THEN Cardinality(r.commits) ELSE Cardinality(r.commits) + 1
        BY <3>1, FS_AddElement
      <3> QED
        BY <2>1, <3>1, <3>2, RouterSizes
    <2>2. CASE ~(Cardinality(r.commits) < MAX_RELAY_STATES)
      BY <2>2 DEF Good, Bounded
    <2> QED
      BY <2>1, <2>2
  <1> HIDE DEF m, p
  <1>5. c \in RouterType
    BY <1>1, <1>2, <1>3 DEF RouterType
  <1>6. /\ c.pending = r.pending /\ c.commits = m /\ c.cancels = r.cancels /\ c.t1 = r.t1
        /\ c.rel = r.rel /\ c.planned = p
    BY <1>1, <1>3 DEF RouterType
  <1>7. Good(c)
    BY <1>4, <1>5, <1>6 DEF Good, Bounded, Sorted, ActiveSlots
  <1>8. Others(r, c, k) /\ c.planned[k] = r.planned[k] + 1
    BY <1>1, <1>6 DEF Others, Armed, p
  <1> QED
    BY <1>6, <1>7, <1>8 DEF Armed

LEMMA StorePendingFacts ==
  ASSUME NEW r, Good(r), NEW k \in Packets \ Own, CanDefer(r, k), NEW s, s = StorePending(r, k)
  PROVE  /\ Good(s) /\ Others(r, s, k) /\ s.rel = r.rel /\ s.cancels = r.cancels
         /\ Armed(s, k) = Armed(r, k) /\ s.planned = r.planned /\ s.pending = r.pending \cup {k}
  <1>1. r \in RouterType /\ r.pending \in SUBSET Packets
    BY DEF Good, Bounded, RouterType
  <1>2. s \in RouterType
    BY <1>1 DEF RouterType, StorePending
  <1>3. /\ s.pending = r.pending \cup {k} /\ s.commits = r.commits /\ s.cancels = r.cancels
        /\ s.t1 = r.t1 /\ s.rel = r.rel /\ s.planned = r.planned
    BY <1>1 DEF RouterType, StorePending
  <1>4. IsFiniteSet(r.pending) /\ Cardinality(r.pending) \in Nat
    BY <1>1, Smaller
  <1>5. Cardinality(r.pending \cup {k}) =
          IF k \in r.pending THEN Cardinality(r.pending) ELSE Cardinality(r.pending) + 1
    BY <1>4, FS_AddElement
  <1>6. Cardinality(s.pending) <= MAX_PENDING_RELAYS
    BY <1>3, <1>4, <1>5, RouterSizes DEF CanDefer, Good, Bounded
  <1>7. Good(s)
    BY <1>2, <1>3, <1>6 DEF Good, Bounded, Sorted, ActiveSlots
  <1> QED
    BY <1>3, <1>7 DEF Others, Armed

(* What a plan for packet k promises. *)
PlanEffect(r, out, k) ==
  /\ Good(out.r) /\ Others(r, out.r, k) /\ out.r.cancels = r.cancels
  /\ r.planned[k] <= out.r.planned[k]
  /\ Left(out.r, k) + (IF out.relay THEN 1 ELSE 0) + r.planned[k] <= Left(r, k) + out.r.planned[k]
  /\ out.r.planned[k] = r.planned[k] =>
       ~out.relay /\ out.r.rel[k] = r.rel[k] /\ (k \in out.r.pending => k \in r.pending)
  /\ k \in Own => out.r.planned[k] = r.planned[k]
  /\ out.relay => ~CanDefer(r, k)
  /\ out.r.rel[k] # r.rel[k] => out.relay /\ k \in Unicasts /\ ~out.r.rel[k].sent

(* evaluate_tx_plan promises what it counts. *)
LEMMA PlanFacts ==
  ASSUME NEW r, Good(r), NEW k \in Packets, NEW out \in Plans(r, k)
  PROVE  PlanEffect(r, out, k)
  <1>1. r \in RouterType /\ r.planned \in [Packets -> Nat]
    BY DEF Good, Bounded, RouterType
  <1>2. /\ Left(r, k) \in Nat /\ Waits(r, k) \in {0, 1} /\ Tries(r, k) \in Nat
        /\ Cardinality(Armed(r, k)) \in Nat
    BY <1>1, LeftType
  <1> DEFINE c == [CommitRelay(r, k) EXCEPT !.planned[k] = @ + 1]
  <1>3. \/ out = Result(r)
        \/ k \notin Own /\ k \in Broadcasts /\ out = Result(ScheduleT1(r, k))
        \/ k \notin Own /\ CanDefer(c, k) /\ out = Result(StorePending(c, k))
        \/ /\ k \notin Own /\ ~CanDefer(c, k)
           /\ \E f \in FollowUps : out = [r |-> ArmFollowUp(c, k, f), relay |-> TRUE]
    BY DEF Plans
  <1>4. /\ Good(c) /\ Others(r, c, k) /\ c.pending = r.pending /\ c.cancels = r.cancels
        /\ c.rel = r.rel /\ Armed(c, k) = Armed(r, k) /\ c.planned[k] = r.planned[k] + 1
    BY CommitFacts
  <1> HIDE DEF c
  <1>5. CASE out = Result(r)
    BY <1>1, <1>2, <1>5 DEF Result, PlanEffect, Others
  <1>6. CASE k \notin Own /\ k \in Broadcasts /\ out = Result(ScheduleT1(r, k))
    <2> DEFINE s == ScheduleT1(r, k)
    <2>1. out.r = s /\ out.relay = FALSE
      BY <1>6 DEF Result
    <2>2. k \in Packets \ Uni
      BY <1>6, PacketClasses DEF Uni, Own
    <2>3. /\ Good(s) /\ Others(r, s, k) /\ s.pending = r.pending /\ s.cancels = r.cancels
          /\ s.rel = r.rel
          /\ \/ Armed(s, k) = Armed(r, k) /\ s.planned[k] = r.planned[k]
             \/ /\ Cardinality(Armed(s, k)) = Cardinality(Armed(r, k)) + 1
                /\ s.planned[k] = r.planned[k] + 1
      BY <2>2, ScheduleT1Facts
    <2> HIDE DEF s
    <2> QED
      BY <1>1, <1>2, <1>6, <2>1, <2>3 DEF PlanEffect, Left, Waits, Tries
  <1>7. CASE k \notin Own /\ CanDefer(c, k) /\ out = Result(StorePending(c, k))
    <2> DEFINE s == StorePending(c, k)
    <2>1. out.r = s /\ out.relay = FALSE
      BY <1>7 DEF Result
    <2>3. /\ Good(s) /\ Others(c, s, k) /\ s.rel = c.rel /\ s.cancels = c.cancels
          /\ Armed(s, k) = Armed(c, k) /\ s.planned = c.planned
      BY <1>4, <1>7, StorePendingFacts
    <2> HIDE DEF s
    <2>4. Others(r, s, k)
      BY <1>4, <2>3 DEF Others
    <2>5. s.planned[k] = r.planned[k] + 1
      BY <1>4, <2>3
    <2>6. Left(s, k) <= Left(r, k) + 1 /\ Left(s, k) \in Nat
      BY <1>2, <1>4, <2>3 DEF Left, Waits, Tries
    <2> QED
      BY <1>1, <1>2, <1>4, <1>7, <2>1, <2>3, <2>4, <2>5, <2>6 DEF PlanEffect
  <1>8. ASSUME k \notin Own, ~CanDefer(c, k), NEW f \in FollowUps,
               out = [r |-> ArmFollowUp(c, k, f), relay |-> TRUE]
        PROVE  PlanEffect(r, out, k)
    <2> DEFINE s == ArmFollowUp(c, k, f)
    <2>1. out.r = s /\ out.relay = TRUE
      BY <1>8
    <2>2. ~CanDefer(r, k)
      BY <1>4, <1>8 DEF CanDefer
    <2>3. f.retx \in Nat /\ f.redirect \in BOOLEAN
      <3>1. \/ f.retx = 0 /\ f.redirect = FALSE
            \/ f.retx = 1 /\ f.redirect = FALSE
            \/ f.retx = NAMED_FOLLOWUP_TRIES /\ f.redirect = TRUE
        <4>1. \/ f = [retx |-> 0, redirect |-> FALSE] \/ f = [retx |-> 1, redirect |-> FALSE]
              \/ f = [retx |-> NAMED_FOLLOWUP_TRIES, redirect |-> TRUE]
          BY <1>8, Zenon DEF FollowUps
        <4> QED
          BY <4>1
      <3>2. f.redirect \in BOOLEAN
        BY <3>1, Zenon
      <3> QED
        BY <3>1, <3>2, RouterSizes
    <2>n. NewSlot(TRUE, f.redirect, f.retx) \in RelSlots
      BY <2>3 DEF NewSlot, RelSlots
    <2>4. CASE ~(k \in Unicasts /\ f.retx > 0)
      <3>1. s = c
        BY <2>4 DEF ArmFollowUp
      <3>2. Left(s, k) = Left(r, k)
        BY <1>4, <3>1 DEF Left, Waits, Tries
      <3> HIDE DEF s
      <3> QED
        BY <1>1, <1>2, <1>4, <1>8, <2>1, <2>2, <3>1, <3>2 DEF PlanEffect
    <2>5. CASE k \in Unicasts /\ f.retx > 0
      <3>1. s = ScheduleReliable(c, k, TRUE, f.redirect, f.retx) /\ k \in Uni
        BY <2>5 DEF ArmFollowUp, Uni
      <3>2. /\ Good(s) /\ Others(c, s, k) /\ s.pending = c.pending /\ s.cancels = c.cancels
            /\ Armed(s, k) = Armed(c, k)
            /\ \/ s.rel[k] = c.rel[k] /\ s.planned[k] = c.planned[k]
               \/ /\ s.rel[k] = NewSlot(TRUE, f.redirect, f.retx) /\ c.rel[k] = NoSlot
                  /\ s.planned[k] = c.planned[k] + f.retx
        <4> DEFINE named == TRUE
        <4>1. s = ScheduleReliable(c, k, named, f.redirect, f.retx)
          BY <3>1
        <4>2. NewSlot(named, f.redirect, f.retx) \in RelSlots
          BY <2>n
        <4> HIDE DEF s, named
        <4>3. /\ Good(s) /\ Others(c, s, k) /\ s.pending = c.pending /\ s.cancels = c.cancels
              /\ Armed(s, k) = Armed(c, k)
              /\ \/ s.rel[k] = c.rel[k] /\ s.planned[k] = c.planned[k]
                 \/ /\ s.rel[k] = NewSlot(named, f.redirect, f.retx) /\ c.rel[k] = NoSlot
                    /\ s.planned[k] = c.planned[k] + f.retx
          <5>1. Good(c) /\ k \in Uni /\ f.retx \in Nat
            BY <1>4, <2>3, <3>1
          <5> QED
            BY <4>1, <4>2, <5>1, ScheduleReliableFacts
        <4> QED
          BY <4>3 DEF named
      <3> HIDE DEF s
      <3>3. Others(r, s, k)
        BY <1>4, <3>2 DEF Others
      <3>4. Waits(s, k) = Waits(r, k) /\ Cardinality(Armed(s, k)) = Cardinality(Armed(r, k))
        BY <1>4, <3>2 DEF Waits
      <3>5. CASE s.rel[k] = c.rel[k] /\ s.planned[k] = c.planned[k]
        <4>1. Tries(s, k) = Tries(r, k) /\ s.planned[k] = r.planned[k] + 1
          BY <1>4, <3>5 DEF Tries
        <4>2. Left(s, k) = Left(r, k)
          BY <3>4, <4>1 DEF Left
        <4> QED
          BY <1>1, <1>2, <1>4, <1>8, <2>1, <2>2, <3>2, <3>3, <3>5, <4>1, <4>2 DEF PlanEffect
      <3>6. CASE /\ s.rel[k] = NewSlot(TRUE, f.redirect, f.retx) /\ c.rel[k] = NoSlot
                 /\ s.planned[k] = c.planned[k] + f.retx
        <4>0. s.rel[k].sent = FALSE
          BY <3>6 DEF NewSlot
        <4>1. Tries(s, k) <= f.retx /\ Tries(s, k) \in Nat /\ Tries(r, k) = 0
          BY <1>4, <2>3, <3>6 DEF Tries, NewSlot
        <4>2. s.planned[k] = r.planned[k] + 1 + f.retx
          BY <1>4, <3>6
        <4>3. Left(s, k) <= Left(r, k) + f.retx /\ Left(s, k) \in Nat
          BY <1>2, <2>3, <3>4, <4>1 DEF Left
        <4> QED
          BY <1>1, <1>2, <1>4, <1>8, <2>1, <2>2, <2>3, <2>5, <3>2, <3>3, <4>0, <4>2, <4>3 DEF PlanEffect
      <3> QED
        BY <3>2, <3>5, <3>6
    <2> QED
      BY <2>4, <2>5
  <1> QED
    BY <1>3, <1>5, <1>6, <1>7, <1>8

-----------------------------------------------------------------------------
(* Receptions. *)
LEMMA GoodSlots ==
  ASSUME NEW r, Good(r)
  PROVE  /\ r \in RouterType
         /\ \A k \in Packets : r.rel[k] # NoSlot => r.rel[k] \in RelSlots
  <1>1. r \in RouterType
    BY DEF Good, Bounded
  <1> QED
    BY <1>1, RouterFields

LEMMA EasesThen ==
  ASSUME NEW r, NEW s, NEW t, Good(r), Good(s), Eases(r, s), Eases(s, t)
  PROVE  Eases(r, t)
  BY GoodSlots, EasesTrans

LEMMA EasesSelf ==
  ASSUME NEW r
  PROVE  Eases(r, r)
  BY DEF Eases

LEMMA ForgetEases ==
  ASSUME NEW r, Good(r), NEW k
  PROVE  Good(Forget(r, k)) /\ Eases(r, Forget(r, k))
  <1>1. Good(CancelPending(r, k)) /\ Eases(r, CancelPending(r, k))
    BY CancelPendingEases
  <1>2. Good(CancelRelay(CancelPending(r, k), k))
        /\ Eases(CancelPending(r, k), CancelRelay(CancelPending(r, k), k))
    BY <1>1, CancelRelayEases
  <1> QED
    BY <1>1, <1>2, EasesThen DEF Forget

LEMMA StandDownEases ==
  ASSUME NEW r, Good(r), NEW k
  PROVE  /\ Good(CancelPending(CancelRelay(r, k), k))
         /\ Eases(r, CancelPending(CancelRelay(r, k), k))
  <1>1. Good(CancelRelay(r, k)) /\ Eases(r, CancelRelay(r, k))
    BY CancelRelayEases
  <1>2. /\ Good(CancelPending(CancelRelay(r, k), k))
        /\ Eases(CancelRelay(r, k), CancelPending(CancelRelay(r, k), k))
    BY <1>1, CancelPendingEases
  <1> QED
    BY <1>1, <1>2, EasesThen

(* perhaps_cancel_dupe only takes back. *)
LEMMA CancelDupeEases ==
  ASSUME NEW r, Good(r), NEW k \in Packets, NEW v
  PROVE  Good(PerhapsCancelDupe(r, k, v)) /\ Eases(r, PerhapsCancelDupe(r, k, v))
  <1> DEFINE s == CancelPending(CancelRelay(r, k), k)
             t == CancelT1(r, k)
             Taken(u) == Good(u) /\ Eases(r, u)
  <1>1. Taken(r)
    BY EasesSelf
  <1>2. Taken(s)
    BY StandDownEases
  <1>3. ASSUME NEW u, Taken(u)
        PROVE  Taken(NoteTxCancel(u, k)) /\ Taken(CancelT1(u, k)) /\ Taken(CancelRelay(u, k))
    <2>1. /\ Good(NoteTxCancel(u, k)) /\ Eases(u, NoteTxCancel(u, k))
          /\ Good(CancelT1(u, k)) /\ Eases(u, CancelT1(u, k))
          /\ Good(CancelRelay(u, k)) /\ Eases(u, CancelRelay(u, k))
      BY <1>3, NoteTxCancelEases, CancelT1Eases, CancelRelayEases
    <2> QED
      BY <1>3, <2>1, EasesThen
  <1>4. Taken(t) /\ Taken(CancelRelay(t, k)) /\ Taken(NoteTxCancel(CancelRelay(t, k), k))
    BY <1>1, <1>3
  <1>5. Taken(NoteTxCancel(s, k)) /\ Taken(CancelT1(NoteTxCancel(s, k), k)) /\ Taken(CancelT1(s, k))
    BY <1>2, <1>3
  <1>6. \/ PerhapsCancelDupe(r, k, v) = NoteTxCancel(s, k)
        \/ PerhapsCancelDupe(r, k, v) = r
        \/ PerhapsCancelDupe(r, k, v) = t
        \/ PerhapsCancelDupe(r, k, v) = NoteTxCancel(CancelRelay(t, k), k)
        \/ PerhapsCancelDupe(r, k, v) = CancelT1(NoteTxCancel(s, k), k)
        \/ PerhapsCancelDupe(r, k, v) = CancelT1(s, k)
    BY Zenon DEF PerhapsCancelDupe
  <1> HIDE DEF s, t
  <1> QED
    BY <1>1, <1>4, <1>5, <1>6

LEMMA DuplicateEases ==
  ASSUME NEW r, Good(r), NEW k \in Packets, NEW zeroHops, NEW v
  PROVE  Good(HandleDuplicate(r, k, zeroHops, v)) /\ Eases(r, HandleDuplicate(r, k, zeroHops, v))
  <1> DEFINE s == StopReliable(r, k)
  <1>1. Good(s) /\ Eases(r, s)
    BY StopReliableEases
  <1>2. /\ Good(PerhapsCancelDupe(r, k, v)) /\ Eases(r, PerhapsCancelDupe(r, k, v))
        /\ Good(PerhapsCancelDupe(s, k, v)) /\ Eases(s, PerhapsCancelDupe(s, k, v))
    BY <1>1, CancelDupeEases
  <1>3. Eases(r, PerhapsCancelDupe(s, k, v)) /\ Eases(r, r)
    BY <1>1, <1>2, EasesThen, EasesSelf
  <1>4. HandleDuplicate(r, k, zeroHops, v) \in
          {r, s, PerhapsCancelDupe(r, k, v), PerhapsCancelDupe(s, k, v)}
    BY Zenon DEF HandleDuplicate
  <1> HIDE DEF s
  <1> QED
    BY <1>1, <1>2, <1>3, <1>4

(* What handling a received frame that names k may do. *)
Keeps0(r, s, j) == s.rel[j] \in {r.rel[j], NoSlot, Transmitted(r.rel[j])}
HandleEffect(r, out, k) ==
  /\ Good(out.r)
  /\ \A j \in Packets :
       /\ r.planned[j] <= out.r.planned[j]
       /\ Left(out.r, j) + (IF out.relay /\ j = k THEN 1 ELSE 0) + r.planned[j]
            <= Left(r, j) + out.r.planned[j]
       /\ out.r.planned[j] = r.planned[j] =>
            /\ ~(out.relay /\ j = k) /\ Keeps0(r, out.r, j)
            /\ j \in out.r.pending => j \in r.pending
       /\ j \in Own => out.r.planned[j] = r.planned[j]
       /\ ~Keeps0(r, out.r, j) =>
            out.relay /\ j = k /\ k \in Unicasts /\ ~out.r.rel[j].sent /\ j \notin out.r.cancels

LEMMA EasedEffect ==
  ASSUME NEW r, Good(r), NEW s, Good(s), Eases(r, s), NEW k
  PROVE  HandleEffect(r, Result(s), k)
  <1>1. r \in RouterType /\ s \in RouterType
    BY GoodSlots
  <1>2. \A j \in Packets : /\ Left(s, j) <= Left(r, j) /\ Left(s, j) \in Nat /\ Left(r, j) \in Nat
                           /\ s.planned[j] = r.planned[j] /\ r.planned[j] \in Nat
    BY <1>1, EasesLeft, LeftType, RouterFields DEF Eases
  <1>3. Result(s).r = s /\ Result(s).relay = FALSE
    BY DEF Result
  <1>4. \A j \in Packets : Keeps0(r, s, j) /\ (j \in s.pending => j \in r.pending)
    BY DEF Eases, Keeps0
  <1> QED
    BY <1>2, <1>3, <1>4 DEF HandleEffect

LEMMA PlannedEffect ==
  ASSUME NEW r, Good(r), NEW s, Good(s), Eases(r, s), NEW k \in Packets, NEW out \in Plans(s, k),
         out.relay => s.cancels \cap Uni = {}
  PROVE  HandleEffect(r, out, k)
  <1>1. r \in RouterType /\ s \in RouterType
    BY GoodSlots
  <1>2. PlanEffect(s, out, k)
    BY PlanFacts
  <1>3. out.r \in RouterType
    BY <1>2, GoodSlots DEF PlanEffect
  <1>4. \A j \in Packets : /\ Left(s, j) <= Left(r, j) /\ Left(s, j) \in Nat /\ Left(r, j) \in Nat
                           /\ Left(out.r, j) \in Nat
                           /\ s.planned[j] = r.planned[j] /\ r.planned[j] \in Nat
                           /\ out.r.planned[j] \in Nat
    BY <1>1, <1>3, EasesLeft, LeftType, RouterFields DEF Eases
  <1>5. \A j \in Packets : Keeps0(r, s, j) /\ (j \in s.pending => j \in r.pending)
    BY DEF Eases, Keeps0
  <1>6. ASSUME NEW j \in Packets \ {k}
        PROVE  /\ Left(out.r, j) = Left(s, j) /\ out.r.planned[j] = s.planned[j]
               /\ Keeps0(r, out.r, j) /\ (j \in out.r.pending => j \in r.pending)
    BY <1>2, <1>5, <1>6 DEF PlanEffect, Others, Left, Waits, Tries, Keeps0
  <1>7. /\ s.planned[k] <= out.r.planned[k]
        /\ Left(out.r, k) + (IF out.relay THEN 1 ELSE 0) + s.planned[k] <= Left(s, k) + out.r.planned[k]
        /\ out.r.planned[k] = s.planned[k] =>
             ~out.relay /\ out.r.rel[k] = s.rel[k] /\ (k \in out.r.pending => k \in s.pending)
        /\ k \in Own => out.r.planned[k] = s.planned[k]
        /\ out.r.rel[k] # s.rel[k] => out.relay /\ k \in Unicasts /\ ~out.r.rel[k].sent
        /\ out.r.cancels = s.cancels /\ Good(out.r)
    BY <1>2 DEF PlanEffect
  <1>8. k \in Unicasts => k \in Uni
    BY DEF Uni
  <1>9. /\ r.planned[k] <= out.r.planned[k]
        /\ Left(out.r, k) + (IF out.relay THEN 1 ELSE 0) + r.planned[k] <= Left(r, k) + out.r.planned[k]
    BY <1>4, <1>7
  <1>10. out.r.planned[k] = r.planned[k] =>
             ~out.relay /\ Keeps0(r, out.r, k) /\ (k \in out.r.pending => k \in r.pending)
    BY <1>4, <1>5, <1>7 DEF Keeps0
  <1>11. ~Keeps0(r, out.r, k) => out.relay /\ k \in Unicasts /\ ~out.r.rel[k].sent /\ k \notin out.r.cancels
    BY <1>5, <1>7, <1>8 DEF Keeps0
  <1>12. k \in Own => out.r.planned[k] = r.planned[k]
    BY <1>4, <1>7
  <1>13. ASSUME NEW j \in Packets \ {k}
         PROVE  /\ r.planned[j] <= out.r.planned[j] /\ out.r.planned[j] = r.planned[j]
                /\ Left(out.r, j) + r.planned[j] <= Left(r, j) + out.r.planned[j]
    BY <1>4, <1>6, <1>13
  <1> QED
    BY <1>6, <1>7, <1>9, <1>10, <1>11, <1>12, <1>13, <1>4 DEF HandleEffect

(* Where nothing asks to pull a unicast out of the queue, a frame with the *)
(* copy of a packet is handled within the budget.                          *)
LEMMA CopyEffect ==
  ASSUME NEW r, Good(r), r.cancels \cap Uni = {}, NEW k \in Packets, NEW zeroHops,
         NEW out \in HandleCopy(r, k, zeroHops)
  PROVE  HandleEffect(r, out, k)
  <1>1. r \in RouterType
    BY GoodSlots
  <1>2. CASE k \notin r.history
    <2> DEFINE s == [r EXCEPT !.history = @ \cup {k}]
    <2>1. s \in RouterType
      BY <1>1 DEF RouterType
    <2>2. /\ s.pending = r.pending /\ s.commits = r.commits /\ s.rel = r.rel /\ s.t1 = r.t1
          /\ s.planned = r.planned /\ s.cancels = r.cancels
      BY <1>1 DEF RouterType
    <2>3. out \in Plans(s, k)
      BY <1>2 DEF HandleCopy
    <2> HIDE DEF s
    <2>4. Good(s)
      BY <2>1, <2>2, ShrinkGood
    <2>5. Eases(r, s)
      BY <2>2 DEF Eases, Armed
    <2> QED
      BY <2>2, <2>3, <2>4, <2>5, PlannedEffect
  <1>3. ASSUME out \in Duplicates(r, k, zeroHops)
        PROVE  HandleEffect(r, out, k)
    <2>1. PICK v \in Verdicts : out = Result(HandleDuplicate(r, k, zeroHops, v))
      BY <1>3 DEF Duplicates
    <2> QED
      BY <2>1, DuplicateEases, EasedEffect
  <1>4. ASSUME out \in Repeats(r, k)
        PROVE  HandleEffect(r, out, k)
    <2> DEFINE s == StopReliable(Forget(r, k), k)
    <2>1. Good(Forget(r, k)) /\ Eases(r, Forget(r, k))
      BY ForgetEases
    <2>2. Good(s) /\ Eases(Forget(r, k), s)
      BY <2>1, StopReliableEases
    <2>3. Eases(r, s)
      BY <2>1, <2>2, EasesThen
    <2>4. s.cancels = r.cancels
      BY <1>1 DEF StopReliable, Forget, CancelRelay, CancelPending, RouterType
    <2>5. out \in Plans(s, k)
      BY <1>4 DEF Repeats
    <2> HIDE DEF s
    <2> QED
      BY <2>2, <2>3, <2>4, <2>5, PlannedEffect
  <1>5. ASSUME out \in Upgrades(r, k)
        PROVE  HandleEffect(r, out, k)
    <2> DEFINE s == NoteTxCancel(Forget(r, k), k)
    <2>1. Good(Forget(r, k)) /\ Eases(r, Forget(r, k))
      BY ForgetEases
    <2>2. Good(s) /\ Eases(Forget(r, k), s)
      BY <2>1, NoteTxCancelEases
    <2>3. Eases(r, s)
      BY <2>1, <2>2, EasesThen
    <2>4. k \in r.pending /\ out \in Plans(s, k)
      BY <1>5 DEF Upgrades
    <2>5. s.pending = r.pending \ {k}
      BY <1>1 DEF NoteTxCancel, Forget, CancelRelay, CancelPending, RouterType
    <2> HIDE DEF s
    <2>6. CanDefer(s, k)
      <3>1. IsFiniteSet(r.pending) /\ Cardinality(r.pending) \in Nat
        BY <1>1, RouterFields, Smaller
      <3>2. Cardinality(r.pending \ {k}) = Cardinality(r.pending) - 1
        BY <2>4, <3>1, FS_RemoveElement
      <3>3. Cardinality(r.pending) <= MAX_PENDING_RELAYS
        BY DEF Good, Bounded
      <3> QED
        BY <2>5, <3>1, <3>2, <3>3, RouterSizes DEF CanDefer
    <2>7. ~out.relay
      BY <2>2, <2>4, <2>6, PlanFacts DEF PlanEffect
    <2> QED
      BY <2>2, <2>3, <2>4, <2>7, PlannedEffect
  <1> QED
    BY <1>2, <1>3, <1>4, <1>5 DEF HandleCopy

(* A reply takes back everything that was promised of its packet. *)
LEMMA ReplyEffect ==
  ASSUME NEW r, Good(r), NEW k \in Packets, NEW out \in HandleReply(r, k)
  PROVE  /\ HandleEffect(r, out, k) /\ ~out.relay /\ out.r.planned = r.planned
         /\ out.r.rel[k] = NoSlot /\ k \notin out.r.pending
  <1>1. r \in RouterType /\ r.rel \in [Packets -> RelSlots \cup {NoSlot}]
    BY GoodSlots, RouterFields
  <1>2. CASE k \in Own
    <2>1. out = Result(StopReliable(r, k))
      BY <1>2 DEF HandleReply
    <2>2. out.r = StopReliable(r, k) /\ out.relay = FALSE
      BY <2>1 DEF Result
    <2>3. out.r.rel[k] = NoSlot /\ out.r.pending = r.pending /\ out.r.planned = r.planned
      BY <1>1, <2>2 DEF StopReliable, RouterType
    <2> QED
      BY <1>2, <2>1, <2>2, <2>3, StopReliableEases, EasedEffect DEF Good, Sorted
  <1>3. CASE k \notin Own
    <2> DEFINE c == CancelPending(r, k)
               known == k \in r.pending \cup r.commits \cup r.ourTx
               d == IF known THEN NoteTxCancel(CancelRelay(c, k), k) ELSE c
    <2>1. Good(c) /\ Eases(r, c)
      BY CancelPendingEases
    <2>2. Good(CancelRelay(c, k)) /\ Eases(c, CancelRelay(c, k))
      BY <2>1, CancelRelayEases
    <2>3. Good(NoteTxCancel(CancelRelay(c, k), k))
          /\ Eases(CancelRelay(c, k), NoteTxCancel(CancelRelay(c, k), k))
      BY <2>2, NoteTxCancelEases
    <2>4. Eases(r, CancelRelay(c, k))
      BY <2>1, <2>2, EasesThen
    <2>5. Eases(r, NoteTxCancel(CancelRelay(c, k), k))
      BY <2>2, <2>3, <2>4, EasesThen
    <2>6. Good(d) /\ Eases(r, d)
      BY <2>1, <2>3, <2>5
    <2>7. d.pending = r.pending \ {k} /\ d \in RouterType
      <3>1. c.pending = r.pending \ {k}
        BY <1>1 DEF CancelPending, RouterType
      <3>2. NoteTxCancel(CancelRelay(c, k), k).pending = r.pending \ {k}
        BY <1>1 DEF NoteTxCancel, CancelRelay, CancelPending, RouterType
      <3> QED
        BY <2>6, <3>1, <3>2, GoodSlots
    <2>8. out = Result(StopReliable(d, k))
      BY <1>3 DEF HandleReply, ForeignReply
    <2> HIDE DEF d
    <2>9. Good(StopReliable(d, k)) /\ Eases(d, StopReliable(d, k))
      BY <2>6, StopReliableEases
    <2>10. Eases(r, StopReliable(d, k))
      BY <2>6, <2>9, EasesThen
    <2>11. HandleEffect(r, out, k)
      BY <2>8, <2>9, <2>10, EasedEffect
    <2>12. d.rel \in [Packets -> RelSlots \cup {NoSlot}]
      BY <2>7, RouterFields
    <2>13. StopReliable(d, k).rel[k] = NoSlot /\ StopReliable(d, k).pending = d.pending
      BY <2>7, <2>12 DEF StopReliable, RouterType
    <2>14. out.r = StopReliable(d, k) /\ out.relay = FALSE
      BY <2>8 DEF Result
    <2> QED
      BY <2>7, <2>10, <2>11, <2>13, <2>14 DEF Eases
  <1> QED
    BY <1>2, <1>3

(* note_tx_queue_rejected gives at most one attempt back. *)
LEMMA RejectedFacts ==
  ASSUME NEW r, Good(r), NEW k \in Packets, NEW s, s = NoteTxQueueRejected(r, k)
  PROVE  /\ Good(s) /\ s.planned = r.planned /\ s.pending = r.pending /\ s.cancels = r.cancels
         /\ \A j \in Packets : Armed(s, j) = Armed(r, j)
         /\ \A j \in Packets \ {k} : s.rel[j] = r.rel[j]
         /\ Tries(s, k) <= Tries(r, k) + 1
         /\ r.rel[k] = NoSlot => s.rel[k] = NoSlot
         /\ s.rel[k] # NoSlot => ~s.rel[k].awaiting
         /\ r.rel[k] # NoSlot /\ ~r.rel[k].sent => s.rel[k] = NoSlot
  <1>1. r \in RouterType /\ r.rel \in [Packets -> RelSlots \cup {NoSlot}]
    BY GoodSlots, RouterFields
  <1> DEFINE o == r.rel[k]
             n == CASE o = NoSlot -> NoSlot
                    [] o # NoSlot /\ ~o.sent -> NoSlot
                    [] o # NoSlot /\ o.sent /\ ~o.awaiting -> o
                    [] OTHER -> [o EXCEPT !.retx = @ + 1, !.awaiting = FALSE]
             g == [r.rel EXCEPT ![k] = n]
  <1>2. o \in RelSlots \cup {NoSlot}
    BY <1>1
  <1>3. s = [r EXCEPT !.rel = g]
    BY <1>1 DEF NoteTxQueueRejected, RouterType
  <1>4. /\ n \in RelSlots \cup {NoSlot}
        /\ o = NoSlot => n = NoSlot
        /\ o # NoSlot /\ ~o.sent => n = NoSlot
        /\ n # NoSlot => ~n.awaiting
        /\ n # NoSlot => o # NoSlot /\ n.retx <= o.retx + 1 /\ n.retx \in Nat /\ o.retx \in Nat
    <2>1. CASE o = NoSlot
      BY <2>1
    <2>2. CASE o # NoSlot /\ ~o.sent
      BY <1>2, <2>2 DEF RelSlots
    <2>3. CASE o # NoSlot /\ o.sent /\ ~o.awaiting
      BY <1>2, <2>3 DEF RelSlots
    <2>4. CASE o # NoSlot /\ o.sent /\ o.awaiting
      <3>1. n = [o EXCEPT !.retx = @ + 1, !.awaiting = FALSE]
        BY <2>4
      <3> HIDE DEF n, o
      <3>2. o \in RelSlots
        BY <1>2, <2>4
      <3>3. o.retx \in Nat /\ n.retx = o.retx + 1
        BY <3>1, <3>2 DEF RelSlots
      <3>4. n.awaiting = FALSE
        BY <3>1, <3>2 DEF RelSlots
      <3>5. n \in RelSlots
        <4>1. o.named \in BOOLEAN /\ o.redirect \in BOOLEAN /\ o.sent \in BOOLEAN
          BY <3>2 DEF RelSlots
        <4>2. n = [named |-> o.named, redirect |-> o.redirect, retx |-> o.retx + 1,
                   awaiting |-> FALSE, sent |-> o.sent]
          BY <3>1, <3>2 DEF RelSlots
        <4>3. o.retx + 1 \in Nat
          BY <3>3
        <4> QED
          BY <4>1, <4>2, <4>3, Zenon DEF RelSlots
      <3> QED
        BY <2>4, <3>3, <3>4, <3>5
    <2> QED
      BY <2>1, <2>2, <2>3, <2>4
  <1> HIDE DEF n, o
  <1>5. g \in [Packets -> RelSlots \cup {NoSlot}]
    BY <1>1, <1>4
  <1>6. g[k] = n /\ \A j \in Packets \ {k} : g[j] = r.rel[j]
    BY <1>1
  <1> HIDE DEF g
  <1>7. s \in RouterType
    BY <1>1, <1>3, <1>5 DEF RouterType
  <1>8. /\ s.pending = r.pending /\ s.commits = r.commits /\ s.cancels = r.cancels /\ s.t1 = r.t1
        /\ s.rel = g /\ s.planned = r.planned
    BY <1>1, <1>3 DEF RouterType
  <1>9. Good(s)
    BY <1>4, <1>6, <1>7, <1>8, ShrinkGood DEF o
  <1>10. Tries(s, k) <= Tries(r, k) + 1
    <2>1. Tries(r, k) \in Nat /\ Tries(s, k) \in Nat
      BY <1>1, <1>7, LeftType
    <2> QED
      BY <2>1, <1>4, <1>6, <1>8 DEF Tries, o
  <1> QED
    BY <1>4, <1>6, <1>8, <1>9, <1>10 DEF Armed, o

-----------------------------------------------------------------------------
(* The steps of the path.  Everything the properties need to know of a     *)
(* step that neither starts nor ends a transmission.                       *)
Count(q, k) == Cardinality(Having(q, k))
Silent(r, k) == r.rel[k] = NoSlot /\ k \notin r.pending
Awaits(r, k) == r.rel[k] # NoSlot /\ r.rel[k].awaiting

StepEffect ==
  /\ txq' \in Seq(TxFrames) /\ Len(txq') <= TX
  /\ Good(rtr') /\ rtr'.cancels \cap Uni = {}
  /\ \A k \in Packets :
       /\ rtr.planned[k] <= rtr'.planned[k]
       /\ Count(txq', k) + Left(rtr', k) + rtr.planned[k]
            <= Count(txq, k) + Left(rtr, k) + rtr'.planned[k]
       /\ k \in Uni /\ Silent(rtr, k) /\ rtr'.planned[k] = rtr.planned[k] =>
            Silent(rtr', k) /\ Count(txq', k) <= Count(txq, k)
       /\ Awaits(rtr', k) =>
            Count(txq', k) > 0 \/ (Awaits(rtr, k) /\ Count(txq', k) >= Count(txq, k))

(* What the steps start from. *)
Ground == SlotTypeOK /\ Good(rtr) /\ rtr.cancels \cap Uni = {}

LEMMA GroundFacts ==
  ASSUME Ground
  PROVE  /\ txq \in Seq(TxFrames) /\ Len(txq) \in Nat /\ Len(txq) <= TX /\ TX \in Nat
         /\ rtr \in RouterType /\ rtr.planned \in [Packets -> Nat]
         /\ \A k \in Packets : Count(txq, k) \in Nat /\ Left(rtr, k) \in Nat /\ rtr.planned[k] \in Nat
         /\ \A f \in TxFrames : f.key \in Packets
         /\ \A k \in Packets, kind \in Kinds :
              Frame(k, kind) \in TxFrames /\ Frame(k, kind).key = k
  <1>1. txq \in Seq(TxFrames) /\ Len(txq) \in Nat /\ Len(txq) <= TX /\ TX \in Nat
    BY QueueSizes DEF Ground, SlotTypeOK
  <1>2. rtr \in RouterType /\ rtr.planned \in [Packets -> Nat]
    BY GoodSlots, RouterFields DEF Ground
  <1>3. \A k \in Packets : Count(txq, k) \in Nat /\ Left(rtr, k) \in Nat /\ rtr.planned[k] \in Nat
    BY <1>1, <1>2, HavingFinite, LeftType DEF Count
  <1>4. /\ \A f \in TxFrames : f.key \in Packets
        /\ \A k \in Packets, kind \in Kinds :
             Frame(k, kind) \in TxFrames /\ Frame(k, kind).key = k
    BY PathFrames DEF Frame
  <1> QED
    BY <1>1, <1>2, <1>3, <1>4

LEMMA EasesAwaits ==
  ASSUME NEW r, Good(r), NEW s, Eases(r, s), NEW k \in Packets
  PROVE  /\ Awaits(s, k) => Awaits(r, k)
         /\ Silent(r, k) => Silent(s, k)
  <1>1. r.rel[k] # NoSlot => r.rel[k] \in RelSlots
    BY GoodSlots
  <1>2. s.rel[k] \in {r.rel[k], NoSlot, Transmitted(r.rel[k])}
    BY DEF Eases
  <1>3. CASE s.rel[k] = r.rel[k] \/ s.rel[k] = NoSlot
    BY <1>3 DEF Awaits, Silent, Eases
  <1>4. CASE s.rel[k] = Transmitted(r.rel[k]) /\ r.rel[k] = NoSlot
    BY <1>4 DEF Awaits, Silent, Eases, Transmitted
  <1>5. CASE s.rel[k] = Transmitted(r.rel[k]) /\ r.rel[k] # NoSlot
    <2>1. CASE r.rel[k].awaiting
      BY <1>5, <2>1 DEF Awaits, Silent
    <2>2. CASE ~r.rel[k].awaiting
      BY <1>5, <2>2 DEF Awaits, Silent, Transmitted
    <2> QED
      BY <2>1, <2>2
  <1> QED
    BY <1>2, <1>3, <1>4, <1>5

(* A step that takes something back and sends nothing. *)
LEMMA EasedStep ==
  ASSUME Ground, txq' = txq, Good(rtr'), Eases(rtr, rtr'), rtr'.cancels \cap Uni = {}
  PROVE  StepEffect
  <1>1. rtr' \in RouterType /\ Good(rtr)
    BY GoodSlots DEF Ground
  <1>2. \A k \in Packets :
          /\ Left(rtr', k) <= Left(rtr, k) /\ Left(rtr', k) \in Nat
          /\ rtr'.planned[k] = rtr.planned[k]
    BY <1>1, GroundFacts, EasesLeft, LeftType DEF Eases
  <1>3. \A k \in Packets : (Awaits(rtr', k) => Awaits(rtr, k)) /\ (Silent(rtr, k) => Silent(rtr', k))
    BY <1>1, EasesAwaits
  <1> QED
    BY <1>2, <1>3, GroundFacts DEF StepEffect

(* A frame of packet k joins the queue and the router pays for it. *)
LEMMA HandedStep ==
  ASSUME Ground, NEW k \in Packets, NEW kind \in Kinds, Hand(Frame(k, kind)),
         Good(rtr'), rtr'.cancels \cap Uni = {}, Others(rtr, rtr', k),
         rtr.planned[k] <= rtr'.planned[k],
         Left(rtr', k) + 1 + rtr.planned[k] <= Left(rtr, k) + rtr'.planned[k],
         k \in Uni /\ Silent(rtr, k) => rtr'.planned[k] # rtr.planned[k]
  PROVE  StepEffect
  <1>1. txq' = Append(txq, Frame(k, kind)) /\ Len(txq) < TX
    BY DEF Hand, PushTx
  <1>2. /\ txq \in Seq(TxFrames) /\ Len(txq) \in Nat /\ TX \in Nat
        /\ Frame(k, kind) \in TxFrames /\ Frame(k, kind).key = k
        /\ rtr \in RouterType /\ rtr' \in RouterType
    BY GroundFacts, GoodSlots
  <1>3. txq' \in Seq(TxFrames) /\ Len(txq') <= TX
    BY <1>1, <1>2
  <1>4. \A j \in Packets : Count(txq', j) = Count(txq, j) + IF j = k THEN 1 ELSE 0
    BY <1>1, <1>2, HavingAppend DEF Count
  <1>5. \A j \in Packets : Count(txq, j) \in Nat /\ Left(rtr, j) \in Nat /\ rtr.planned[j] \in Nat
    BY GroundFacts
  <1>6. \A j \in Packets : rtr'.planned[j] \in Nat /\ Left(rtr', j) \in Nat
    BY <1>2, RouterFields, LeftType
  <1>7. \A j \in Packets \ {k} :
          /\ Left(rtr', j) = Left(rtr, j) /\ rtr'.planned[j] = rtr.planned[j]
          /\ (Awaits(rtr', j) => Awaits(rtr, j)) /\ (Silent(rtr, j) => Silent(rtr', j))
    BY DEF Others, Left, Waits, Tries, Awaits, Silent
  <1>8. ASSUME NEW j \in Packets
        PROVE  /\ rtr.planned[j] <= rtr'.planned[j]
               /\ Count(txq', j) + Left(rtr', j) + rtr.planned[j]
                    <= Count(txq, j) + Left(rtr, j) + rtr'.planned[j]
               /\ j \in Uni /\ Silent(rtr, j) /\ rtr'.planned[j] = rtr.planned[j] =>
                    Silent(rtr', j) /\ Count(txq', j) <= Count(txq, j)
               /\ Awaits(rtr', j) =>
                    Count(txq', j) > 0 \/ (Awaits(rtr, j) /\ Count(txq', j) >= Count(txq, j))
    <2>1. CASE j = k
      BY <1>4, <1>5, <1>6, <1>8, <2>1
    <2>2. CASE j # k
      BY <1>4, <1>5, <1>6, <1>7, <1>8, <2>2
    <2> QED
      BY <2>1, <2>2
  <1> QED
    BY <1>3, <1>8 DEF StepEffect

LEMMA PlanOne ==
  ASSUME NEW r, Good(r), NEW k \in Packets, NEW c, c = [r EXCEPT !.planned[k] = @ + 1]
  PROVE  /\ Good(c) /\ Others(r, c, k) /\ c.pending = r.pending /\ c.cancels = r.cancels
         /\ c.rel = r.rel /\ Armed(c, k) = Armed(r, k) /\ c.planned[k] = r.planned[k] + 1
  <1>1. r \in RouterType /\ r.planned \in [Packets -> Nat]
    BY GoodSlots, RouterFields
  <1> DEFINE p == [r.planned EXCEPT ![k] = @ + 1]
  <1>2. p \in [Packets -> Nat] /\ c = [r EXCEPT !.planned = p]
    BY <1>1 DEF RouterType
  <1> HIDE DEF p
  <1>3. c \in RouterType
    BY <1>1, <1>2 DEF RouterType
  <1>4. /\ c.pending = r.pending /\ c.commits = r.commits /\ c.cancels = r.cancels /\ c.t1 = r.t1
        /\ c.rel = r.rel /\ c.planned = p
    BY <1>1, <1>2 DEF RouterType
  <1>5. Good(c)
    BY <1>3, <1>4, ShrinkGood
  <1> QED
    BY <1>1, <1>4, <1>5 DEF Others, Armed, p

LEMMA SendLocalStep ==
  ASSUME Ground, NEW k \in Packets, SendLocal(k)
  PROVE  StepEffect /\ Others(rtr, rtr', k) /\ rtr.planned[k] < rtr'.planned[k]
  <1> DEFINE r == [rtr EXCEPT !.planned[k] = @ + 1]
  <1>0. Good(rtr) /\ rtr.cancels \cap Uni = {} /\ Hand(Frame(k, "local")) /\ "local" \in Kinds
    BY DEF Ground, SendLocal, Kinds
  <1>1. /\ Good(r) /\ Others(rtr, r, k) /\ r.pending = rtr.pending /\ r.cancels = rtr.cancels
        /\ r.rel = rtr.rel /\ Armed(r, k) = Armed(rtr, k) /\ r.planned[k] = rtr.planned[k] + 1
    BY <1>0, PlanOne
  <1>2. /\ rtr.planned[k] \in Nat /\ Left(rtr, k) \in Nat /\ Tries(rtr, k) \in Nat
        /\ Cardinality(Armed(rtr, k)) \in Nat /\ Waits(rtr, k) \in Nat
    BY GroundFacts, LeftType
  <1>3. CASE k \in OwnUnicasts
    <2> DEFINE no == FALSE
               s == ScheduleReliable(r, k, no, no, NUM_RELIABLE_RETX)
    <2>1. rtr' = s
      BY <1>3 DEF SendLocal
    <2>2. k \in Uni /\ NUM_RELIABLE_RETX \in Nat
      BY <1>3, RouterSizes DEF Uni
    <2>3. NewSlot(no, no, NUM_RELIABLE_RETX) \in RelSlots
      BY <2>2 DEF NewSlot, RelSlots
    <2>4. s = ScheduleReliable(r, k, no, no, NUM_RELIABLE_RETX)
      OBVIOUS
    <2> HIDE DEF r, s, no
    <2>5. /\ Good(s) /\ Others(r, s, k) /\ s.pending = r.pending /\ s.cancels = r.cancels
          /\ Armed(s, k) = Armed(r, k)
          /\ \/ s.rel[k] = r.rel[k] /\ s.planned[k] = r.planned[k]
             \/ /\ s.rel[k] = NewSlot(no, no, NUM_RELIABLE_RETX) /\ r.rel[k] = NoSlot
                /\ s.planned[k] = r.planned[k] + NUM_RELIABLE_RETX
      BY <1>1, <2>2, <2>3, <2>4, ScheduleReliableFacts
    <2>6. Others(rtr, s, k)
      BY <1>1, <2>5 DEF Others
    <2>7. Waits(s, k) = Waits(rtr, k) /\ Cardinality(Armed(s, k)) = Cardinality(Armed(rtr, k))
      BY <1>1, <2>5 DEF Waits
    <2>8. /\ Tries(s, k) + rtr.planned[k] + 1 <= Tries(rtr, k) + s.planned[k]
          /\ s.planned[k] > rtr.planned[k] /\ s.planned[k] \in Nat /\ Tries(s, k) \in Nat
      <3>1. CASE s.rel[k] = r.rel[k] /\ s.planned[k] = r.planned[k]
        BY <1>1, <1>2, <3>1 DEF Tries
      <3>2. CASE /\ s.rel[k] = NewSlot(no, no, NUM_RELIABLE_RETX) /\ r.rel[k] = NoSlot
                 /\ s.planned[k] = r.planned[k] + NUM_RELIABLE_RETX
        <4>1. Tries(s, k) \in {0, NUM_RELIABLE_RETX} /\ Tries(rtr, k) = 0
          BY <1>1, <3>2 DEF Tries, NewSlot
        <4> QED
          BY <1>1, <1>2, <2>2, <3>2, <4>1
      <3> QED
        BY <2>5, <3>1, <3>2
    <2>9. Left(s, k) + 1 + rtr.planned[k] <= Left(rtr, k) + s.planned[k]
      BY <1>2, <2>7, <2>8 DEF Left
    <2> QED
      BY <1>0, <1>1, <1>2, <2>1, <2>5, <2>6, <2>8, <2>9, HandedStep
  <1>4. CASE k \notin OwnUnicasts
    <2> DEFINE s == ScheduleT1(r, k)
    <2>1. rtr' = s /\ k \in Own
      BY <1>4 DEF SendLocal
    <2>2. k \in Packets \ Uni
      BY <1>4, <2>1, PacketClasses DEF Uni, Own
    <2> HIDE DEF r
    <2>3. /\ Good(s) /\ Others(r, s, k) /\ s.pending = r.pending /\ s.cancels = r.cancels
          /\ s.rel = r.rel
          /\ \/ Armed(s, k) = Armed(r, k) /\ s.planned[k] = r.planned[k]
             \/ /\ Cardinality(Armed(s, k)) = Cardinality(Armed(r, k)) + 1
                /\ s.planned[k] = r.planned[k] + 1
      BY <1>1, <2>2, ScheduleT1Facts
    <2> HIDE DEF s
    <2>4. Others(rtr, s, k)
      BY <1>1, <2>3 DEF Others
    <2>5. Waits(s, k) = Waits(rtr, k) /\ Tries(s, k) = Tries(rtr, k)
      BY <1>1, <2>3 DEF Waits, Tries
    <2>6. /\ Left(s, k) + 1 + rtr.planned[k] <= Left(rtr, k) + s.planned[k]
          /\ s.planned[k] > rtr.planned[k] /\ s.planned[k] \in Nat
      BY <1>1, <1>2, <2>3, <2>5 DEF Left
    <2> QED
      BY <1>0, <1>1, <1>2, <2>1, <2>3, <2>4, <2>6, HandedStep
  <1> QED
    BY <1>3, <1>4

LEMMA PollReadyRelayStep ==
  ASSUME Ground, NEW k \in Packets, NEW f \in FollowUps, PollReadyRelay(k, f)
  PROVE  StepEffect /\ Others(rtr, rtr', k) /\ k \in rtr.pending
  <1> DEFINE r == CancelPending(rtr, k)
  <1>0. /\ Good(rtr) /\ rtr.cancels \cap Uni = {} /\ Hand(Frame(k, "relay")) /\ "relay" \in Kinds
        /\ k \in rtr.pending /\ rtr' = ArmFollowUp(r, k, f) /\ rtr \in RouterType
    BY GoodSlots DEF Ground, PollReadyRelay, Kinds
  <1>1. Good(r)
    BY <1>0, CancelPendingEases
  <1>2. /\ r.pending = rtr.pending \ {k} /\ r.cancels = rtr.cancels /\ r.rel = rtr.rel
        /\ r.planned = rtr.planned /\ r.t1 = rtr.t1
    BY <1>0 DEF CancelPending, RouterType
  <1> HIDE DEF r
  <1>3. Others(rtr, r, k) /\ Armed(r, k) = Armed(rtr, k)
    BY <1>2 DEF Others, Armed
  <1>4. /\ rtr.planned[k] \in Nat /\ Left(rtr, k) \in Nat /\ Tries(rtr, k) \in Nat
        /\ Cardinality(Armed(rtr, k)) \in Nat /\ Waits(rtr, k) = 1 /\ Waits(r, k) = 0
    BY <1>0, <1>2, GroundFacts, LeftType DEF Waits
  <1>5. CASE ~(k \in Unicasts /\ f.retx > 0)
    <2>1. rtr' = r
      BY <1>0, <1>5 DEF ArmFollowUp
    <2>2. Tries(r, k) = Tries(rtr, k)
      BY <1>2 DEF Tries
    <2>3. Left(r, k) + 1 + rtr.planned[k] <= Left(rtr, k) + r.planned[k]
      BY <1>2, <1>3, <1>4, <2>2 DEF Left
    <2>4. ~Silent(rtr, k)
      BY <1>0 DEF Silent
    <2> QED
      BY <1>0, <1>1, <1>2, <1>3, <1>4, <2>1, <2>3, <2>4, HandedStep
  <1>6. CASE k \in Unicasts /\ f.retx > 0
    <2> DEFINE yes == TRUE
               s == ScheduleReliable(r, k, yes, f.redirect, f.retx)
    <2>1. rtr' = s /\ k \in Uni
      BY <1>0, <1>6 DEF ArmFollowUp, Uni
    <2>2. f.retx \in Nat /\ f.redirect \in BOOLEAN
      <3>1. \/ f = [retx |-> 0, redirect |-> FALSE] \/ f = [retx |-> 1, redirect |-> FALSE]
            \/ f = [retx |-> NAMED_FOLLOWUP_TRIES, redirect |-> TRUE]
        BY Zenon DEF FollowUps
      <3>2. f.redirect = TRUE \/ f.redirect = FALSE
        BY <3>1
      <3>3. f.redirect \in BOOLEAN
        BY <3>2, Zenon
      <3> QED
        BY <3>1, <3>3, RouterSizes
    <2>3. NewSlot(yes, f.redirect, f.retx) \in RelSlots
      BY <2>2 DEF NewSlot, RelSlots
    <2>4. s = ScheduleReliable(r, k, yes, f.redirect, f.retx)
      OBVIOUS
    <2>5. f.retx \in Nat
      BY <2>2
    <2> HIDE DEF s, yes
    <2>6. /\ Good(s) /\ Others(r, s, k) /\ s.pending = r.pending /\ s.cancels = r.cancels
          /\ Armed(s, k) = Armed(r, k)
          /\ \/ s.rel[k] = r.rel[k] /\ s.planned[k] = r.planned[k]
             \/ /\ s.rel[k] = NewSlot(yes, f.redirect, f.retx) /\ r.rel[k] = NoSlot
                /\ s.planned[k] = r.planned[k] + f.retx
      BY <1>1, <2>1, <2>3, <2>4, <2>5, ScheduleReliableFacts
    <2>7. Others(rtr, s, k)
      BY <1>3, <2>6 DEF Others
    <2>8. Waits(s, k) = 0 /\ Cardinality(Armed(s, k)) = Cardinality(Armed(rtr, k))
      BY <1>2, <1>3, <2>6 DEF Waits
    <2>9. /\ Tries(s, k) + rtr.planned[k] <= Tries(rtr, k) + s.planned[k]
          /\ s.planned[k] >= rtr.planned[k] /\ s.planned[k] \in Nat /\ Tries(s, k) \in Nat
      <3>1. CASE s.rel[k] = r.rel[k] /\ s.planned[k] = r.planned[k]
        BY <1>2, <1>4, <3>1 DEF Tries
      <3>2. CASE /\ s.rel[k] = NewSlot(yes, f.redirect, f.retx) /\ r.rel[k] = NoSlot
                 /\ s.planned[k] = r.planned[k] + f.retx
        <4>1. Tries(s, k) \in {0, f.retx} /\ Tries(rtr, k) = 0
          BY <1>2, <3>2 DEF Tries, NewSlot
        <4> QED
          BY <1>2, <1>4, <2>5, <3>2, <4>1
      <3> QED
        BY <2>6, <3>1, <3>2
    <2>10. Left(s, k) + 1 + rtr.planned[k] <= Left(rtr, k) + s.planned[k]
      BY <1>4, <2>8, <2>9 DEF Left
    <2>11. ~Silent(rtr, k) /\ s.cancels = rtr.cancels
      BY <1>0, <1>2, <2>6 DEF Silent
    <2> QED
      BY <1>0, <1>4, <2>1, <2>6, <2>7, <2>9, <2>10, <2>11, HandedStep
  <1> QED
    BY <1>0, <1>5, <1>6

LEMMA DropPendingStep ==
  ASSUME Ground, NEW k \in Packets, DropPending(k)
  PROVE  StepEffect /\ rtr'.planned = rtr.planned
  <1>1. Good(rtr) /\ rtr.cancels \cap Uni = {} /\ rtr \in RouterType /\ txq' = txq
    BY GoodSlots DEF Ground, DropPending, slotVars
  <1>2. Good(CancelPending(rtr, k)) /\ Eases(rtr, CancelPending(rtr, k))
    BY <1>1, CancelPendingEases
  <1>3. Good(CancelRelay(CancelPending(rtr, k), k)) /\ Eases(rtr, CancelRelay(CancelPending(rtr, k), k))
    BY <1>1, ForgetEases DEF Forget
  <1>4. /\ CancelPending(rtr, k).cancels = rtr.cancels
        /\ CancelRelay(CancelPending(rtr, k), k).cancels = rtr.cancels
    BY <1>1 DEF CancelPending, CancelRelay, RouterType
  <1>5. rtr' = CancelPending(rtr, k) \/ rtr' = CancelRelay(CancelPending(rtr, k), k)
    BY DEF DropPending
  <1>6. Good(rtr') /\ Eases(rtr, rtr') /\ rtr'.cancels \cap Uni = {}
    BY <1>1, <1>2, <1>3, <1>4, <1>5
  <1> QED
    BY <1>1, <1>6, EasedStep DEF Eases

(* due_retransmit pays for the try it takes. *)
LEMMA RetransmitFacts ==
  ASSUME NEW r, Good(r), NEW k \in Packets, r.rel[k] # NoSlot, NEW s, s = Retransmit(r, k)
  PROVE  /\ Good(s) /\ Others(r, s, k) /\ s.planned = r.planned /\ s.pending = r.pending
         /\ s.cancels = r.cancels /\ s.t1 = r.t1
         /\ r.rel[k].retx > 0 => Tries(s, k) + 1 <= Tries(r, k)
         /\ r.rel[k].retx = 0 \/ LastRedirect(r.rel[k]) => s.rel[k] = NoSlot
  <1>1. /\ r \in RouterType /\ r.rel \in [Packets -> RelSlots \cup {NoSlot}]
        /\ r.rel[k] \in RelSlots
    BY GoodSlots, RouterFields
  <1> DEFINE o == r.rel[k]
             n == IF o.retx = 0 \/ LastRedirect(o) THEN NoSlot
                  ELSE [o EXCEPT !.retx = @ - 1, !.awaiting = TRUE]
             g == [r.rel EXCEPT ![k] = n]
  <1>2. s = [r EXCEPT !.rel = g]
    BY <1>1 DEF Retransmit, RouterType
  <1>3. /\ n \in RelSlots \cup {NoSlot} /\ o.retx \in Nat
        /\ n # NoSlot => o.retx > 0 /\ n.retx = o.retx - 1
        /\ o.retx = 0 \/ LastRedirect(o) => n = NoSlot
    <2>1. CASE o.retx = 0 \/ LastRedirect(o)
      <3>1. n = NoSlot
        BY <2>1
      <3> HIDE DEF n, o
      <3>2. o.retx \in Nat
        BY <1>1 DEF RelSlots, o
      <3> QED
        BY <3>1, <3>2
    <2>2. CASE ~(o.retx = 0 \/ LastRedirect(o))
      <3>1. n = [o EXCEPT !.retx = @ - 1, !.awaiting = TRUE] /\ o \in RelSlots
        BY <1>1, <2>2
      <3> HIDE DEF n, o
      <3>2. o.retx \in Nat /\ o.retx > 0 /\ n.retx = o.retx - 1 /\ o.retx - 1 \in Nat
        BY <2>2, <3>1 DEF RelSlots
      <3>3. n \in RelSlots
        <4>1. o.named \in BOOLEAN /\ o.redirect \in BOOLEAN /\ o.sent \in BOOLEAN
          BY <3>1 DEF RelSlots
        <4>2. n = [named |-> o.named, redirect |-> o.redirect, retx |-> o.retx - 1,
                   awaiting |-> TRUE, sent |-> o.sent]
          BY <3>1 DEF RelSlots
        <4> QED
          BY <3>2, <4>1, <4>2, Zenon DEF RelSlots
      <3> QED
        BY <2>2, <3>2, <3>3
    <2> QED
      BY <2>1, <2>2
  <1> HIDE DEF n
  <1>4. /\ g \in [Packets -> RelSlots \cup {NoSlot}] /\ g[k] = n
        /\ \A j \in Packets \ {k} : g[j] = r.rel[j]
    BY <1>1, <1>3
  <1> HIDE DEF g
  <1>5. s \in RouterType
    BY <1>1, <1>2, <1>4 DEF RouterType
  <1>6. /\ s.pending = r.pending /\ s.commits = r.commits /\ s.cancels = r.cancels /\ s.t1 = r.t1
        /\ s.rel = g /\ s.planned = r.planned
    BY <1>1, <1>2 DEF RouterType
  <1>7. Good(s)
    BY <1>4, <1>5, <1>6, ShrinkGood
  <1>8. Others(r, s, k)
    BY <1>4, <1>6 DEF Others, Armed
  <1>9. r.rel[k].retx > 0 => Tries(s, k) + 1 <= Tries(r, k)
    BY <1>3, <1>4, <1>6 DEF Tries
  <1> QED
    BY <1>3, <1>4, <1>6, <1>7, <1>8, <1>9

LEMMA PollRetransmitStep ==
  ASSUME Ground, NEW k \in Packets, PollRetransmit(k)
  PROVE  StepEffect /\ rtr'.planned = rtr.planned
  <1>1. /\ Good(rtr) /\ rtr.cancels \cap Uni = {} /\ Hand(Frame(k, "retx")) /\ "retx" \in Kinds
        /\ rtr.rel[k] # NoSlot /\ rtr.rel[k].retx > 0 /\ rtr' = Retransmit(rtr, k)
    BY DEF Ground, PollRetransmit, RetransmitDue, Kinds
  <1>2. /\ Good(rtr') /\ Others(rtr, rtr', k) /\ rtr'.planned = rtr.planned
        /\ rtr'.pending = rtr.pending /\ rtr'.cancels = rtr.cancels /\ rtr'.t1 = rtr.t1
        /\ Tries(rtr', k) + 1 <= Tries(rtr, k)
    BY <1>1, RetransmitFacts
  <1>3. /\ rtr.planned[k] \in Nat /\ Tries(rtr, k) \in Nat /\ Tries(rtr', k) \in Nat
        /\ Cardinality(Armed(rtr, k)) \in Nat /\ Waits(rtr, k) \in Nat
    <2>1. rtr' \in RouterType /\ rtr \in RouterType /\ rtr.planned[k] \in Nat
      BY <1>2, GroundFacts, GoodSlots
    <2> QED
      BY <2>1, LeftType
  <1>4. Waits(rtr', k) = Waits(rtr, k) /\ Armed(rtr', k) = Armed(rtr, k)
    BY <1>2 DEF Waits, Armed
  <1>5. Left(rtr', k) + 1 + rtr.planned[k] <= Left(rtr, k) + rtr'.planned[k]
    BY <1>2, <1>3, <1>4 DEF Left
  <1>6. ~Silent(rtr, k)
    BY <1>1 DEF Silent
  <1> QED
    BY <1>1, <1>2, <1>3, <1>5, <1>6, HandedStep

LEMMA ReleaseReliableStep ==
  ASSUME Ground, NEW k \in Packets, ReleaseReliable(k)
  PROVE  StepEffect /\ rtr'.planned = rtr.planned
  <1>1. /\ Good(rtr) /\ rtr.cancels \cap Uni = {} /\ txq' = txq
        /\ rtr.rel[k] # NoSlot /\ rtr' = Retransmit(rtr, k)
        /\ rtr.rel[k].retx = 0 \/ LastRedirect(rtr.rel[k])
    BY DEF Ground, ReleaseReliable, RetransmitDue, slotVars
  <1>2. /\ Good(rtr') /\ Others(rtr, rtr', k) /\ rtr'.planned = rtr.planned
        /\ rtr'.pending = rtr.pending /\ rtr'.cancels = rtr.cancels /\ rtr'.t1 = rtr.t1
        /\ rtr'.rel[k] = NoSlot
    BY <1>1, RetransmitFacts
  <1>3. Eases(rtr, rtr')
    BY <1>2 DEF Eases, Others, Armed
  <1> QED
    BY <1>1, <1>2, <1>3, EasedStep

(* A T1 slot that leaves "armed". *)
LEMMA DisarmFacts ==
  ASSUME NEW r, Good(r), NEW i \in T1Index, NEW st \in {"free", "fired"},
         NEW s, s = [r EXCEPT !.t1[i].st = st]
  PROVE  /\ Good(s) /\ Eases(r, s) /\ s.pending = r.pending /\ s.cancels = r.cancels
         /\ s.rel = r.rel /\ s.planned = r.planned
         /\ \A j \in Packets : r.t1[i].key # j => Armed(s, j) = Armed(r, j)
         /\ r.t1[i].st = "armed" => Armed(s, r.t1[i].key) = Armed(r, r.t1[i].key) \ {i}
  <1>1. r \in RouterType /\ r.t1 \in [T1Index -> T1Slots] /\ r.t1[i] \in T1Slots
    BY GoodSlots, RouterFields
  <1> DEFINE n == [r.t1[i] EXCEPT !.st = st]
             t == [r.t1 EXCEPT ![i] = n]
  <1>2. s = [r EXCEPT !.t1 = t]
    BY <1>1 DEF RouterType
  <1>3. n \in T1Slots /\ n.key = r.t1[i].key /\ n.st = st
    BY <1>1 DEF T1Slots
  <1> HIDE DEF n
  <1>4. t \in [T1Index -> T1Slots] /\ t[i] = n /\ \A j \in T1Index \ {i} : t[j] = r.t1[j]
    BY <1>1, <1>3
  <1> HIDE DEF t
  <1>5. s \in RouterType
    BY <1>1, <1>2, <1>4 DEF RouterType
  <1>6. /\ s.pending = r.pending /\ s.commits = r.commits /\ s.cancels = r.cancels /\ s.t1 = t
        /\ s.rel = r.rel /\ s.planned = r.planned
    BY <1>1, <1>2 DEF RouterType
  <1>7. Good(s)
    <2>1. \A j \in T1Index : s.t1[j].key = r.t1[j].key /\ (s.t1[j].st = "armed" => r.t1[j].st = "armed")
      BY <1>3, <1>4, <1>6
    <2> QED
      BY <1>5, <1>6, <2>1, ShrinkGood
  <1>8. \A j : Armed(s, j) = Armed(r, j) \ {i}
    BY <1>3, <1>4, <1>6 DEF Armed
  <1>9. Eases(r, s)
    BY <1>6, <1>8 DEF Eases
  <1>10. \A j \in Packets : r.t1[i].key # j => Armed(s, j) = Armed(r, j)
    <2>1. \A j \in Packets : r.t1[i].key # j => i \notin Armed(r, j)
      BY DEF Armed
    <2> QED
      BY <1>8, <2>1
  <1> QED
    BY <1>6, <1>7, <1>8, <1>9, <1>10

LEMMA PollT1Step ==
  ASSUME Ground, NEW i \in T1Index, PollT1(i)
  PROVE  StepEffect /\ rtr'.planned = rtr.planned
  <1> DEFINE k == rtr.t1[i].key
  <1>0. /\ Good(rtr) /\ rtr.cancels \cap Uni = {} /\ rtr.t1[i].st = "armed" /\ Hand(Frame(k, "t1"))
        /\ "t1" \in Kinds /\ rtr' = [rtr EXCEPT !.t1[i].st = "fired"]
    BY DEF Ground, PollT1, FireT1, Kinds
  <1>1. k \notin Uni /\ rtr.t1[i] \in T1Slots
    BY <1>0, GoodSlots, RouterFields DEF Good, Sorted
  <1>2. k \in Packets
    BY <1>0, <1>1 DEF T1Slots, Good, Sorted
  <1>3. /\ Good(rtr') /\ rtr'.pending = rtr.pending /\ rtr'.cancels = rtr.cancels
        /\ rtr'.rel = rtr.rel /\ rtr'.planned = rtr.planned
        /\ \A j \in Packets : k # j => Armed(rtr', j) = Armed(rtr, j)
        /\ Armed(rtr', k) = Armed(rtr, k) \ {i}
    BY <1>0, DisarmFacts
  <1>4. i \in Armed(rtr, k)
    BY <1>0, <1>1 DEF Armed, T1Slots
  <1> HIDE DEF k
  <1>5. Others(rtr, rtr', k)
    BY <1>3 DEF Others
  <1>6. /\ rtr.planned[k] \in Nat /\ Tries(rtr, k) \in Nat /\ IsFiniteSet(Armed(rtr, k))
        /\ Cardinality(Armed(rtr, k)) \in Nat /\ Waits(rtr, k) \in Nat
    BY <1>2, GroundFacts, LeftType
  <1>7. Cardinality(Armed(rtr', k)) = Cardinality(Armed(rtr, k)) - 1
    BY <1>3, <1>4, <1>6, FS_RemoveElement
  <1>8. Waits(rtr', k) = Waits(rtr, k) /\ Tries(rtr', k) = Tries(rtr, k)
    BY <1>3 DEF Waits, Tries
  <1>9. Left(rtr', k) + 1 + rtr.planned[k] <= Left(rtr, k) + rtr'.planned[k]
    BY <1>3, <1>6, <1>7, <1>8 DEF Left
  <1> QED
    BY <1>0, <1>1, <1>2, <1>3, <1>5, <1>6, <1>9, HandedStep

LEMMA StandDownT1Step ==
  ASSUME Ground, NEW i \in T1Index, StandDownT1(i)
  PROVE  StepEffect /\ rtr'.planned = rtr.planned
  <1>1. /\ Good(rtr) /\ rtr.cancels \cap Uni = {} /\ txq' = txq
        /\ rtr' = [rtr EXCEPT !.t1[i].st = "free"]
    BY DEF Ground, StandDownT1, DropT1, slotVars
  <1>2. Good(rtr') /\ Eases(rtr, rtr') /\ rtr'.cancels = rtr.cancels /\ rtr'.planned = rtr.planned
    BY <1>1, DisarmFacts
  <1> QED
    BY <1>1, <1>2, EasedStep

LEMMA ExpireCommitStep ==
  ASSUME Ground, NEW k \in Packets, ExpireCommit(k)
  PROVE  StepEffect /\ rtr'.planned = rtr.planned
  <1>1. /\ Good(rtr) /\ rtr.cancels \cap Uni = {} /\ txq' = txq /\ rtr \in RouterType
        /\ rtr' = CancelRelay(rtr, k)
    BY GoodSlots DEF Ground, ExpireCommit, slotVars
  <1>2. Good(rtr') /\ Eases(rtr, rtr')
    BY <1>1, CancelRelayEases
  <1>3. rtr'.cancels = rtr.cancels
    BY <1>1 DEF CancelRelay, RouterType
  <1> QED
    BY <1>1, <1>2, <1>3, EasedStep DEF Eases

LEMMA ForgetOurTxStep ==
  ASSUME Ground, NEW k \in Packets, ForgetOurTx(k)
  PROVE  StepEffect /\ rtr'.planned = rtr.planned
  <1>1. /\ Good(rtr) /\ rtr.cancels \cap Uni = {} /\ txq' = txq /\ rtr \in RouterType
        /\ rtr' = [rtr EXCEPT !.ourTx = @ \ {k}]
    BY GoodSlots DEF Ground, ForgetOurTx, slotVars
  <1>2. rtr' \in RouterType
    BY <1>1 DEF RouterType
  <1>3. /\ rtr'.pending = rtr.pending /\ rtr'.commits = rtr.commits /\ rtr'.cancels = rtr.cancels
        /\ rtr'.t1 = rtr.t1 /\ rtr'.rel = rtr.rel /\ rtr'.planned = rtr.planned
    BY <1>1 DEF RouterType
  <1>4. Good(rtr')
    BY <1>1, <1>2, <1>3, ShrinkGood
  <1>5. Eases(rtr, rtr')
    BY <1>3 DEF Eases, Armed
  <1> QED
    BY <1>1, <1>3, <1>4, <1>5, EasedStep

(* The admission recheck forgets the packet; it asks for a frame of it to  *)
(* be pulled out of the queue only if the packet is a broadcast.           *)
LEMMA DiscardFacts ==
  ASSUME NEW r, Good(r), r.cancels \cap Uni = {}, NEW k \in Packets,
         NEW s, s = DiscardQueuedForward(r, k)
  PROVE  Good(s) /\ Eases(r, s) /\ s.cancels \cap Uni = {} /\ s.rel[k] = NoSlot
  <1> DEFINE r1 == CancelPending(r, k)
             r2 == CancelRelay(r1, k)
             r3 == CancelT1(r2, k)
             r4 == StopReliable(r3, k)
  <1>1. Good(r2) /\ Eases(r, r2)
    BY ForgetEases DEF Forget
  <1>2. r2.cancels = r.cancels /\ r2 \in RouterType
    <2>1. r \in RouterType /\ r2 \in RouterType
      BY <1>1, GoodSlots
    <2> QED
      BY <2>1 DEF CancelPending, CancelRelay, RouterType
  <1>3. s = NoteTxQueueRejected(r4, k)
    BY DEF DiscardQueuedForward
  <1> HIDE DEF r2
  <1>4. Good(r3) /\ Eases(r2, r3)
    BY <1>1, CancelT1Eases
  <1>5. r3.cancels \cap Uni = {}
    <2>1. r3.cancels \in {r2.cancels, r2.cancels \cup {k}}
      BY <1>2 DEF CancelT1, RouterType
    <2>2. k \in Uni => r3.cancels = r2.cancels
      <3>1. ASSUME k \in Uni
            PROVE  FirstT1Of(r2, k) = {}
        BY <1>1, <3>1 DEF FirstT1Of, Good, Sorted
      <3> QED
        BY <1>2, <3>1 DEF CancelT1, RouterType
    <2> QED
      BY <1>2, <2>1, <2>2
  <1> HIDE DEF r3
  <1>6. Good(r4) /\ Eases(r3, r4) /\ r3 \in RouterType
    BY <1>4, StopReliableEases, GoodSlots
  <1>7. r4.cancels = r3.cancels /\ r4.rel[k] = NoSlot
    <2>1. r3.rel \in [Packets -> RelSlots \cup {NoSlot}]
      BY <1>6, RouterFields
    <2> QED
      BY <1>6, <2>1 DEF StopReliable, RouterType
  <1> HIDE DEF r4
  <1>8. /\ Good(s) /\ s.planned = r4.planned /\ s.pending = r4.pending /\ s.cancels = r4.cancels
        /\ \A j \in Packets : Armed(s, j) = Armed(r4, j)
        /\ \A j \in Packets \ {k} : s.rel[j] = r4.rel[j]
        /\ s.rel[k] = NoSlot
    BY <1>3, <1>6, <1>7, RejectedFacts
  <1>9. Eases(r4, s)
    BY <1>8 DEF Eases
  <1>10. Eases(r, r3)
    BY <1>1, <1>4, EasesThen
  <1>11. Eases(r, r4)
    BY <1>4, <1>6, <1>10, EasesThen
  <1>12. Eases(r, s)
    BY <1>6, <1>9, <1>11, EasesThen
  <1> QED
    BY <1>5, <1>7, <1>8, <1>12

LEMMA RecheckStep ==
  ASSUME Ground, Recheck
  PROVE  StepEffect /\ rtr'.planned = rtr.planned
  <1> DEFINE k == Head(txq).key
  <1>1. /\ Good(rtr) /\ rtr.cancels \cap Uni = {} /\ txq # <<>> /\ txq' = Tail(txq)
        /\ rtr' = DiscardQueuedForward(rtr, k)
    BY DEF Ground, Recheck, PopTx
  <1>2. /\ txq \in Seq(TxFrames) /\ Len(txq) \in Nat /\ Len(txq) <= TX /\ TX \in Nat
        /\ \A j \in Packets : Count(txq, j) \in Nat /\ Left(rtr, j) \in Nat /\ rtr.planned[j] \in Nat
        /\ \A f \in TxFrames : f.key \in Packets
    BY GroundFacts
  <1>3. txq' \in Seq(TxFrames) /\ Len(txq') = Len(txq) - 1 /\ Head(txq) \in TxFrames
    BY <1>1, <1>2, TailFacts
  <1>4. k \in Packets
    BY <1>2, <1>3
  <1>5. \A j \in Packets : Count(txq, j) = Count(txq', j) + IF k = j THEN 1 ELSE 0
    BY <1>1, <1>2, HavingTail DEF Count
  <1>6. \A j \in Packets : Count(txq', j) \in Nat
    BY <1>3, HavingFinite DEF Count
  <1> HIDE DEF k
  <1>7. Good(rtr') /\ Eases(rtr, rtr') /\ rtr'.cancels \cap Uni = {} /\ rtr'.rel[k] = NoSlot
    BY <1>1, <1>4, DiscardFacts
  <1>8. \A j \in Packets :
          /\ Left(rtr', j) <= Left(rtr, j) /\ Left(rtr', j) \in Nat
          /\ rtr'.planned[j] = rtr.planned[j]
    BY <1>1, <1>7, GoodSlots, EasesLeft, LeftType DEF Eases
  <1>9. \A j \in Packets : (Awaits(rtr', j) => Awaits(rtr, j)) /\ (Silent(rtr, j) => Silent(rtr', j))
    BY <1>1, <1>7, EasesAwaits
  <1>10. ~Awaits(rtr', k)
    BY <1>7 DEF Awaits
  <1>11. ASSUME NEW j \in Packets
         PROVE  /\ rtr.planned[j] <= rtr'.planned[j]
                /\ Count(txq', j) + Left(rtr', j) + rtr.planned[j]
                     <= Count(txq, j) + Left(rtr, j) + rtr'.planned[j]
                /\ Silent(rtr, j) => Silent(rtr', j) /\ Count(txq', j) <= Count(txq, j)
                /\ Awaits(rtr', j) => Awaits(rtr, j) /\ Count(txq', j) >= Count(txq, j)
    <2>1. CASE j = k
      BY <1>2, <1>5, <1>6, <1>8, <1>9, <1>10, <2>1
    <2>2. CASE j # k
      BY <1>2, <1>5, <1>6, <1>8, <1>9, <2>2
    <2> QED
      BY <2>1, <2>2
  <1>12. Len(txq') <= TX
    BY <1>2, <1>3
  <1> QED
    BY <1>3, <1>7, <1>11, <1>12 DEF StepEffect, Eases

(* What the end of a transmission does to the router. *)
LEMMA DoneFacts ==
  ASSUME NEW r, Good(r), NEW k \in Packets, NEW s,
         s = NoteTxDone(r, k) \/ s = NoteTxFailure(r, k)
  PROVE  Good(s) /\ Eases(r, s) /\ s.cancels = r.cancels /\ ~Awaits(s, k)
  <1>1. /\ r \in RouterType /\ r.rel \in [Packets -> RelSlots \cup {NoSlot}]
        /\ r.t1 \in [T1Index -> T1Slots] /\ r.commits \in SUBSET Packets /\ r.ourTx \in SUBSET Packets
        /\ r.rel[k] # NoSlot => r.rel[k] \in RelSlots
    BY GoodSlots, RouterFields
  <1> DEFINE n == Transmitted(r.rel[k])
             g == [r.rel EXCEPT ![k] = n]
             t == [i \in T1Index |-> IF r.t1[i] = [key |-> k, st |-> "fired"]
                                     THEN [r.t1[i] EXCEPT !.st = "free"] ELSE r.t1[i]]
  <1>2. n \in RelSlots \cup {NoSlot} /\ (n # NoSlot => r.rel[k] # NoSlot /\ ~n.awaiting)
    <2>1. CASE r.rel[k] # NoSlot /\ r.rel[k].awaiting
      <3>1. n = [r.rel[k] EXCEPT !.sent = TRUE, !.awaiting = FALSE] /\ r.rel[k] \in RelSlots
        BY <1>1, <2>1 DEF Transmitted
      <3>2. /\ r.rel[k].named \in BOOLEAN /\ r.rel[k].redirect \in BOOLEAN /\ r.rel[k].retx \in Nat
            /\ n = [named |-> r.rel[k].named, redirect |-> r.rel[k].redirect, retx |-> r.rel[k].retx,
                    awaiting |-> FALSE, sent |-> TRUE]
        BY <3>1 DEF RelSlots
      <3> HIDE DEF n
      <3>3. n \in RelSlots
        BY <3>2, Zenon DEF RelSlots
      <3>4. n.awaiting = FALSE
        BY <3>2
      <3> QED
        BY <2>1, <3>3, <3>4
    <2>2. CASE ~(r.rel[k] # NoSlot /\ r.rel[k].awaiting)
      <3>1. n = r.rel[k]
        BY <2>2 DEF Transmitted
      <3> HIDE DEF n
      <3> QED
        BY <1>1, <2>2, <3>1
    <2> QED
      BY <2>1, <2>2
  <1> HIDE DEF n
  <1>3. /\ g \in [Packets -> RelSlots \cup {NoSlot}] /\ g[k] = n
        /\ \A j \in Packets \ {k} : g[j] = r.rel[j]
    BY <1>1, <1>2
  <1>4. t \in [T1Index -> T1Slots]
    BY <1>1 DEF T1Slots
  <1>5. \A i \in T1Index : t[i].key = r.t1[i].key /\ (t[i].st = "armed" => t[i] = r.t1[i])
    BY <1>1 DEF T1Slots
  <1>6. \/ s = [r EXCEPT !.ourTx = @ \cup {k}, !.commits = @ \ {k}, !.t1 = t, !.rel = g]
        \/ s = [r EXCEPT !.rel = g]
    BY <1>1 DEF NoteTxDone, NoteTxFailure, RouterType, n
  <1> HIDE DEF g, t
  <1>7. s \in RouterType
    <2>1. r.ourTx \cup {k} \in SUBSET Packets /\ r.commits \ {k} \in SUBSET Packets
      BY <1>1
    <2>2. CASE s = [r EXCEPT !.ourTx = @ \cup {k}, !.commits = @ \ {k}, !.t1 = t, !.rel = g]
      BY <1>1, <1>3, <1>4, <2>1, <2>2 DEF RouterType
    <2>3. CASE s = [r EXCEPT !.rel = g]
      BY <1>1, <1>3, <2>3 DEF RouterType
    <2> QED
      BY <1>6, <2>2, <2>3
  <1>8. /\ s.pending = r.pending /\ s.commits \subseteq r.commits /\ s.cancels = r.cancels
        /\ s.rel = g /\ s.planned = r.planned /\ s.t1 \in {r.t1, t}
    BY <1>1, <1>6 DEF RouterType
  <1>9. \A i \in T1Index : s.t1[i].key = r.t1[i].key /\ (s.t1[i].st = "armed" => s.t1[i] = r.t1[i])
    BY <1>5, <1>8
  <1>10. \A j \in Packets : s.rel[j] # NoSlot => r.rel[j] # NoSlot
    BY <1>2, <1>3, <1>8
  <1>11. Good(s)
    BY <1>7, <1>8, <1>9, <1>10, ShrinkGood
  <1>12. Eases(r, s)
    BY <1>3, <1>8, <1>9 DEF Eases, Armed, n
  <1> QED
    BY <1>2, <1>3, <1>8, <1>11, <1>12 DEF Awaits

LEMMA FinishStep ==
  ASSUME Ground, Finish
  PROVE  StepEffect /\ rtr'.planned = rtr.planned
         /\ \A k \in Packets : Awaits(rtr', k) =>
              /\ ~(report.res = "Ok" /\ report.done # None /\ report.done.key = k)
              /\ ~(report.res = "TxOutcomeUnknown" /\ txFailure = k)
  <1>1. Good(rtr) /\ rtr.cancels \cap Uni = {} /\ txq' = txq /\ SlotTypeOK
    BY DEF Ground, Finish
  <1>2. None \notin Packets /\ None \notin TxFrames /\ "Ok" # "TxOutcomeUnknown"
    BY NoneIsNoFrame, PathFrames
  <1>3. CASE report.res = "Ok" /\ report.done # None
    <2>1. report.done.key \in Packets
      BY <1>1, <1>3, GroundFacts DEF SlotTypeOK, Reports
    <2>2. rtr' = NoteTxDone(rtr, report.done.key)
      BY <1>3 DEF Finish
    <2>3. /\ Good(rtr') /\ Eases(rtr, rtr') /\ rtr'.cancels = rtr.cancels
          /\ ~Awaits(rtr', report.done.key)
      BY <1>1, <2>1, <2>2, DoneFacts
    <2> QED
      BY <1>1, <1>2, <1>3, <2>3, EasedStep DEF Eases
  <1>4. CASE report.res = "TxOutcomeUnknown" /\ txFailure # None
    <2>1. txFailure \in Packets
      BY <1>1, <1>4, PathFrames DEF SlotTypeOK
    <2>2. rtr' = NoteTxFailure(rtr, txFailure)
      BY <1>4, <1>2 DEF Finish
    <2>3. /\ Good(rtr') /\ Eases(rtr, rtr') /\ rtr'.cancels = rtr.cancels
          /\ ~Awaits(rtr', txFailure)
      BY <1>1, <2>1, <2>2, DoneFacts
    <2> QED
      BY <1>1, <1>2, <1>4, <2>3, EasedStep DEF Eases
  <1>5. CASE ~(report.res = "Ok" /\ report.done # None)
             /\ ~(report.res = "TxOutcomeUnknown" /\ txFailure # None)
    <2>1. rtr' = rtr
      BY <1>5 DEF Finish
    <2> QED
      BY <1>1, <1>2, <1>5, <2>1, EasesSelf, EasedStep
  <1> QED
    BY <1>3, <1>4, <1>5

(* The plan's frame in the queue, or rejected because the queue is full. *)
LEMMA QueuedPlan ==
  ASSUME Ground, NEW k \in Packets, NEW out, HandleEffect(rtr, out, k),
         NEW p, p = EnqueuePlan(out, k)
  PROVE  /\ Good(p.r) /\ p.q \in Seq(TxFrames) /\ Len(p.q) <= TX
         /\ p.r.planned = out.r.planned
         /\ ~out.relay => p.r = out.r
         /\ \A j \in Packets :
              /\ rtr.planned[j] <= p.r.planned[j]
              /\ Count(p.q, j) + Left(p.r, j) + rtr.planned[j]
                   <= Count(txq, j) + Left(rtr, j) + p.r.planned[j]
              /\ Silent(rtr, j) /\ p.r.planned[j] = rtr.planned[j] =>
                   Silent(p.r, j) /\ Count(p.q, j) <= Count(txq, j)
              /\ Awaits(p.r, j) =>
                   Awaits(rtr, j) \/ (Count(p.q, j) > 0 /\ j \notin p.r.cancels)
  <1> DEFINE o == out.r
  <1>1. /\ txq \in Seq(TxFrames) /\ Len(txq) \in Nat /\ Len(txq) <= TX /\ TX \in Nat /\ Good(rtr)
        /\ \A j \in Packets : Count(txq, j) \in Nat /\ Left(rtr, j) \in Nat /\ rtr.planned[j] \in Nat
        /\ Frame(k, "relay") \in TxFrames /\ Frame(k, "relay").key = k
    BY GroundFacts DEF Kinds, Ground
  <1>2. /\ Good(o)
        /\ \A j \in Packets :
             /\ rtr.planned[j] <= o.planned[j]
             /\ Left(o, j) + (IF out.relay /\ j = k THEN 1 ELSE 0) + rtr.planned[j]
                  <= Left(rtr, j) + o.planned[j]
             /\ o.planned[j] = rtr.planned[j] =>
                  /\ ~(out.relay /\ j = k) /\ Keeps0(rtr, o, j)
                  /\ j \in o.pending => j \in rtr.pending
             /\ ~Keeps0(rtr, o, j) =>
                  out.relay /\ j = k /\ k \in Unicasts /\ ~o.rel[j].sent /\ j \notin o.cancels
    BY DEF HandleEffect
  <1>3. o \in RouterType /\ \A j \in Packets : Left(o, j) \in Nat /\ o.planned[j] \in Nat
    BY <1>2, GoodSlots, LeftType, RouterFields
  <1> HIDE DEF o
  <1>4. ASSUME NEW j \in Packets, Keeps0(rtr, o, j)
        PROVE  /\ Awaits(o, j) => Awaits(rtr, j)
               /\ rtr.rel[j] = NoSlot => o.rel[j] = NoSlot
    <2>1. o.rel[j] = rtr.rel[j] \/ o.rel[j] = NoSlot \/ o.rel[j] = Transmitted(rtr.rel[j])
      BY <1>4 DEF Keeps0
    <2>2. CASE rtr.rel[j] = NoSlot
      BY <2>1, <2>2 DEF Transmitted, Awaits
    <2>3. CASE rtr.rel[j] # NoSlot /\ rtr.rel[j].awaiting
      BY <2>3 DEF Awaits
    <2>4. CASE rtr.rel[j] # NoSlot /\ ~rtr.rel[j].awaiting
      BY <2>1, <2>4 DEF Awaits, Transmitted
    <2> QED
      BY <2>2, <2>3, <2>4
  <1>5. CASE ~out.relay
    <2>1. p = [r |-> o, q |-> txq]
      BY <1>5 DEF EnqueuePlan, o
    <2>2. p.r = o /\ p.q = txq
      BY <2>1
    <2>3. ASSUME NEW j \in Packets
          PROVE  /\ rtr.planned[j] <= o.planned[j]
                 /\ Count(txq, j) + Left(o, j) + rtr.planned[j]
                      <= Count(txq, j) + Left(rtr, j) + o.planned[j]
                 /\ Silent(rtr, j) /\ o.planned[j] = rtr.planned[j] => Silent(o, j)
                 /\ Awaits(o, j) => Awaits(rtr, j)
      <3>1. Keeps0(rtr, o, j) /\ Left(o, j) + rtr.planned[j] <= Left(rtr, j) + o.planned[j]
        BY <1>1, <1>2, <1>3, <1>5
      <3>2. Silent(rtr, j) /\ o.planned[j] = rtr.planned[j] => Silent(o, j)
        BY <1>2, <1>4, <3>1 DEF Silent
      <3>3. /\ Count(txq, j) \in Nat /\ Left(rtr, j) \in Nat /\ rtr.planned[j] \in Nat
            /\ Left(o, j) \in Nat /\ o.planned[j] \in Nat /\ rtr.planned[j] <= o.planned[j]
        BY <1>1, <1>2, <1>3
      <3>4. Awaits(o, j) => Awaits(rtr, j)
        BY <1>4, <3>1
      <3>5. Count(txq, j) + Left(o, j) + rtr.planned[j] <= Count(txq, j) + Left(rtr, j) + o.planned[j]
        BY <3>1, <3>3
      <3> QED
        BY <3>2, <3>3, <3>4, <3>5
    <2> QED
      BY <1>1, <1>2, <2>2, <2>3 DEF o
  <1>6. CASE out.relay /\ Len(txq) < TX
    <2> DEFINE q == Append(txq, Frame(k, "relay"))
    <2>1. p = [r |-> o, q |-> q]
      BY <1>6 DEF EnqueuePlan, o
    <2>2. p.r = o /\ p.q = q
      BY <2>1
    <2>3. q \in Seq(TxFrames) /\ Len(q) <= TX
      BY <1>1, <1>6
    <2>4. \A j \in Packets : Count(q, j) = Count(txq, j) + IF j = k THEN 1 ELSE 0
      BY <1>1, HavingAppend DEF Count
    <2> HIDE DEF q
    <2>5. ASSUME NEW j \in Packets
          PROVE  /\ rtr.planned[j] <= o.planned[j]
                 /\ Count(q, j) + Left(o, j) + rtr.planned[j]
                      <= Count(txq, j) + Left(rtr, j) + o.planned[j]
                 /\ Silent(rtr, j) /\ o.planned[j] = rtr.planned[j] =>
                      Silent(o, j) /\ Count(q, j) <= Count(txq, j)
                 /\ Awaits(o, j) => Awaits(rtr, j) \/ (Count(q, j) > 0 /\ j \notin o.cancels)
      <3>1. /\ rtr.planned[j] <= o.planned[j]
            /\ Count(q, j) + Left(o, j) + rtr.planned[j]
                 <= Count(txq, j) + Left(rtr, j) + o.planned[j]
        <4>1. /\ Count(txq, j) \in Nat /\ Left(rtr, j) \in Nat /\ rtr.planned[j] \in Nat
              /\ Left(o, j) \in Nat /\ o.planned[j] \in Nat /\ rtr.planned[j] <= o.planned[j]
              /\ Count(q, j) = Count(txq, j) + IF j = k THEN 1 ELSE 0
              /\ Left(o, j) + (IF j = k THEN 1 ELSE 0) + rtr.planned[j] <= Left(rtr, j) + o.planned[j]
          BY <1>1, <1>2, <1>3, <1>6, <2>4
        <4>2. CASE j = k
          BY <4>1, <4>2
        <4>3. CASE j # k
          BY <4>1, <4>3
        <4> QED
          BY <4>2, <4>3
      <3>2. Silent(rtr, j) /\ o.planned[j] = rtr.planned[j] =>
              Silent(o, j) /\ Count(q, j) <= Count(txq, j)
        <4>1. ASSUME o.planned[j] = rtr.planned[j]
              PROVE  j # k /\ Keeps0(rtr, o, j) /\ (j \in o.pending => j \in rtr.pending)
          BY <1>2, <1>6, <4>1
        <4> QED
          BY <1>1, <1>4, <2>4, <4>1 DEF Silent
      <3>3. Awaits(o, j) => Awaits(rtr, j) \/ (Count(q, j) > 0 /\ j \notin o.cancels)
        <4>1. CASE Keeps0(rtr, o, j)
          BY <1>4, <4>1
        <4>2. CASE ~Keeps0(rtr, o, j)
          BY <1>1, <1>2, <2>4, <4>2
        <4> QED
          BY <4>1, <4>2
      <3> QED
        BY <3>1, <3>2, <3>3
    <2> QED
      BY <1>2, <1>6, <2>2, <2>3, <2>5 DEF o
  <1>7. CASE out.relay /\ Len(txq) = TX
    <2> DEFINE s == NoteTxQueueRejected(o, k)
    <2>1. p = [r |-> s, q |-> txq]
      BY <1>1, <1>7 DEF EnqueuePlan, o
    <2>2. p.r = s /\ p.q = txq
      BY <2>1
    <2>3. s = NoteTxQueueRejected(o, k)
      OBVIOUS
    <2> HIDE DEF s
    <2>4. /\ Good(s) /\ s.planned = o.planned /\ s.pending = o.pending /\ s.cancels = o.cancels
          /\ \A j \in Packets : Armed(s, j) = Armed(o, j)
          /\ \A j \in Packets \ {k} : s.rel[j] = o.rel[j]
          /\ Tries(s, k) <= Tries(o, k) + 1
          /\ s.rel[k] # NoSlot => ~s.rel[k].awaiting
      BY <1>2, <2>3, RejectedFacts
    <2>5. \A j \in Packets : /\ Tries(o, j) \in Nat /\ Waits(o, j) \in Nat
                             /\ Cardinality(Armed(o, j)) \in Nat
      BY <1>3, LeftType
    <2>6. s \in RouterType /\ Tries(s, k) \in Nat /\ Left(s, k) \in Nat
      BY <2>4, GoodSlots, LeftType
    <2>7. Left(s, k) <= Left(o, k) + 1
      BY <2>4, <2>5, <2>6 DEF Left, Waits
    <2>8. \A j \in Packets \ {k} : Left(s, j) = Left(o, j)
      BY <2>4 DEF Left, Waits, Tries
    <2>9. ASSUME NEW j \in Packets
          PROVE  /\ rtr.planned[j] <= s.planned[j]
                 /\ Count(txq, j) + Left(s, j) + rtr.planned[j]
                      <= Count(txq, j) + Left(rtr, j) + s.planned[j]
                 /\ Silent(rtr, j) /\ s.planned[j] = rtr.planned[j] => Silent(s, j)
                 /\ Awaits(s, j) => Awaits(rtr, j)
      <3>1. CASE j = k
        <4>1. s.planned[j] # rtr.planned[j] /\ ~Awaits(s, j)
          BY <1>2, <1>7, <2>4, <3>1 DEF Awaits
        <4>2. /\ Count(txq, j) \in Nat /\ Left(rtr, j) \in Nat /\ rtr.planned[j] \in Nat
              /\ Left(o, j) \in Nat /\ o.planned[j] \in Nat /\ rtr.planned[j] <= o.planned[j]
              /\ Left(o, j) + 1 + rtr.planned[j] <= Left(rtr, j) + o.planned[j]
              /\ s.planned[j] = o.planned[j]
          BY <1>1, <1>2, <1>3, <1>7, <2>4, <3>1
        <4>3. Left(s, j) \in Nat /\ Left(s, j) <= Left(o, j) + 1
          BY <2>6, <2>7, <3>1
        <4> QED
          BY <4>1, <4>2, <4>3
      <3>2. CASE j # k
        <4>1. /\ Keeps0(rtr, o, j)
              /\ o.planned[j] = rtr.planned[j] /\ j \in o.pending => j \in rtr.pending
          BY <1>2, <3>2
        <4>2. (Awaits(o, j) => Awaits(rtr, j)) /\ (rtr.rel[j] = NoSlot => o.rel[j] = NoSlot)
          BY <1>4, <4>1
        <4>3. Awaits(s, j) => Awaits(rtr, j)
          BY <2>4, <3>2, <4>2 DEF Awaits
        <4>4. Silent(rtr, j) /\ s.planned[j] = rtr.planned[j] => Silent(s, j)
          BY <2>4, <3>2, <4>1, <4>2 DEF Silent
        <4>5. Left(o, j) + rtr.planned[j] <= Left(rtr, j) + o.planned[j] /\ Left(s, j) = Left(o, j)
          BY <1>1, <1>2, <1>3, <2>8, <3>2
        <4>6. s.planned[j] = o.planned[j] /\ o.planned[j] \in Nat /\ Left(o, j) \in Nat
              /\ rtr.planned[j] <= o.planned[j]
          BY <1>2, <1>3, <2>4
        <4>7. Count(txq, j) \in Nat /\ Left(rtr, j) \in Nat /\ rtr.planned[j] \in Nat
          BY <1>1
        <4>8. Count(txq, j) + Left(s, j) + rtr.planned[j]
                <= Count(txq, j) + Left(rtr, j) + s.planned[j]
          BY <4>5, <4>6, <4>7
        <4> QED
          BY <4>3, <4>4, <4>6, <4>8
      <3> QED
        BY <3>1, <3>2
    <2> QED
      BY <1>1, <1>7, <2>2, <2>4, <2>9 DEF o
  <1> QED
    BY <1>1, <1>5, <1>6, <1>7

(* The frame just received is a frame of the model. *)
LEMMA ReceivedFrame ==
  ASSUME SlotTypeOK, report.rx # None
  PROVE  report.rx \in RxFrames /\ report.rx.key \in Packets
  <1>1. report.rx \in RxFrames
    BY DEF SlotTypeOK, Reports
  <1> QED
    BY <1>1, PathFrames

LEMMA HandleRxSlot ==
  ASSUME SlotTypeOK, HandleRx, txq' \in Seq(TxFrames), Len(txq') <= TX
  PROVE  SlotTypeOK'
  <1>1. /\ report' = [report EXCEPT !.rx = FirstOrNone(rxq)] /\ rxq' = RestOf(rxq)
        /\ UNCHANGED <<inFlight, txFailure, rxRestart, mode>>
    BY DEF HandleRx
  <1>2. Len(txq') \in 0..TX
    BY QueueSizes
  <1>3. /\ rxq' \in Seq(RxFrames) /\ Len(rxq') \in 0..RX
        /\ FirstOrNone(rxq) \in RxFrames \cup {None}
    <2>1. CASE rxq = <<>>
      BY <1>1, <2>1 DEF RestOf, FirstOrNone, SlotTypeOK
    <2>2. CASE rxq # <<>>
      BY <1>1, <2>2, TailFacts, QueueSizes DEF RestOf, FirstOrNone, SlotTypeOK
    <2> QED
      BY <2>1, <2>2
  <1>4. report' \in Reports
    BY <1>1, <1>3 DEF SlotTypeOK, Reports
  <1> QED
    BY <1>1, <1>2, <1>3, <1>4 DEF SlotTypeOK

(* Handling a received frame, with its cancellations. *)
LEMMA HandleRxStep ==
  ASSUME Ground, HandleRx
  PROVE  /\ SlotTypeOK' /\ Good(rtr') /\ rtr'.cancels = {}
         /\ \A k \in Packets :
              /\ rtr.planned[k] <= rtr'.planned[k]
              /\ Count(txq', k) + Left(rtr', k) + rtr.planned[k]
                   <= Count(txq, k) + Left(rtr, k) + rtr'.planned[k]
              /\ Silent(rtr, k) /\ rtr'.planned[k] = rtr.planned[k] =>
                   Silent(rtr', k) /\ Count(txq', k) <= Count(txq, k)
              /\ Awaits(rtr', k) => Awaits(rtr, k) \/ Count(txq', k) > 0
              /\ k \in Own => rtr'.planned[k] = rtr.planned[k]
              /\ k \in answered' =>
                   /\ rtr'.planned[k] = rtr.planned[k]
                   /\ k \in answered \/ (k = report.rx.key /\ Silent(rtr', k))
  <1> DEFINE f == report.rx
             j == f.key
  <1>1. PICK out \in Handlings(f) :
          LET p == EnqueuePlan(out, j) IN
          /\ txq' \in RemoveWhere(p.q, p.r.cancels)
          /\ rtr' = [p.r EXCEPT !.cancels = {}]
          /\ answered' = IF f.kind = "reply" THEN answered \cup {j}
                         ELSE {k \in answered : p.r.planned[k] = rtr.planned[k]}
    BY DEF HandleRx
  <1> DEFINE p == EnqueuePlan(out, j)
  <1>2. /\ txq' \in RemoveWhere(p.q, p.r.cancels)
        /\ rtr' = [p.r EXCEPT !.cancels = {}]
        /\ answered' = IF f.kind = "reply" THEN answered \cup {j}
                       ELSE {k \in answered : p.r.planned[k] = rtr.planned[k]}
    BY <1>1
  <1>3. f \in RxFrames /\ j \in Packets /\ Good(rtr) /\ rtr.cancels \cap Uni = {} /\ SlotTypeOK
    BY ReceivedFrame DEF Ground, HandleRx
  <1>4. /\ HandleEffect(rtr, out, j)
        /\ f.kind = "reply" => /\ ~out.relay /\ out.r.planned = rtr.planned
                               /\ out.r.rel[j] = NoSlot /\ j \notin out.r.pending
    <2>1. CASE f.kind = "reply"
      BY <1>1, <1>3, <2>1, ReplyEffect DEF Handlings
    <2>2. CASE f.kind # "reply"
      <3> DEFINE z == (f.kind = "repeat")
      <3>1. out \in HandleCopy(rtr, j, z)
        BY <1>1, <2>2 DEF Handlings
      <3> HIDE DEF z
      <3> QED
        BY <1>3, <2>2, <3>1, CopyEffect
    <2> QED
      BY <2>1, <2>2
  <1> HIDE DEF j, f
  <1>5. p = EnqueuePlan(out, j)
    OBVIOUS
  <1> HIDE DEF p
  <1>6. /\ Good(p.r) /\ p.q \in Seq(TxFrames) /\ Len(p.q) <= TX
        /\ p.r.planned = out.r.planned
        /\ ~out.relay => p.r = out.r
        /\ \A k \in Packets :
             /\ rtr.planned[k] <= p.r.planned[k]
             /\ Count(p.q, k) + Left(p.r, k) + rtr.planned[k]
                  <= Count(txq, k) + Left(rtr, k) + p.r.planned[k]
             /\ Silent(rtr, k) /\ p.r.planned[k] = rtr.planned[k] =>
                  Silent(p.r, k) /\ Count(p.q, k) <= Count(txq, k)
             /\ Awaits(p.r, k) =>
                  Awaits(rtr, k) \/ (Count(p.q, k) > 0 /\ k \notin p.r.cancels)
    BY <1>3, <1>4, <1>5, QueuedPlan
  <1>7. p.r \in RouterType
    BY <1>6, GoodSlots
  <1>8. rtr' \in RouterType
    BY <1>2, <1>7 DEF RouterType
  <1>9. /\ rtr'.pending = p.r.pending /\ rtr'.commits = p.r.commits /\ rtr'.rel = p.r.rel
        /\ rtr'.t1 = p.r.t1 /\ rtr'.planned = p.r.planned /\ rtr'.cancels = {}
    BY <1>2, <1>7 DEF RouterType
  <1>10. Good(rtr')
    BY <1>6, <1>8, <1>9, ShrinkGood
  <1>11. \A k \in Packets : /\ Left(rtr', k) = Left(p.r, k)
                            /\ (Silent(rtr', k) <=> Silent(p.r, k)) /\ (Awaits(rtr', k) <=> Awaits(p.r, k))
    BY <1>9 DEF Left, Waits, Tries, Armed, Silent, Awaits
  <1>12. txq' \in Seq(TxFrames) /\ Len(txq') <= Len(p.q)
    BY <1>2, <1>6, HavingRemove
  <1>13. ASSUME NEW k \in Packets
         PROVE  /\ Count(txq', k) <= Count(p.q, k) /\ Count(txq', k) \in Nat /\ Count(p.q, k) \in Nat
                /\ k \notin p.r.cancels => Count(txq', k) = Count(p.q, k)
    <2>1. /\ Cardinality(Having(txq', k)) <= Cardinality(Having(p.q, k))
          /\ k \notin p.r.cancels => Cardinality(Having(txq', k)) = Cardinality(Having(p.q, k))
      BY <1>2, <1>6, HavingRemove
    <2>2. Cardinality(Having(txq', k)) \in Nat /\ Cardinality(Having(p.q, k)) \in Nat
      BY <1>6, <1>12, HavingFinite
    <2> QED
      BY <2>1, <2>2 DEF Count
  <1>14. SlotTypeOK'
    <2>1. Len(txq') <= TX
      BY <1>6, <1>12, QueueSizes
    <2> QED
      BY <1>3, <1>12, <2>1, HandleRxSlot
  <1>15. ASSUME NEW k \in Packets
         PROVE  /\ rtr.planned[k] <= rtr'.planned[k]
                /\ Count(txq', k) + Left(rtr', k) + rtr.planned[k]
                     <= Count(txq, k) + Left(rtr, k) + rtr'.planned[k]
                /\ Silent(rtr, k) /\ rtr'.planned[k] = rtr.planned[k] =>
                     Silent(rtr', k) /\ Count(txq', k) <= Count(txq, k)
                /\ Awaits(rtr', k) => Awaits(rtr, k) \/ Count(txq', k) > 0
    <2>1. /\ Count(txq, k) \in Nat /\ Left(rtr, k) \in Nat /\ rtr.planned[k] \in Nat
          /\ Left(p.r, k) \in Nat /\ p.r.planned[k] \in Nat
      BY <1>7, GroundFacts, LeftType, RouterFields
    <2>2. /\ rtr.planned[k] <= p.r.planned[k]
          /\ Count(p.q, k) + Left(p.r, k) + rtr.planned[k]
               <= Count(txq, k) + Left(rtr, k) + p.r.planned[k]
          /\ Silent(rtr, k) /\ p.r.planned[k] = rtr.planned[k] =>
               Silent(p.r, k) /\ Count(p.q, k) <= Count(txq, k)
          /\ Awaits(p.r, k) =>
               Awaits(rtr, k) \/ (Count(p.q, k) > 0 /\ k \notin p.r.cancels)
      BY <1>6
    <2>3. /\ Count(txq', k) <= Count(p.q, k) /\ Count(txq', k) \in Nat /\ Count(p.q, k) \in Nat
          /\ k \notin p.r.cancels => Count(txq', k) = Count(p.q, k)
      BY <1>13
    <2>4. Left(rtr', k) = Left(p.r, k) /\ rtr'.planned[k] = p.r.planned[k]
      BY <1>9, <1>11
    <2>5. Count(txq', k) + Left(rtr', k) + rtr.planned[k]
            <= Count(txq, k) + Left(rtr, k) + rtr'.planned[k]
      BY <2>1, <2>2, <2>3, <2>4
    <2>6. Silent(rtr, k) /\ rtr'.planned[k] = rtr.planned[k] =>
            Silent(rtr', k) /\ Count(txq', k) <= Count(txq, k)
      BY <1>11, <2>1, <2>2, <2>3, <2>4
    <2>7. Awaits(rtr', k) => Awaits(rtr, k) \/ Count(txq', k) > 0
      BY <1>11, <2>2, <2>3
    <2> QED
      BY <2>2, <2>4, <2>5, <2>6, <2>7
  <1>16. ASSUME NEW k \in Packets, k \in Own
         PROVE  rtr'.planned[k] = rtr.planned[k]
    BY <1>4, <1>6, <1>9, <1>16 DEF HandleEffect
  <1>17. ASSUME NEW k \in Packets, k \in answered'
         PROVE  /\ rtr'.planned[k] = rtr.planned[k]
                /\ k \in answered \/ (k = j /\ Silent(rtr', k))
    <2>1. CASE f.kind = "reply"
      <3>1. p.r = out.r /\ p.r.planned = rtr.planned /\ Silent(p.r, j)
        BY <1>4, <1>6, <2>1 DEF Silent
      <3>2. k \in answered \/ k = j
        BY <1>2, <1>17, <2>1
      <3> QED
        BY <1>9, <1>11, <3>1, <3>2
    <2>2. CASE f.kind # "reply"
      BY <1>2, <1>9, <1>17, <2>2
    <2> QED
      BY <2>1, <2>2
  <1> QED
    BY <1>9, <1>10, <1>14, <1>15, <1>16, <1>17 DEF j, f

-----------------------------------------------------------------------------
(* Frames of our own packets are only heard once one was sent. *)
HeardAfterSent ==
  /\ \A i \in DOMAIN rxq : rxq[i].key \in Own => aired[rxq[i].key] > 0
  /\ report.rx # None /\ report.rx.key \in Own => aired[report.rx.key] > 0

(* A call of service moves a frame from the queue to the air or leaves the *)
(* queue alone; the router does not see it.                                *)
LEMMA CallServiceStep ==
  ASSUME Ground, aired \in [Packets -> Nat], heard \in 0..MaxRx, faults \in 0..MaxFaults,
         HeardAfterSent,
         NEW mayTx \in BOOLEAN, NEW got \in Receptions, CallService(mayTx, got)
  PROVE  /\ SlotTypeOK' /\ aired' \in [Packets -> Nat] /\ HeardAfterSent' /\ Reported'
         /\ \A k \in Packets :
              /\ aired[k] <= aired'[k] /\ Count(txq', k) <= Count(txq, k)
              /\ aired'[k] + Count(txq', k) <= aired[k] + Count(txq, k)
              /\ Count(txq', k) \in Nat
              /\ Count(txq, k) > Count(txq', k) => inFlight' # None /\ inFlight'.key = k
         /\ Transmits(got)
         /\ inFlight # None /\ inFlight' = None =>
              report'.done = inFlight \/ txFailure' = inFlight.key \/ report'.res = "Hardware"
         /\ heard' \in 0..MaxRx /\ faults' \in 0..MaxFaults
  <1>0. got \in Seq(RxFrames) /\ DOMAIN got = 1..Len(got) /\ Len(got) \in Nat /\ SlotTypeOK
    BY DEF Receptions, Ground
  <1> DEFINE duty == TRUE
  <1>s. Service(mayTx, duty, got) /\ duty \in BOOLEAN
    BY DEF CallService
  <1> HIDE DEF duty
  <1>1. SlotTypeOK' /\ Transmits(got) /\ Receives(got)
    BY <1>0, <1>s, ServiceFacts
  <1>2. /\ Reported'
        /\ inFlight # None /\ inFlight' = None =>
             report'.done = inFlight \/ txFailure' = inFlight.key \/ report'.res = "Hardware"
    BY <1>s, ServiceReports
  <1>3. heard' \in 0..MaxRx /\ faults' \in 0..MaxFaults
    BY <1>0, PathFrames DEF CallService
  <1>4. /\ txq \in Seq(TxFrames) /\ \A f \in TxFrames : f.key \in Packets
        /\ \A k \in Packets : Count(txq, k) \in Nat
        /\ None \notin TxFrames
    BY GroundFacts, NoneIsNoFrame
  <1>5. /\ aired' \in [Packets -> Nat]
        /\ \A k \in Packets :
              /\ aired[k] <= aired'[k] /\ Count(txq', k) <= Count(txq, k)
              /\ aired'[k] + Count(txq', k) <= aired[k] + Count(txq, k)
              /\ Count(txq', k) \in Nat
              /\ Count(txq, k) > Count(txq', k) => inFlight' # None /\ inFlight'.key = k
    <2>1. CASE txq' = txq /\ (inFlight' = inFlight \/ (inFlight # None /\ inFlight' = None))
      <3>1. aired' = aired
        BY <2>1 DEF CallService
      <3> QED
        BY <1>4, <2>1, <3>1
    <2>2. CASE /\ inFlight = None /\ txq # <<>> /\ inFlight' = Head(txq) /\ txq' = Tail(txq)
      <3> DEFINE h == Head(txq).key
      <3>1. Head(txq) \in TxFrames /\ txq' \in Seq(TxFrames) /\ inFlight' # None
        BY <1>4, <2>2, TailFacts
      <3>2. h \in Packets /\ inFlight'.key = h
        BY <1>4, <2>2, <3>1
      <3>3. aired' = [aired EXCEPT ![h] = @ + 1]
        BY <2>2, <3>1, <3>2 DEF CallService
      <3>4. \A k \in Packets : Count(txq, k) = Count(txq', k) + IF h = k THEN 1 ELSE 0
        BY <1>4, <2>2, HavingTail DEF Count
      <3>5. \A k \in Packets : Count(txq', k) \in Nat
        BY <3>1, HavingFinite DEF Count
      <3> HIDE DEF h
      <3>6. aired' \in [Packets -> Nat]
        BY <3>2, <3>3
      <3>7. ASSUME NEW k \in Packets
            PROVE  /\ aired[k] <= aired'[k] /\ Count(txq', k) <= Count(txq, k)
                   /\ aired'[k] + Count(txq', k) <= aired[k] + Count(txq, k)
                   /\ Count(txq, k) > Count(txq', k) => inFlight' # None /\ inFlight'.key = k
        <4>1. aired[k] \in Nat /\ Count(txq', k) \in Nat
          BY <3>5
        <4>2. CASE k = h
          BY <3>1, <3>2, <3>3, <3>4, <4>1, <4>2
        <4>3. CASE k # h
          BY <3>3, <3>4, <4>1, <4>3
        <4> QED
          BY <4>2, <4>3
      <3> QED
        BY <3>5, <3>6, <3>7
    <2> QED
      BY <1>1, <2>1, <2>2 DEF Transmits
  <1>6. HeardAfterSent'
    <2> DEFINE q == rxq \o got
    <2>1. /\ rxq \in Seq(RxFrames) /\ q \in Seq(RxFrames) /\ \A f \in RxFrames : f.key \in Packets
          /\ None \notin RxFrames
      BY <1>0, PathFrames, NoneIsNoFrame DEF SlotTypeOK
    <2>2. ASSUME NEW i \in DOMAIN q
          PROVE  q[i].key \in Packets /\ (q[i].key \in Own => aired'[q[i].key] > 0)
      <3>1. q[i] \in RxFrames
        BY <2>1, MemberFacts
      <3>2. q[i].key \in Packets
        BY <2>1, <3>1
      <3>3. q[i].key \in Own => aired[q[i].key] > 0
        <4>1. CASE i \in DOMAIN rxq
          <5>1. q[i] = rxq[i]
            BY <1>0, <2>1, <4>1
          <5> QED
            BY <4>1, <5>1 DEF HeardAfterSent
        <4>2. CASE i \notin DOMAIN rxq
          <5>1. i - Len(rxq) \in DOMAIN got /\ q[i] = got[i - Len(rxq)]
            BY <1>0, <2>1, <4>2
          <5> QED
            BY <5>1 DEF CallService
        <4> QED
          BY <4>1, <4>2
      <3>4. aired[q[i].key] \in Nat /\ aired'[q[i].key] \in Nat /\ aired[q[i].key] <= aired'[q[i].key]
        BY <1>5, <3>2
      <3> QED
        BY <3>2, <3>3, <3>4
    <2>3. CASE rxq' = q /\ report'.rx = None
      BY <2>2, <2>3 DEF HeardAfterSent
    <2>4. CASE q # <<>> /\ rxq' = Tail(q) /\ report'.rx = Head(q)
      <3>1. /\ Head(q) = q[1] /\ 1 \in DOMAIN q
            /\ \A i \in DOMAIN Tail(q) : i + 1 \in DOMAIN q /\ Tail(q)[i] = q[i + 1]
        BY <2>1, <2>4, TailFacts
      <3> HIDE DEF q
      <3> QED
        BY <2>2, <2>4, <3>1 DEF HeardAfterSent
    <2> QED
      BY <1>1, <2>3, <2>4 DEF Receives
  <1> QED
    BY <1>1, <1>2, <1>3, <1>5, <1>6

(***************************************************************************)
(* The inductive invariant.  The budget alone is not inductive: it needs   *)
(* that only relays wait and only reliable packets hold a reliable slot    *)
(* (Good), that a cancellation of a unicast never waits over a poll, and   *)
(* for the answers that our own packet is heard only after it was sent.    *)
(***************************************************************************)
InBudget(k) == aired[k] + Count(txq, k) + Left(rtr, k) <= rtr.planned[k]
Ghosts ==
  /\ phase \in {"poll", "after"} /\ heard \in 0..MaxRx /\ faults \in 0..MaxFaults
  /\ sent \subseteq Own /\ aired \in [Packets -> Nat]
  /\ answered \subseteq Packets /\ copyHeard \subseteq Packets
Answered ==
  /\ \A k \in Own : rtr.planned[k] > 0 => k \in sent
  /\ \A k \in answered \cap Uni : Silent(rtr, k) /\ (k \in Own => k \in sent)
PathInv ==
  /\ Ground /\ Ghosts
  /\ \A k \in Packets : InBudget(k)
  /\ HeardAfterSent /\ Reported /\ (phase = "poll" => report.res = "Ok")
  /\ Answered

(* What one step may not do. *)
QuietStep == \A k \in answered \cap answered' \cap Uni : Count(txq', k) <= Count(txq, k)
StrandStep ==
  \A k \in Packets : ~Stranded(k) /\ Stranded(k)' =>
    \/ Count(txq, k) > 0 /\ Count(txq', k) = 0 /\ phase = "after"
    \/ inFlight # None /\ inFlight.key = k /\ report'.res = "Hardware"

(* A slot is stranded when it awaits a frame that is nowhere. *)
LEMMA StrandedMeans ==
  ASSUME SlotTypeOK, NEW k \in Packets
  PROVE  Stranded(k) <=>
           /\ Awaits(rtr, k) /\ Count(txq, k) = 0
           /\ ~(inFlight # None /\ inFlight.key = k)
           /\ ~(phase = "after" /\ report.done # None /\ report.done.key = k)
           /\ txFailure # k
  <1>1. Count(txq, k) \in Nat
    BY HavingFinite DEF SlotTypeOK, Count
  <1>2. Copies(k) = Count(txq, k) + IF inFlight # None /\ inFlight.key = k THEN 1 ELSE 0
    BY DEF Copies, Count, Having
  <1>3. Copies(k) = 0 <=> Count(txq, k) = 0 /\ ~(inFlight # None /\ inFlight.key = k)
    BY <1>1, <1>2
  <1> QED
    BY <1>3 DEF Stranded, Awaits

LEMMA StrandedNext ==
  ASSUME SlotTypeOK', NEW k \in Packets
  PROVE  Stranded(k)' <=>
           /\ Awaits(rtr', k) /\ Count(txq', k) = 0
           /\ ~(inFlight' # None /\ inFlight'.key = k)
           /\ ~(phase' = "after" /\ report'.done # None /\ report'.done.key = k)
           /\ txFailure' # k
  <1>1. Count(txq', k) \in Nat
    BY HavingFinite DEF SlotTypeOK, Count
  <1>2. Copies(k)' = Count(txq', k) + IF inFlight' # None /\ inFlight'.key = k THEN 1 ELSE 0
    BY DEF Copies, Count, Having
  <1>3. Copies(k)' = 0 <=> Count(txq', k) = 0 /\ ~(inFlight' # None /\ inFlight'.key = k)
    BY <1>1, <1>2
  <1> QED
    BY <1>3 DEF Stranded, Awaits

(* The polls. *)
LEMMA PollKeeps ==
  ASSUME PathInv, StepEffect, UNCHANGED <<rxq, inFlight, txFailure, rxRestart, mode, report>>,
         UNCHANGED <<phase, heard, faults, aired, answered, copyHeard>>,
         sent \subseteq sent', sent' \subseteq Own,
         \A k \in answered \cap Uni : rtr'.planned[k] = rtr.planned[k],
         \A k \in Own : rtr'.planned[k] = rtr.planned[k] \/ k \in sent'
  PROVE  PathInv' /\ QuietStep /\ StrandStep
  <1>0. Ground /\ Ghosts /\ SlotTypeOK
    BY DEF PathInv, Ground
  <1>1. SlotTypeOK'
    <2>1. txq' \in Seq(TxFrames) /\ Len(txq') \in 0..TX
      BY QueueSizes DEF StepEffect
    <2> QED
      BY <1>0, <2>1 DEF SlotTypeOK
  <1>2. Ground' /\ Ghosts' /\ Good(rtr') /\ rtr' \in RouterType
    BY <1>0, <1>1, GoodSlots DEF StepEffect, Ground, Ghosts
  <1>3. ASSUME NEW k \in Packets
        PROVE  /\ aired[k] \in Nat /\ Count(txq, k) \in Nat /\ Left(rtr, k) \in Nat
               /\ rtr.planned[k] \in Nat
               /\ Count(txq', k) \in Nat /\ Left(rtr', k) \in Nat /\ rtr'.planned[k] \in Nat
    <2>1. Count(txq', k) \in Nat
      BY HavingFinite DEF StepEffect, Count
    <2>2. Left(rtr', k) \in Nat /\ rtr'.planned[k] \in Nat
      BY <1>2, LeftType, RouterFields
    <2> QED
      BY <1>0, <2>1, <2>2, GroundFacts DEF Ghosts
  <1>4. ASSUME NEW k \in Packets
        PROVE  InBudget(k)'
    <2>1. /\ Count(txq', k) + Left(rtr', k) + rtr.planned[k]
               <= Count(txq, k) + Left(rtr, k) + rtr'.planned[k]
          /\ aired[k] + Count(txq, k) + Left(rtr, k) <= rtr.planned[k] /\ aired' = aired
      BY DEF StepEffect, PathInv, InBudget
    <2> QED
      BY <1>3, <2>1 DEF InBudget
  <1>5. HeardAfterSent' /\ Reported' /\ (phase' = "poll" => report'.res = "Ok")
    BY DEF PathInv, HeardAfterSent, Reported
  <1>6. \A k \in answered \cap Uni :
          /\ k \in Packets /\ Silent(rtr, k) /\ Silent(rtr', k) /\ Count(txq', k) <= Count(txq, k)
          /\ k \in Own => k \in sent'
    BY DEF PathInv, Answered, StepEffect, Ghosts
  <1>7. Own \subseteq Packets
    BY DEF Packets
  <1>8. Answered'
    <2>1. \A k \in Own : rtr'.planned[k] > 0 => k \in sent'
      BY <1>3, <1>7 DEF PathInv, Answered
    <2> QED
      BY <1>6, <2>1 DEF Answered
  <1>9. QuietStep
    BY <1>6 DEF QuietStep
  <1>10. StrandStep
    <2> SUFFICES ASSUME NEW k \in Packets, ~Stranded(k), Stranded(k)'
                 PROVE  FALSE
      BY DEF StrandStep
    <2>1. /\ Awaits(rtr', k) /\ Count(txq', k) = 0
          /\ ~(inFlight' # None /\ inFlight'.key = k)
          /\ ~(phase' = "after" /\ report'.done # None /\ report'.done.key = k)
          /\ txFailure' # k
      BY <1>1, StrandedNext
    <2>2. Awaits(rtr, k) /\ Count(txq, k) = 0
      BY <1>3, <2>1 DEF StepEffect
    <2> QED
      BY <1>0, <2>1, <2>2, StrandedMeans
  <1> QED
    BY <1>2, <1>4, <1>5, <1>8, <1>9, <1>10 DEF PathInv

(* Every poll of the router. *)
LEMMA PollsKeep ==
  ASSUME PathInv,
         \/ \E k \in Packets : Poll(k)
         \/ \E i \in T1Index : PollT1(i) \/ StandDownT1(i)
         \/ Recheck
  PROVE  PathInv' /\ QuietStep /\ StrandStep
  <1>0. Ground /\ Ghosts /\ Own \subseteq Packets
    BY DEF PathInv, Packets
  <1>u. ASSUME UNCHANGED <<rxq, inFlight, txFailure, rxRestart, mode, report>>,
               UNCHANGED <<phase, heard, faults, aired, answered, copyHeard, sent>>,
               StepEffect, rtr'.planned = rtr.planned
        PROVE  PathInv' /\ QuietStep /\ StrandStep
    BY <1>0, <1>u, PollKeeps DEF Ghosts
  <1>1. ASSUME NEW k \in Packets, SendLocal(k)
        PROVE  PathInv' /\ QuietStep /\ StrandStep
    <2>1. StepEffect /\ Others(rtr, rtr', k)
      BY <1>0, <1>1, SendLocalStep
    <2>2. /\ UNCHANGED <<rxq, inFlight, txFailure, rxRestart, mode, report>>
          /\ UNCHANGED <<phase, heard, faults, aired, answered, copyHeard>>
          /\ k \in Own \ sent /\ sent' = sent \cup {k}
      BY <1>1 DEF SendLocal, Hand, PushTx
    <2>3. k \notin answered \cap Uni
      BY <2>2 DEF PathInv, Answered
    <2>4. \A j \in Packets \ {k} : rtr'.planned[j] = rtr.planned[j]
      BY <2>1 DEF Others
    <2>5. /\ \A j \in answered \cap Uni : rtr'.planned[j] = rtr.planned[j]
          /\ \A j \in Own : rtr'.planned[j] = rtr.planned[j] \/ j \in sent'
      BY <1>0, <2>2, <2>3, <2>4 DEF Ghosts
    <2> QED
      BY <1>0, <2>1, <2>2, <2>5, PollKeeps DEF Ghosts
  <1>2. ASSUME NEW k \in Packets, NEW f \in FollowUps, PollReadyRelay(k, f)
        PROVE  PathInv' /\ QuietStep /\ StrandStep
    <2>1. StepEffect /\ Others(rtr, rtr', k) /\ k \in rtr.pending
      BY <1>0, <1>2, PollReadyRelayStep
    <2>2. /\ UNCHANGED <<rxq, inFlight, txFailure, rxRestart, mode, report>>
          /\ UNCHANGED <<phase, heard, faults, aired, answered, copyHeard, sent>>
      BY <1>2 DEF PollReadyRelay, Hand, PushTx
    <2>3. k \notin answered \cap Uni /\ k \notin Own
      BY <2>1 DEF PathInv, Answered, Silent, Ground, Good, Sorted
    <2>4. \A j \in Packets \ {k} : rtr'.planned[j] = rtr.planned[j]
      BY <2>1 DEF Others
    <2>5. /\ \A j \in answered \cap Uni : rtr'.planned[j] = rtr.planned[j]
          /\ \A j \in Own : rtr'.planned[j] = rtr.planned[j] \/ j \in sent'
      BY <1>0, <2>3, <2>4 DEF Ghosts
    <2> QED
      BY <1>0, <2>1, <2>2, <2>5, PollKeeps DEF Ghosts
  <1>3. ASSUME NEW k \in Packets, DropPending(k)
        PROVE  PathInv' /\ QuietStep /\ StrandStep
    BY <1>0, <1>3, <1>u, DropPendingStep DEF DropPending, slotVars, ghostVars
  <1>4. ASSUME NEW k \in Packets, PollRetransmit(k)
        PROVE  PathInv' /\ QuietStep /\ StrandStep
    BY <1>0, <1>4, <1>u, PollRetransmitStep DEF PollRetransmit, Hand, PushTx
  <1>5. ASSUME NEW k \in Packets, ReleaseReliable(k)
        PROVE  PathInv' /\ QuietStep /\ StrandStep
    BY <1>0, <1>5, <1>u, ReleaseReliableStep DEF ReleaseReliable, slotVars, ghostVars
  <1>6. ASSUME NEW k \in Packets, ExpireCommit(k)
        PROVE  PathInv' /\ QuietStep /\ StrandStep
    BY <1>0, <1>6, <1>u, ExpireCommitStep DEF ExpireCommit, slotVars, ghostVars
  <1>7. ASSUME NEW k \in Packets, ForgetOurTx(k)
        PROVE  PathInv' /\ QuietStep /\ StrandStep
    BY <1>0, <1>7, <1>u, ForgetOurTxStep DEF ForgetOurTx, slotVars, ghostVars
  <1>8. ASSUME NEW i \in T1Index, PollT1(i)
        PROVE  PathInv' /\ QuietStep /\ StrandStep
    BY <1>0, <1>8, <1>u, PollT1Step DEF PollT1, Hand, PushTx
  <1>9. ASSUME NEW i \in T1Index, StandDownT1(i)
        PROVE  PathInv' /\ QuietStep /\ StrandStep
    BY <1>0, <1>9, <1>u, StandDownT1Step DEF StandDownT1, slotVars, ghostVars
  <1>10. CASE Recheck
    BY <1>0, <1>10, <1>u, RecheckStep DEF Recheck, PopTx, ghostVars
  <1> QED
    BY <1>1, <1>2, <1>3, <1>4, <1>5, <1>6, <1>7, <1>8, <1>9, <1>10 DEF Poll

(* The call of service. *)
LEMMA CallServiceKeeps ==
  ASSUME PathInv, NEW mayTx \in BOOLEAN, NEW got \in Receptions, CallService(mayTx, got)
  PROVE  PathInv' /\ QuietStep /\ StrandStep
  <1>0. Ground /\ Ghosts /\ SlotTypeOK /\ HeardAfterSent /\ Own \subseteq Packets
    BY DEF PathInv, Ground, Packets
  <1>1. /\ SlotTypeOK' /\ aired' \in [Packets -> Nat] /\ HeardAfterSent' /\ Reported'
        /\ \A k \in Packets :
             /\ aired[k] <= aired'[k] /\ Count(txq', k) <= Count(txq, k)
             /\ aired'[k] + Count(txq', k) <= aired[k] + Count(txq, k)
             /\ Count(txq', k) \in Nat
             /\ Count(txq, k) > Count(txq', k) => inFlight' # None /\ inFlight'.key = k
        /\ Transmits(got)
        /\ inFlight # None /\ inFlight' = None =>
             report'.done = inFlight \/ txFailure' = inFlight.key \/ report'.res = "Hardware"
        /\ heard' \in 0..MaxRx /\ faults' \in 0..MaxFaults
    BY <1>0, CallServiceStep DEF Ghosts
  <1>2. phase = "poll" /\ phase' = "after" /\ UNCHANGED <<rtr, sent, answered, copyHeard>>
    BY DEF CallService
  <1>3. Ground' /\ Ghosts' /\ Answered'
    BY <1>0, <1>1, <1>2 DEF PathInv, Ground, Ghosts, Answered
  <1>4. ASSUME NEW k \in Packets
        PROVE  InBudget(k)'
    <2>1. /\ aired[k] + Count(txq, k) + Left(rtr, k) <= rtr.planned[k] /\ rtr' = rtr
          /\ aired'[k] + Count(txq', k) <= aired[k] + Count(txq, k)
          /\ aired[k] \in Nat /\ aired'[k] \in Nat /\ Count(txq', k) \in Nat
      BY <1>0, <1>1, <1>2 DEF PathInv, InBudget, Ghosts
    <2>2. Count(txq, k) \in Nat /\ Left(rtr, k) \in Nat /\ rtr.planned[k] \in Nat
      BY <1>0, GroundFacts
    <2> QED
      BY <2>1, <2>2 DEF InBudget
  <1>5. QuietStep
    BY <1>0, <1>1 DEF QuietStep, Ghosts
  <1>6. StrandStep
    <2> SUFFICES ASSUME NEW k \in Packets, ~Stranded(k), Stranded(k)'
                 PROVE  inFlight # None /\ inFlight.key = k /\ report'.res = "Hardware"
      BY DEF StrandStep
    <2>1. /\ Awaits(rtr', k) /\ Count(txq', k) = 0
          /\ ~(inFlight' # None /\ inFlight'.key = k)
          /\ ~(report'.done # None /\ report'.done.key = k)
          /\ txFailure' # k
      BY <1>1, <1>2, StrandedNext
    <2>2. txFailure = None /\ k # None
      BY <1>2, NoneIsNoFrame, PathFrames DEF PathInv, Reported
    <2>3. Count(txq, k) = 0
      <3>1. Count(txq, k) \in Nat /\ Count(txq', k) \in Nat /\ ~(Count(txq, k) > Count(txq', k))
        BY <1>0, <1>1, <2>1, GroundFacts
      <3> QED
        BY <2>1, <3>1
    <2>4. inFlight # None /\ inFlight.key = k
      BY <1>0, <1>2, <2>1, <2>2, <2>3, StrandedMeans
    <2>5. inFlight' = None
      BY <1>1, <2>1, <2>4 DEF Transmits
    <2> QED
      BY <1>1, <2>1, <2>4, <2>5
  <1> QED
    BY <1>1, <1>2, <1>3, <1>4, <1>5, <1>6 DEF PathInv

(* Handling a received frame. *)
LEMMA HandleRxKeeps ==
  ASSUME PathInv, HandleRx
  PROVE  PathInv' /\ QuietStep /\ StrandStep
  <1>0. Ground /\ Ghosts /\ SlotTypeOK /\ Own \subseteq Packets /\ Uni \subseteq Packets
    BY DEF PathInv, Ground, Packets, Own, Uni
  <1>1. /\ SlotTypeOK' /\ Good(rtr') /\ rtr'.cancels = {}
        /\ \A k \in Packets :
             /\ rtr.planned[k] <= rtr'.planned[k]
             /\ Count(txq', k) + Left(rtr', k) + rtr.planned[k]
                  <= Count(txq, k) + Left(rtr, k) + rtr'.planned[k]
             /\ Silent(rtr, k) /\ rtr'.planned[k] = rtr.planned[k] =>
                  Silent(rtr', k) /\ Count(txq', k) <= Count(txq, k)
             /\ Awaits(rtr', k) => Awaits(rtr, k) \/ Count(txq', k) > 0
             /\ k \in Own => rtr'.planned[k] = rtr.planned[k]
             /\ k \in answered' =>
                  /\ rtr'.planned[k] = rtr.planned[k]
                  /\ k \in answered \/ (k = report.rx.key /\ Silent(rtr', k))
    BY <1>0, HandleRxStep
  <1>2. /\ phase = "after" /\ report.res = "Ok" /\ report.rx # None
        /\ report' = [report EXCEPT !.rx = FirstOrNone(rxq)] /\ rxq' = RestOf(rxq)
        /\ UNCHANGED <<inFlight, txFailure, rxRestart, mode, phase, heard, faults, sent, aired>>
    BY DEF HandleRx
  <1>3. report'.res = report.res /\ report'.done = report.done /\ report'.rx = FirstOrNone(rxq)
    BY <1>0, <1>2 DEF SlotTypeOK, Reports
  <1>4. answered' \subseteq Packets /\ copyHeard' \subseteq Packets
    <2>1. report.rx.key \in Packets
      BY <1>0, <1>2, ReceivedFrame
    <2> QED
      BY <1>0, <2>1 DEF HandleRx, Ghosts
  <1>5. Ground' /\ Ghosts'
    BY <1>0, <1>1, <1>2, <1>4 DEF Ground, Ghosts
  <1>6. HeardAfterSent'
    <2>1. rxq \in Seq(RxFrames) /\ aired' = aired
      BY <1>0, <1>2 DEF SlotTypeOK
    <2>2. CASE rxq = <<>>
      BY <1>2, <1>3, <2>1, <2>2 DEF HeardAfterSent, RestOf, FirstOrNone
    <2>3. CASE rxq # <<>>
      <3>1. /\ Head(rxq) = rxq[1] /\ 1 \in DOMAIN rxq
            /\ \A i \in DOMAIN Tail(rxq) : i + 1 \in DOMAIN rxq /\ Tail(rxq)[i] = rxq[i + 1]
        BY <2>1, <2>3, TailFacts
      <3>2. rxq' = Tail(rxq) /\ report'.rx = Head(rxq)
        BY <1>2, <1>3, <2>3 DEF RestOf, FirstOrNone
      <3>3. \A i \in DOMAIN rxq : rxq[i].key \in Own => aired[rxq[i].key] > 0
        BY DEF PathInv, HeardAfterSent
      <3> QED
        BY <2>1, <3>1, <3>2, <3>3 DEF HeardAfterSent
    <2> QED
      BY <2>2, <2>3
  <1>7. Reported' /\ (phase' = "poll" => report'.res = "Ok")
    BY <1>2, <1>3 DEF PathInv, Reported
  <1>8. rtr' \in RouterType /\ \A k \in Packets :
          /\ aired[k] \in Nat /\ Count(txq, k) \in Nat /\ Left(rtr, k) \in Nat
          /\ rtr.planned[k] \in Nat
          /\ Count(txq', k) \in Nat /\ Left(rtr', k) \in Nat /\ rtr'.planned[k] \in Nat
    <2>1. rtr' \in RouterType /\ txq' \in Seq(TxFrames)
      BY <1>1, GoodSlots DEF SlotTypeOK
    <2>2. \A k \in Packets : Left(rtr', k) \in Nat /\ rtr'.planned[k] \in Nat
      BY <2>1, LeftType, RouterFields
    <2>3. \A k \in Packets : Count(txq', k) \in Nat
      BY <2>1, HavingFinite DEF Count
    <2> QED
      BY <1>0, <2>1, <2>2, <2>3, GroundFacts DEF Ghosts
  <1>9. ASSUME NEW k \in Packets
        PROVE  InBudget(k)'
    <2>1. /\ Count(txq', k) + Left(rtr', k) + rtr.planned[k]
               <= Count(txq, k) + Left(rtr, k) + rtr'.planned[k]
          /\ aired[k] + Count(txq, k) + Left(rtr, k) <= rtr.planned[k] /\ aired' = aired
      BY <1>1, <1>2 DEF PathInv, InBudget
    <2>2. /\ aired[k] \in Nat /\ Count(txq, k) \in Nat /\ Left(rtr, k) \in Nat
          /\ rtr.planned[k] \in Nat
          /\ Count(txq', k) \in Nat /\ Left(rtr', k) \in Nat /\ rtr'.planned[k] \in Nat
      BY <1>8
    <2> QED
      BY <2>1, <2>2 DEF InBudget
  <1>10. \A k \in Own : rtr'.planned[k] > 0 => k \in sent'
    BY <1>0, <1>1, <1>2 DEF PathInv, Answered
  <1>11. ASSUME NEW k \in answered' \cap Uni
         PROVE  /\ Silent(rtr', k) /\ (k \in Own => k \in sent')
                /\ k \in answered => Count(txq', k) <= Count(txq, k)
    <2>1. k \in Packets /\ rtr'.planned[k] = rtr.planned[k]
      BY <1>0, <1>1, <1>11
    <2>2. CASE k \in answered
      <3>1. Silent(rtr, k) /\ (k \in Own => k \in sent)
        BY <1>11, <2>2 DEF PathInv, Answered
      <3> QED
        BY <1>1, <1>2, <2>1, <3>1
    <2>3. CASE k \notin answered
      <3>1. k = report.rx.key /\ Silent(rtr', k)
        BY <1>1, <1>11, <2>1, <2>3
      <3>2. k \in Own => aired[k] > 0
        BY <1>2, <3>1 DEF PathInv, HeardAfterSent
      <3>3. /\ aired[k] + Count(txq, k) + Left(rtr, k) <= rtr.planned[k]
            /\ aired[k] \in Nat /\ Count(txq, k) \in Nat /\ Left(rtr, k) \in Nat
            /\ rtr.planned[k] \in Nat
        BY <1>8, <2>1 DEF PathInv, InBudget
      <3>4. aired[k] > 0 => rtr.planned[k] > 0
        BY <3>3
      <3>5. k \in Own => k \in sent'
        BY <1>2, <3>2, <3>4 DEF PathInv, Answered
      <3> QED
        BY <2>3, <3>1, <3>5
    <2> QED
      BY <2>2, <2>3
  <1>12. Answered' /\ QuietStep
    BY <1>10, <1>11 DEF Answered, QuietStep
  <1>13. StrandStep
    <2> SUFFICES ASSUME NEW k \in Packets, ~Stranded(k), Stranded(k)'
                 PROVE  Count(txq, k) > 0 /\ Count(txq', k) = 0
      BY <1>2 DEF StrandStep
    <2>1. /\ Awaits(rtr', k) /\ Count(txq', k) = 0
          /\ ~(inFlight # None /\ inFlight.key = k)
          /\ ~(phase = "after" /\ report.done # None /\ report.done.key = k)
          /\ txFailure # k
      BY <1>1, <1>2, <1>3, StrandedNext
    <2>2. Awaits(rtr, k)
      BY <1>1, <2>1
    <2>3. Count(txq, k) # 0
      BY <1>0, <2>1, <2>2, StrandedMeans
    <2> QED
      BY <1>8, <2>1, <2>3
  <1> QED
    BY <1>5, <1>6, <1>7, <1>9, <1>12, <1>13 DEF PathInv

(* The end of a pass. *)
LEMMA FinishKeeps ==
  ASSUME PathInv, Finish
  PROVE  PathInv' /\ QuietStep /\ StrandStep
  <1>0. Ground /\ Ghosts /\ SlotTypeOK /\ Own \subseteq Packets /\ Uni \subseteq Packets
    BY DEF PathInv, Ground, Packets, Own, Uni
  <1>1. /\ StepEffect /\ rtr'.planned = rtr.planned
        /\ \A k \in Packets : Awaits(rtr', k) =>
             /\ ~(report.res = "Ok" /\ report.done # None /\ report.done.key = k)
             /\ ~(report.res = "TxOutcomeUnknown" /\ txFailure = k)
    BY <1>0, FinishStep
  <1>2. /\ phase = "after" /\ phase' = "poll" /\ report' = OkReport(None, None, 0)
        /\ UNCHANGED <<txq, rxq, inFlight, rxRestart, mode>>
        /\ UNCHANGED <<heard, faults, sent, aired, answered, copyHeard>>
        /\ txFailure' = IF report.res = "TxOutcomeUnknown" THEN None ELSE txFailure
    BY DEF Finish, ghostVars
  <1>3. /\ report'.res = "Ok" /\ report'.done = None /\ report'.rx = None /\ report' \in Reports
        /\ txFailure' = None
    BY <1>2, QueueSizes DEF OkReport, Reports, PathInv, Reported
  <1>4. SlotTypeOK'
    BY <1>0, <1>2, <1>3 DEF SlotTypeOK
  <1>5. Ground' /\ Ghosts' /\ rtr' \in RouterType
    BY <1>0, <1>1, <1>2, <1>4, GoodSlots DEF StepEffect, Ground, Ghosts
  <1>6. HeardAfterSent' /\ Reported' /\ (phase' = "poll" => report'.res = "Ok")
    BY <1>2, <1>3 DEF PathInv, HeardAfterSent, Reported
  <1>7. ASSUME NEW k \in Packets
        PROVE  InBudget(k)'
    <2>1. /\ Count(txq', k) + Left(rtr', k) + rtr.planned[k]
               <= Count(txq, k) + Left(rtr, k) + rtr'.planned[k]
          /\ aired[k] + Count(txq, k) + Left(rtr, k) <= rtr.planned[k] /\ aired' = aired
          /\ txq' = txq /\ rtr'.planned = rtr.planned
      BY <1>1, <1>2 DEF PathInv, InBudget, StepEffect
    <2>2. /\ aired[k] \in Nat /\ Count(txq, k) \in Nat /\ Left(rtr, k) \in Nat
          /\ rtr.planned[k] \in Nat /\ Left(rtr', k) \in Nat
      BY <1>0, <1>5, GroundFacts, LeftType DEF Ghosts
    <2> QED
      BY <2>1, <2>2 DEF InBudget
  <1>8. Answered' /\ QuietStep
    BY <1>0, <1>1, <1>2 DEF PathInv, Answered, QuietStep, StepEffect
  <1>9. StrandStep
    <2> SUFFICES ASSUME NEW k \in Packets, ~Stranded(k), Stranded(k)'
                 PROVE  FALSE
      BY DEF StrandStep
    <2>1. /\ Awaits(rtr', k) /\ Count(txq, k) = 0
          /\ ~(inFlight # None /\ inFlight.key = k)
      BY <1>2, <1>4, StrandedNext
    <2>2. Awaits(rtr, k)
      BY <1>1, <1>2, <2>1 DEF StepEffect
    <2>3. (report.done # None /\ report.done.key = k) \/ txFailure = k
      BY <1>0, <2>1, <2>2, StrandedMeans
    <2>4. k # None
      BY NoneIsNoFrame, PathFrames
    <2> QED
      BY <1>1, <2>1, <2>3, <2>4 DEF PathInv, Reported
  <1> QED
    BY <1>5, <1>6, <1>7, <1>8, <1>9 DEF PathInv

-----------------------------------------------------------------------------
LEMMA NewRouterFacts ==
  /\ Good(NewRouter) /\ NewRouter.cancels = {} /\ NewRouter.planned = [k \in Packets |-> 0]
  /\ \A k \in Packets : Left(NewRouter, k) = 0
  <1> DEFINE r == NewRouter
             free == [key |-> NoSlot, st |-> "free"]
             g == [k \in Packets |-> NoSlot]
             t == [i \in T1Index |-> free]
             p == [k \in Packets |-> 0]
  <1>1. free \in T1Slots /\ free.key = NoSlot /\ free.st = "free"
    BY DEF T1Slots
  <1> HIDE DEF free
  <1>2. /\ g \in [Packets -> RelSlots \cup {NoSlot}] /\ t \in [T1Index -> T1Slots]
        /\ p \in [Packets -> Nat]
        /\ \A k \in Packets : g[k] = NoSlot /\ p[k] = 0
        /\ \A i \in T1Index : t[i] = free
    BY <1>1
  <1>3. r = [pending |-> {}, commits |-> {}, ourTx |-> {}, rel |-> g, t1 |-> t,
             cancels |-> {}, history |-> {}, planned |-> p]
    BY DEF NewRouter, free
  <1>4. p = [k \in Packets |-> 0]
    OBVIOUS
  <1> HIDE DEF r, g, t, p
  <1>5. /\ r.pending = {} /\ r.commits = {} /\ r.rel = g /\ r.t1 = t /\ r.cancels = {}
        /\ r.planned = p
    BY <1>3
  <1>6. r \in RouterType
    BY <1>2, <1>3 DEF RouterType
  <1>7. ActiveSlots(r) = {} /\ \A k \in Packets : Armed(r, k) = {}
    BY <1>1, <1>2, <1>5 DEF ActiveSlots, Armed
  <1>8. Cardinality({}) = 0
    BY FS_EmptySet
  <1>9. Bounded(r)
    BY <1>5, <1>6, <1>7, <1>8, RouterSizes DEF Bounded
  <1>10. NoSlot \notin Uni
    BY PacketsFinite DEF Uni, Packets, Own
  <1>11. Sorted(r)
    BY <1>1, <1>2, <1>5, <1>10 DEF Sorted
  <1>12. \A k \in Packets : Left(r, k) = 0
    BY <1>2, <1>5, <1>7, <1>8 DEF Left, Waits, Tries
  <1> QED
    BY <1>4, <1>5, <1>9, <1>11, <1>12 DEF Good, r

LEMMA InitKeeps ==
  ASSUME Init
  PROVE  PathInv
  <1>1. /\ Good(rtr) /\ rtr.cancels = {} /\ rtr.planned = [k \in Packets |-> 0]
        /\ \A k \in Packets : Left(rtr, k) = 0
    BY NewRouterFacts DEF Init
  <1>2. report = OkReport(None, None, 0) /\ txq = <<>> /\ rxq = <<>> /\ txFailure = None
        /\ inFlight = None /\ rxRestart = FALSE /\ mode = "rx"
    BY DEF Init, SlotInit
  <1>3. report.res = "Ok" /\ report.done = None /\ report.rx = None /\ report \in Reports
    BY <1>2, QueueSizes DEF OkReport, Reports
  <1>4. SlotTypeOK
    <2>1. rxRestart \in BOOLEAN
      BY <1>2, Zenon
    <2> QED
      BY <1>2, <1>3, <2>1, QueueSizes DEF SlotTypeOK
  <1>5. Ground
    BY <1>1, <1>4 DEF Ground
  <1>6. /\ phase = "poll" /\ heard = 0 /\ faults = 0 /\ sent = {} /\ answered = {} /\ copyHeard = {}
        /\ aired = [k \in Packets |-> 0]
    BY DEF Init
  <1>7. Ghosts
    BY <1>6, PathFrames DEF Ghosts
  <1>8. \A k \in Packets : Count(txq, k) = 0
    <2>1. \A k \in Packets : Having(txq, k) = {}
      BY <1>2 DEF Having
    <2> QED
      BY <2>1, FS_EmptySet DEF Count
  <1>9. \A k \in Packets : InBudget(k)
    BY <1>1, <1>6, <1>8 DEF InBudget
  <1>10. HeardAfterSent
    BY <1>2, <1>3 DEF HeardAfterSent
  <1>11. Own \subseteq Packets
    BY DEF Packets
  <1>12. Answered
    BY <1>1, <1>6, <1>11 DEF Answered
  <1> QED
    BY <1>2, <1>3, <1>5, <1>7, <1>9, <1>10, <1>12 DEF PathInv, Reported

LEMMA NextKeeps ==
  ASSUME PathInv, [Next]_vars
  PROVE  PathInv' /\ QuietStep /\ StrandStep
  <1>1. CASE UNCHANGED vars
    <2>1. UNCHANGED <<txq, rxq, inFlight, txFailure, rxRestart, mode, report>>
          /\ UNCHANGED <<rtr, phase, heard, faults, sent, aired, answered, copyHeard>>
      BY <1>1 DEF vars, slotVars, pathVars
    <2>2. Ground /\ Good(rtr) /\ rtr.cancels \cap Uni = {}
      BY DEF PathInv, Ground
    <2>3. StepEffect
      BY <2>1, <2>2, EasesSelf, EasedStep
    <2> QED
      BY <2>1, <2>3, PollKeeps DEF PathInv, Ghosts
  <1>2. CASE Next
    BY <1>2, PollsKeep, CallServiceKeeps, HandleRxKeeps, FinishKeeps DEF Next
  <1> QED
    BY <1>1, <1>2

(* The invariant holds of every behaviour of the transmit path. *)
THEOREM PathInvariant == Spec => []PathInv
  <1>1. Init => PathInv
    BY InitKeeps
  <1>2. PathInv /\ [Next]_vars => PathInv'
    BY NextKeeps
  <1> QED
    BY <1>1, <1>2, PTL DEF Spec

(* The tables and queues of router, slot and radio loop stay within their  *)
(* sizes and types.                                                        *)
THEOREM PathTypes == Spec => []TypeOK
  <1>1. PathInv => TypeOK
    BY DEF PathInv, Ground, Ghosts, Good, Bounded, TypeOK
  <1> QED
    BY <1>1, PathInvariant, PTL

(* Every transmission was decided on: frames sent, queued, deferred, still *)
(* to be retried or insured never exceed what was planned for the packet,  *)
(* through rejected retries, requeued frames and fresh plans.              *)
THEOREM BudgetKept == Spec => []AttemptBudget
  <1>1. PathInv => AttemptBudget
    <2> SUFFICES ASSUME PathInv, NEW k \in Packets
                 PROVE  aired[k] + Queued(k) + Cardinality({k} \cap rtr.pending) + RetriesLeft(k) + ArmedT1(k)
                          <= rtr.planned[k]
      BY DEF AttemptBudget
    <2>1. Cardinality({k} \cap rtr.pending) = Waits(rtr, k)
      <3>1. CASE k \in rtr.pending
        <4>1. {k} \cap rtr.pending = {k} /\ Cardinality({k}) = 1
          BY <3>1, FS_Singleton
        <4> QED
          BY <3>1, <4>1 DEF Waits
      <3>2. CASE k \notin rtr.pending
        <4>1. {k} \cap rtr.pending = {} /\ Cardinality({}) = 0
          BY <3>2, FS_EmptySet
        <4> QED
          BY <3>2, <4>1 DEF Waits
      <3> QED
        BY <3>1, <3>2
    <2>2. /\ Queued(k) = Count(txq, k) /\ RetriesLeft(k) = Tries(rtr, k)
          /\ ArmedT1(k) = Cardinality(Armed(rtr, k))
      BY DEF Queued, Count, Having, RetriesLeft, Tries, ArmedT1, Armed
    <2>3. /\ aired[k] \in Nat /\ Count(txq, k) \in Nat /\ rtr.planned[k] \in Nat
          /\ rtr \in RouterType
      BY GroundFacts DEF PathInv, Ghosts
    <2>4. Waits(rtr, k) \in Nat /\ Tries(rtr, k) \in Nat /\ Cardinality(Armed(rtr, k)) \in Nat
      BY <2>3, LeftType
    <2>5. aired[k] + Count(txq, k) + (Waits(rtr, k) + Tries(rtr, k) + Cardinality(Armed(rtr, k)))
            <= rtr.planned[k]
      BY DEF PathInv, InBudget, Left
    <2> QED
      BY <2>1, <2>2, <2>3, <2>4, <2>5
  <1> QED
    BY <1>1, PathInvariant, PTL

(* After an answer no further copy of a unicast enters the radio queue     *)
(* until the packet is planned again.                                      *)
THEOREM AnsweredIsQuiet == Spec => AnsweredStaysQuiet
  <1>1. PathInv /\ [Next]_vars =>
          [\A k \in answered \cap answered' \cap (Unicasts \cup OwnUnicasts) : Queued(k)' <= Queued(k)]_vars
    BY NextKeeps DEF QuietStep, Uni, Count, Having, Queued
  <1> QED
    BY <1>1, PathInvariant, PTL DEF Spec, AnsweredStaysQuiet

(* A reliable slot loses the frame it waits for in two ways only: a        *)
(* cancellation pulls it out of the queue, or poll_recv() fails in the     *)
(* call in which its transmission completed.                               *)
THEOREM StrandedTwoWays == Spec => StrandedOnlyByCancelOrSwallow
  <1>1. PathInv /\ [Next]_vars =>
          [\A k \in Packets : ~Stranded(k) /\ Stranded(k)' =>
             \/ Queued(k) > 0 /\ Queued(k)' = 0 /\ phase = "after"
             \/ inFlight # None /\ inFlight.key = k /\ report'.res = "Hardware"]_vars
    BY NextKeeps DEF StrandStep, Count, Having, Queued
  <1> QED
    BY <1>1, PathInvariant, PTL DEF Spec, StrandedOnlyByCancelOrSwallow

-----------------------------------------------------------------------------
(***************************************************************************)
(* The insurance of a relayed broadcast.  What n queued frames of k, t     *)
(* frames of it on the air or just sent, and the copies heard (C) say of   *)
(* the T1 slots: nothing was armed or sent before the packet was planned   *)
(* for good; one slot at most names it; an armed slot has no frame out and *)
(* no copy was heard; a free slot has no frame in the queue; and a slot    *)
(* with a frame in the queue is one whose packet nobody was heard sending. *)
(***************************************************************************)
Names(r, k) == {i \in T1Index : r.t1[i].key = k}
Unplanned(r, k) == k \notin r.history \/ k \in r.pending
OneSlot(r, k) == \A i, j \in Names(r, k) : i = j
Insured(r, k, n, t, C) ==
  /\ k \in r.pending => k \in r.history
  /\ Unplanned(r, k) => Names(r, k) = {} /\ n + t = 0
  /\ OneSlot(r, k)
  /\ \A i \in Names(r, k) :
       /\ n + t <= 1 /\ (n > 0 => k \notin C)
       /\ r.t1[i].st = "armed" => n + t = 0 /\ k \notin C
       /\ r.t1[i].st = "free" => n = 0

(* s knows no more of k's insurance than r does. *)
Leaves(r, s, k) ==
  /\ (k \in s.history <=> k \in r.history) /\ (k \in s.pending => k \in r.pending)
  /\ \A i \in T1Index : s.t1[i].key = k => s.t1[i] = r.t1[i]

LEMMA LeavesInsured ==
  ASSUME NEW r, NEW s, NEW k, NEW n \in Nat, NEW t \in Nat, NEW m \in Nat, NEW u \in Nat,
         NEW C, NEW D,
         Insured(r, k, n, t, C), Leaves(r, s, k), m <= n, m + u <= n + t, k \in D => k \in C
  PROVE  Insured(s, k, m, u, D)
  <1>1. \A i \in Names(s, k) : i \in Names(r, k) /\ s.t1[i] = r.t1[i]
    BY DEF Leaves, Names
  <1>2. Unplanned(s, k) => Unplanned(r, k)
    BY DEF Leaves, Unplanned
  <1>3. Unplanned(s, k) => Names(s, k) = {} /\ m + u = 0
    BY <1>1, <1>2 DEF Insured
  <1>4. ASSUME NEW i \in Names(s, k)
        PROVE  /\ m + u <= 1 /\ (m > 0 => k \notin D)
               /\ s.t1[i].st = "armed" => m + u = 0 /\ k \notin D
               /\ s.t1[i].st = "free" => m = 0
    BY <1>1, <1>4 DEF Insured
  <1>5. k \in s.pending => k \in s.history
    BY DEF Leaves, Insured
  <1>6. OneSlot(s, k)
    BY <1>1 DEF Insured, OneSlot
  <1> QED
    BY <1>3, <1>4, <1>5, <1>6 DEF Insured

(* The operations that touch neither the insurance nor the history. *)
Plain(r, s) ==
  /\ s \in RouterType /\ s.t1 = r.t1 /\ s.history = r.history
  /\ s.pending \subseteq r.pending /\ r.cancels \subseteq s.cancels

LEMMA PlainLeaves ==
  ASSUME NEW r, NEW s, Plain(r, s), NEW k
  PROVE  Leaves(r, s, k)
  BY DEF Plain, Leaves

LEMMA PlainThen ==
  ASSUME NEW r, NEW s, NEW t, Plain(r, s), Plain(s, t)
  PROVE  Plain(r, t)
  BY DEF Plain

LEMMA PlainOps ==
  ASSUME NEW r \in RouterType, NEW k \in Packets
  PROVE  /\ Plain(r, r) /\ Plain(r, CancelPending(r, k)) /\ Plain(r, CancelRelay(r, k))
         /\ Plain(r, NoteTxCancel(r, k)) /\ Plain(r, StopReliable(r, k))
  <1>1. Plain(r, r)
    BY DEF Plain
  <1>2. Plain(r, CancelPending(r, k))
    BY DEF Plain, CancelPending, RouterType
  <1>3. Plain(r, CancelRelay(r, k))
    BY DEF Plain, CancelRelay, RouterType
  <1>4. Plain(r, NoteTxCancel(r, k))
    BY DEF Plain, NoteTxCancel, RouterType
  <1>5. Plain(r, StopReliable(r, k))
    BY DEF Plain, StopReliable, RouterType
  <1> QED
    BY <1>1, <1>2, <1>3, <1>4, <1>5

(* cancel_t1_retransmit frees the slot of k and has its frame pulled. *)
Freed(r, s, k) ==
  /\ s.history = r.history /\ (k \in s.pending => k \in r.pending)
  /\ \A i \in Names(s, k) : i \in Names(r, k) /\ s.t1[i].st = "free"
  /\ (\E i \in Names(r, k) : r.t1[i].st = "fired") => k \in s.cancels

LEMMA CancelT1Frees ==
  ASSUME NEW r \in RouterType, NEW k \in Packets, NEW s, s = CancelT1(r, k)
  PROVE  /\ s \in RouterType /\ s.pending = r.pending /\ s.history = r.history
         /\ OneSlot(r, k) => Freed(r, s, k)
         /\ \A j \in Packets \ {k} : Leaves(r, s, j)
  <1> DEFINE t == [i \in T1Index |-> IF i \in FirstT1Of(r, k) THEN [r.t1[i] EXCEPT !.st = "free"] ELSE r.t1[i]]
  <1>1. r.t1 \in [T1Index -> T1Slots] /\ t \in [T1Index -> T1Slots]
    BY DEF RouterType, T1Slots
  <1>2. ASSUME OneSlot(r, k)
        PROVE  FirstT1Of(r, k) = Names(r, k)
    <2>1. ASSUME NEW i \in Names(r, k), NEW j \in 1..(i - 1), r.t1[j].key = k PROVE FALSE
      <3>1. i \in T1Index /\ i \in Nat /\ j \in T1Index /\ j < i
        BY <2>1, RouterSizes DEF Names, T1Index
      <3> QED
        BY <1>2, <2>1, <3>1 DEF Names, OneSlot
    <2> QED
      BY <2>1 DEF FirstT1Of, Names
  <1>3. /\ \A i \in T1Index : t[i].key = r.t1[i].key
        /\ \A i \in FirstT1Of(r, k) : i \in Names(r, k) /\ t[i].st = "free"
        /\ \A i \in T1Index \ Names(r, k) : t[i] = r.t1[i]
    BY <1>1 DEF T1Slots, Names, FirstT1Of
  <1>4. /\ s.pending = r.pending /\ s.history = r.history /\ s.t1 = t
        /\ s.cancels = IF \E i \in FirstT1Of(r, k) : r.t1[i].st = "fired" THEN r.cancels \cup {k} ELSE r.cancels
    BY DEF CancelT1, RouterType
  <1>5. s \in RouterType
    <2> DEFINE w == IF \E i \in FirstT1Of(r, k) : r.t1[i].st = "fired" THEN r.cancels \cup {k} ELSE r.cancels
    <2>1. s = [r EXCEPT !.t1 = t, !.cancels = w]
      BY DEF CancelT1, RouterType
    <2>2. w \in SUBSET Packets
      BY RouterFields
    <2> HIDE DEF w, t
    <2> QED
      BY <1>1, <2>1, <2>2 DEF RouterType
  <1> HIDE DEF t
  <1>6. OneSlot(r, k) => Freed(r, s, k)
    BY <1>2, <1>3, <1>4 DEF Freed, Names
  <1>7. \A j \in Packets \ {k} : Leaves(r, s, j)
    BY <1>3, <1>4 DEF Leaves, Names
  <1> QED
    BY <1>4, <1>5, <1>6, <1>7

LEMMA FreedAround ==
  ASSUME NEW r, NEW u, NEW v, NEW s, NEW k, Plain(r, u), Freed(u, v, k), Plain(v, s)
  PROVE  Freed(r, s, k)
  BY DEF Plain, Freed, Names

LEMMA LeavesAround ==
  ASSUME NEW r, NEW u, NEW v, NEW s, NEW k, Plain(r, u), Leaves(u, v, k), Plain(v, s)
  PROVE  Leaves(r, s, k)
  BY DEF Plain, Leaves

(* perhaps_cancel_dupe of a broadcast frees its insurance, or leaves it    *)
(* alone because its relay is still pending.                               *)
LEMMA CancelDupeT1 ==
  ASSUME NEW r \in RouterType, NEW k \in Packets, NEW v, NEW s, s = PerhapsCancelDupe(r, k, v)
  PROVE  /\ k \in Broadcasts /\ OneSlot(r, k) => Freed(r, s, k) \/ (s = r /\ k \in r.pending)
         /\ \A j \in Packets \ {k} : Leaves(r, s, j)
  <1> DEFINE d == CancelPending(CancelRelay(r, k), k)
             n == NoteTxCancel(d, k)
             t == CancelT1(r, k)
             Frees(u) == (OneSlot(r, k) => Freed(r, u, k)) /\ \A j \in Packets \ {k} : Leaves(r, u, j)
  <1>1. Plain(r, r) /\ Plain(r, CancelRelay(r, k)) /\ CancelRelay(r, k) \in RouterType
    BY PlainOps DEF Plain
  <1>2. Plain(CancelRelay(r, k), d) /\ d \in RouterType
    BY <1>1, PlainOps DEF Plain
  <1>3. Plain(d, n) /\ n \in RouterType
    BY <1>2, PlainOps DEF Plain
  <1>4. Plain(r, d) /\ Plain(r, n)
    BY <1>1, <1>2, <1>3, PlainThen
  <1>5. ASSUME NEW u, Plain(r, u)
        PROVE  Frees(CancelT1(u, k)) /\ CancelT1(u, k) \in RouterType
    <2> DEFINE w == CancelT1(u, k)
    <2>1. u \in RouterType /\ (OneSlot(r, k) => OneSlot(u, k))
      BY <1>5 DEF Plain, Names, OneSlot
    <2>2. w \in RouterType /\ (OneSlot(u, k) => Freed(u, w, k)) /\ \A j \in Packets \ {k} : Leaves(u, w, j)
      BY <2>1, CancelT1Frees
    <2> HIDE DEF w
    <2>3. Plain(w, w)
      BY <2>2, PlainOps
    <2>4. Frees(w)
      BY <1>5, <2>1, <2>2, <2>3, FreedAround, LeavesAround
    <2> QED
      BY <2>2, <2>4 DEF w
  <1>6. Frees(t) /\ Frees(CancelT1(d, k)) /\ Frees(CancelT1(n, k)) /\ t \in RouterType
    BY <1>1, <1>4, <1>5
  <1>7. Frees(NoteTxCancel(CancelRelay(t, k), k))
    <2> DEFINE a == CancelRelay(t, k)
               b == NoteTxCancel(a, k)
    <2>1. Plain(t, a) /\ a \in RouterType
      BY <1>6, PlainOps DEF Plain
    <2>2. Plain(t, b)
      BY <2>1, PlainOps, PlainThen
    <2> HIDE DEF a, b, t
    <2> QED
      BY <1>1, <1>6, <2>2, FreedAround, LeavesAround DEF a, b
  <1>8. k \in Broadcasts => k \notin Unicasts \cup OwnUnicasts
    BY PacketClasses DEF Own
  <1>9. \/ s = n /\ k \notin Broadcasts
        \/ s = r /\ (k \in r.pending \/ k \notin Broadcasts)
        \/ s = t \/ s = NoteTxCancel(CancelRelay(t, k), k)
        \/ s = CancelT1(n, k) \/ s = CancelT1(d, k) \/ s = CancelT1(r, k)
    BY <1>8, Zenon DEF PerhapsCancelDupe
  <1>10. \A j \in Packets : Leaves(r, r, j) /\ Leaves(r, n, j)
    BY <1>1, <1>4, PlainLeaves
  <1> HIDE DEF n, d, t
  <1> QED
    BY <1>6, <1>7, <1>9, <1>10 DEF t

(* handle_duplicate_rx. *)
LEMMA DuplicateT1 ==
  ASSUME NEW r \in RouterType, NEW k \in Packets,
         NEW zeroHops \in BOOLEAN, NEW v, NEW s, s = HandleDuplicate(r, k, zeroHops, v)
  PROVE  /\ k \in Broadcasts /\ OneSlot(r, k) => Freed(r, s, k) \/ (s = r /\ (k \in r.pending \/ zeroHops))
         /\ \A j \in Packets \ {k} : Leaves(r, s, j)
  <1> DEFINE d == StopReliable(r, k)
  <1>1. Plain(r, d) /\ d \in RouterType /\ Plain(r, r)
    BY PlainOps DEF Plain
  <1>3. k \in Broadcasts => k \notin Own /\ k \notin Unicasts
    BY PacketClasses
  <1>4. \/ s = PerhapsCancelDupe(r, k, v)
        \/ s = PerhapsCancelDupe(d, k, v) /\ k \notin Broadcasts
        \/ s = r /\ (zeroHops \/ k \notin Broadcasts)
        \/ s = d /\ k \notin Broadcasts
    BY <1>3, Zenon DEF HandleDuplicate
  <1> HIDE DEF d
  <1>5. \A j \in Packets : Leaves(r, r, j) /\ Leaves(r, d, j)
    BY <1>1, PlainLeaves
  <1>6. CASE s = PerhapsCancelDupe(r, k, v)
    BY <1>6, CancelDupeT1
  <1>7. CASE s = PerhapsCancelDupe(d, k, v) /\ k \notin Broadcasts
    <2>1. \A j \in Packets \ {k} : Leaves(d, s, j)
      BY <1>1, <1>7, CancelDupeT1
    <2> QED
      BY <1>1, <1>7, <2>1 DEF Leaves, Plain
  <1> QED
    BY <1>4, <1>5, <1>6, <1>7

(* schedule_t1_broadcast: one armed slot for k, paid for, or no change. *)
LEMMA ScheduleT1Names ==
  ASSUME NEW r \in RouterType, NEW k \in Packets, NEW s, s = ScheduleT1(r, k)
  PROVE  /\ s \in RouterType /\ s.pending = r.pending /\ s.history = r.history
         /\ \A j \in Packets \ {k} : Leaves(r, s, j)
         /\ Names(r, k) = {} =>
              \/ Names(s, k) = {}
              \/ /\ \A i, j \in Names(s, k) : i = j /\ s.t1[i].st = "armed"
                 /\ s.planned[k] # r.planned[k]
  <1>1. r.t1 \in [T1Index -> T1Slots] /\ r.planned \in [Packets -> Nat]
    BY RouterFields
  <1>2. CASE \E i \in T1Index : r.t1[i] = [key |-> k, st |-> "armed"]
    <2>1. s = r /\ Names(r, k) # {}
      BY <1>2 DEF ScheduleT1, Names
    <2> QED
      BY <2>1 DEF Leaves
  <1>3. CASE ~\E i \in T1Index : r.t1[i] = [key |-> k, st |-> "armed"]
    <2> DEFINE slot == [key |-> k, st |-> "armed"]
               t == [i \in T1Index |-> IF i \in FirstFreeT1(r) THEN slot ELSE r.t1[i]]
               p == [r.planned EXCEPT ![k] = IF FirstFreeT1(r) = {} THEN @ ELSE @ + 1]
    <2>1. slot \in T1Slots /\ slot.key = k /\ slot.st = "armed"
      BY DEF T1Slots
    <2>2. s = [r EXCEPT !.t1 = t, !.planned = p]
      BY <1>1, <1>3 DEF ScheduleT1, RouterType
    <2> HIDE DEF slot
    <2>3. t \in [T1Index -> T1Slots] /\ p \in [Packets -> Nat]
      BY <1>1, <2>1
    <2>4. \A i \in T1Index : t[i] = IF i \in FirstFreeT1(r) THEN slot ELSE r.t1[i]
      OBVIOUS
    <2>5. p[k] = IF FirstFreeT1(r) = {} THEN r.planned[k] ELSE r.planned[k] + 1
      BY <1>1
    <2> HIDE DEF t, p
    <2>6. /\ s \in RouterType /\ s.pending = r.pending /\ s.history = r.history
          /\ s.t1 = t /\ s.planned = p
      BY <2>2, <2>3 DEF RouterType
    <2>7. \A j \in Packets \ {k} : Leaves(r, s, j)
      BY <2>1, <2>4, <2>6 DEF Leaves
    <2>8. ASSUME Names(r, k) = {}
          PROVE  Names(s, k) = FirstFreeT1(r) /\ \A i \in Names(s, k) : s.t1[i].st = "armed"
      BY <2>1, <2>4, <2>6, <2>8 DEF Names, FirstFreeT1
    <2>9. \A i, j \in FirstFreeT1(r) : i = j
      <3>1. ASSUME NEW i \in FirstFreeT1(r), NEW j \in FirstFreeT1(r), i < j PROVE FALSE
        <4>1. i \in T1Index /\ j \in T1Index /\ i \in Nat /\ j \in Nat /\ i >= 1
          BY RouterSizes DEF FirstFreeT1, T1Index
        <4>2. i \in 1..(j - 1)
          BY <3>1, <4>1
        <4> QED
          BY <4>2 DEF FirstFreeT1
      <3>2. FirstFreeT1(r) \subseteq Nat
        BY RouterSizes DEF FirstFreeT1, T1Index
      <3>3. \A i, j \in FirstFreeT1(r) : ~(i < j) /\ i \in Nat /\ j \in Nat
        BY <3>1, <3>2
      <3> QED
        BY <3>3
    <2>10. FirstFreeT1(r) = {} \/ s.planned[k] # r.planned[k]
      BY <1>1, <2>5, <2>6
    <2> QED
      BY <2>6, <2>7, <2>8, <2>9, <2>10
  <1> QED
    BY <1>2, <1>3

(* evaluate_tx_plan of a broadcast that has no insurance yet. *)
PlansT1(r, out, k) ==
  /\ k \in out.r.history
  /\ \/ Names(out.r, k) = {} /\ ~(k \in out.r.pending /\ out.relay)
     \/ /\ \A i, j \in Names(out.r, k) : i = j /\ out.r.t1[i].st = "armed"
        /\ out.r.planned[k] # r.planned[k] /\ k \notin out.r.pending /\ ~out.relay

LEMMA ArmPlain ==
  ASSUME NEW r, NEW k, NEW named, NEW redirect, NEW retx,
         r \in RouterType
  PROVE  /\ ScheduleReliable(r, k, named, redirect, retx).t1 = r.t1
         /\ ScheduleReliable(r, k, named, redirect, retx).history = r.history
         /\ ScheduleReliable(r, k, named, redirect, retx).pending = r.pending
  BY DEF ScheduleReliable, RouterType

LEMMA PlanT1 ==
  ASSUME NEW r \in RouterType, NEW k \in Packets, NEW out \in Plans(r, k)
  PROVE  /\ \A j \in Packets \ {k} : Leaves(r, out.r, j)
         /\ k \in Broadcasts /\ Names(r, k) = {} /\ k \in r.history /\ k \notin r.pending =>
              PlansT1(r, out, k)
  <1> DEFINE c == [CommitRelay(r, k) EXCEPT !.planned[k] = @ + 1]
  <1>1. \/ out = Result(r)
        \/ out = Result(ScheduleT1(r, k))
        \/ CanDefer(c, k) /\ out = Result(StorePending(c, k))
        \/ ~CanDefer(c, k) /\ \E f \in FollowUps : out = [r |-> ArmFollowUp(c, k, f), relay |-> TRUE]
    BY DEF Plans
  <1>2. c \in RouterType /\ c.t1 = r.t1 /\ c.history = r.history /\ c.pending = r.pending
    <2> DEFINE m == CommitRelay(r, k)
    <2>1. m \in RouterType /\ m.t1 = r.t1 /\ m.history = r.history /\ m.pending = r.pending
      BY DEF CommitRelay, RouterType
    <2> HIDE DEF m
    <2>2. [m.planned EXCEPT ![k] = @ + 1] \in [Packets -> Nat]
      BY <2>1, RouterFields
    <2>3. c = [m EXCEPT !.planned = [m.planned EXCEPT ![k] = @ + 1]]
      BY <2>1 DEF m, RouterType
    <2> QED
      BY <2>1, <2>2, <2>3 DEF RouterType
  <1> HIDE DEF c
  <1>3. CASE out = Result(r)
    BY <1>3 DEF Result, Leaves, PlansT1
  <1>4. CASE out = Result(ScheduleT1(r, k))
    <2> DEFINE s == ScheduleT1(r, k)
    <2>1. out.r = s /\ out.relay = FALSE
      BY <1>4 DEF Result
    <2>2. /\ s \in RouterType /\ s.pending = r.pending /\ s.history = r.history
          /\ \A j \in Packets \ {k} : Leaves(r, s, j)
          /\ Names(r, k) = {} =>
               \/ Names(s, k) = {}
               \/ /\ \A i, j \in Names(s, k) : i = j /\ s.t1[i].st = "armed"
                  /\ s.planned[k] # r.planned[k]
      BY ScheduleT1Names
    <2> HIDE DEF s
    <2> QED
      BY <2>1, <2>2 DEF PlansT1
  <1>5. CASE CanDefer(c, k) /\ out = Result(StorePending(c, k))
    <2>1. /\ out.r.t1 = r.t1 /\ out.r.history = r.history /\ out.r.pending = r.pending \cup {k}
          /\ out.relay = FALSE
      BY <1>2, <1>5 DEF Result, StorePending, RouterType
    <2> QED
      BY <2>1 DEF Leaves, PlansT1, Names
  <1>6. CASE ~CanDefer(c, k) /\ \E f \in FollowUps : out = [r |-> ArmFollowUp(c, k, f), relay |-> TRUE]
    <2>1. PICK f \in FollowUps : out = [r |-> ArmFollowUp(c, k, f), relay |-> TRUE]
      BY <1>6
    <2> DEFINE yes == TRUE
    <2>2. out.r = c \/ out.r = ScheduleReliable(c, k, yes, f.redirect, f.retx)
      BY <2>1 DEF ArmFollowUp
    <2> HIDE DEF yes
    <2>3. out.r.t1 = r.t1 /\ out.r.history = r.history /\ out.r.pending = r.pending
      <3> DEFINE a == ScheduleReliable(c, k, yes, f.redirect, f.retx)
      <3>1. a.t1 = c.t1 /\ a.history = c.history /\ a.pending = c.pending
        BY <1>2, ArmPlain
      <3> HIDE DEF a
      <3> QED
        BY <1>2, <2>2, <3>1 DEF a
    <2> QED
      BY <2>3 DEF Leaves, PlansT1, Names
  <1> QED
    BY <1>1, <1>3, <1>4, <1>5, <1>6

(* What handling a received frame that names k does to the insurance of a  *)
(* broadcast: to k's, and to every other's.                                *)
HandleT1(r, out, k, copy) ==
  /\ \A j \in Packets \ {k} : Leaves(r, out.r, j)
  /\ k \in Broadcasts =>
       \/ Leaves(r, out.r, k) /\ ~out.relay /\ (copy => Names(out.r, k) = {})
       \/ Freed(r, out.r, k) /\ ~out.relay
       \/ Unplanned(r, k) /\ PlansT1(r, out, k)

LEMMA CopyT1 ==
  ASSUME NEW r \in RouterType, NEW k \in Packets, NEW zeroHops \in BOOLEAN,
         NEW out \in HandleCopy(r, k, zeroHops),
         k \in Broadcasts => /\ OneSlot(r, k) /\ (k \in r.pending => k \in r.history)
                             /\ Unplanned(r, k) => Names(r, k) = {}
  PROVE  HandleT1(r, out, k, ~zeroHops)
  <1>1. CASE k \notin r.history
    <2> DEFINE s == [r EXCEPT !.history = @ \cup {k}]
    <2>1. /\ s \in RouterType /\ s.pending = r.pending /\ s.t1 = r.t1
          /\ s.history = r.history \cup {k} /\ s.planned = r.planned
      BY DEF RouterType
    <2>2. out \in Plans(s, k)
      BY <1>1 DEF HandleCopy
    <2> HIDE DEF s
    <2>3. /\ \A j \in Packets \ {k} : Leaves(s, out.r, j)
          /\ k \in Broadcasts /\ Names(s, k) = {} /\ k \in s.history /\ k \notin s.pending =>
               PlansT1(s, out, k)
      BY <2>1, <2>2, PlanT1
    <2>4. k \in Broadcasts => Names(s, k) = {} /\ k \notin s.pending /\ Unplanned(r, k)
      BY <1>1, <2>1 DEF Names, Unplanned
    <2>5. \A j \in Packets \ {k} : Leaves(r, out.r, j)
      BY <2>1, <2>3 DEF Leaves
    <2>6. k \in Broadcasts => PlansT1(r, out, k)
      BY <2>1, <2>3, <2>4 DEF PlansT1
    <2> QED
      BY <2>4, <2>5, <2>6 DEF HandleT1
  <1>2. ASSUME k \in r.history, out \in Duplicates(r, k, zeroHops)
        PROVE  HandleT1(r, out, k, ~zeroHops)
    <2>1. PICK v \in Verdicts : out = Result(HandleDuplicate(r, k, zeroHops, v))
      BY <1>2 DEF Duplicates
    <2> DEFINE s == HandleDuplicate(r, k, zeroHops, v)
    <2>2. out.r = s /\ out.relay = FALSE
      BY <2>1 DEF Result
    <2>3. /\ k \in Broadcasts /\ OneSlot(r, k) => Freed(r, s, k) \/ (s = r /\ (k \in r.pending \/ zeroHops))
          /\ \A j \in Packets \ {k} : Leaves(r, s, j)
      BY DuplicateT1
    <2> HIDE DEF s
    <2>4. k \in r.pending /\ k \in Broadcasts => Names(r, k) = {}
      BY DEF Unplanned
    <2>5. Leaves(r, r, k)
      BY DEF Leaves
    <2> QED
      BY <2>2, <2>3, <2>4, <2>5 DEF HandleT1
  <1>3. ASSUME k \in r.history, out \in Repeats(r, k)
        PROVE  HandleT1(r, out, k, ~zeroHops)
    <2> DEFINE a == CancelPending(r, k)
               b == CancelRelay(a, k)
               s == StopReliable(b, k)
    <2>1. Plain(r, a) /\ a \in RouterType
      BY PlainOps DEF Plain
    <2>2. Plain(a, b) /\ b \in RouterType
      BY <2>1, PlainOps DEF Plain
    <2>3. Plain(b, s) /\ s \in RouterType
      BY <2>2, PlainOps DEF Plain
    <2>4. out \in Plans(s, k) /\ k \in Unicasts
      BY <1>3 DEF Repeats, Forget
    <2> HIDE DEF a, b, s
    <2>5. Plain(r, s)
      BY <2>1, <2>2, <2>3, PlainThen
    <2>6. \A j \in Packets \ {k} : Leaves(s, out.r, j)
      BY <2>3, <2>4, PlanT1
    <2>7. k \notin Broadcasts
      BY <2>4, PacketClasses
    <2>8. \A j \in Packets \ {k} : Leaves(r, out.r, j)
      BY <2>5, <2>6 DEF Plain, Leaves
    <2> QED
      BY <2>7, <2>8 DEF HandleT1
  <1>4. ASSUME k \in r.history, out \in Upgrades(r, k)
        PROVE  HandleT1(r, out, k, ~zeroHops)
    <2> DEFINE a == CancelPending(r, k)
               b == CancelRelay(a, k)
               s == NoteTxCancel(b, k)
    <2>1. Plain(r, a) /\ a \in RouterType
      BY PlainOps DEF Plain
    <2>2. Plain(a, b) /\ b \in RouterType
      BY <2>1, PlainOps DEF Plain
    <2>3. Plain(b, s) /\ s \in RouterType
      BY <2>2, PlainOps DEF Plain
    <2>4. out \in Plans(s, k) /\ k \in r.pending
      BY <1>4 DEF Upgrades, Forget
    <2>5. s.pending = r.pending \ {k} /\ s.planned = r.planned
      BY DEF NoteTxCancel, CancelRelay, CancelPending, RouterType
    <2> HIDE DEF a, b, s
    <2>6. Plain(r, s)
      BY <2>1, <2>2, <2>3, PlainThen
    <2>7. k \in Broadcasts => Names(s, k) = {} /\ k \in s.history /\ k \notin s.pending /\ Unplanned(r, k)
      BY <1>4, <2>4, <2>5, <2>6 DEF Plain, Names, Unplanned
    <2>8. /\ \A j \in Packets \ {k} : Leaves(s, out.r, j)
          /\ k \in Broadcasts => PlansT1(s, out, k)
      BY <2>3, <2>4, <2>7, PlanT1
    <2>9. \A j \in Packets \ {k} : Leaves(r, out.r, j)
      BY <2>6, <2>8 DEF Plain, Leaves
    <2>10. k \in Broadcasts => PlansT1(r, out, k)
      BY <2>5, <2>8 DEF PlansT1
    <2> QED
      BY <2>7, <2>9, <2>10 DEF HandleT1
  <1> QED
    BY <1>1, <1>2, <1>3, <1>4 DEF HandleCopy

LEMMA ReplyT1 ==
  ASSUME NEW r \in RouterType, NEW k \in Packets, NEW out \in HandleReply(r, k)
  PROVE  HandleT1(r, out, k, FALSE)
  <1> DEFINE a == CancelPending(r, k)
             b == CancelRelay(a, k)
             c == NoteTxCancel(b, k)
  <1>1. Plain(r, a) /\ a \in RouterType
    BY PlainOps DEF Plain
  <1>2. Plain(a, b) /\ b \in RouterType
    BY <1>1, PlainOps DEF Plain
  <1>3. Plain(b, c) /\ c \in RouterType
    BY <1>2, PlainOps DEF Plain
  <1>4. Plain(c, StopReliable(c, k)) /\ Plain(a, StopReliable(a, k)) /\ Plain(r, StopReliable(r, k))
    BY <1>1, <1>3, PlainOps
  <1>5. Plain(r, StopReliable(c, k)) /\ Plain(r, StopReliable(a, k))
    BY <1>1, <1>2, <1>3, <1>4, PlainThen
  <1>6. \/ out = Result(StopReliable(r, k)) \/ out = Result(StopReliable(a, k))
        \/ out = Result(StopReliable(c, k))
    BY Zenon DEF HandleReply, ForeignReply
  <1> HIDE DEF a, b, c
  <1>7. Plain(r, out.r) /\ out.relay = FALSE
    BY <1>4, <1>5, <1>6 DEF Result
  <1>8. \A j \in Packets : Leaves(r, out.r, j)
    BY <1>7 DEF Plain, Leaves
  <1> QED
    BY <1>7, <1>8 DEF HandleT1

-----------------------------------------------------------------------------
(* The steps of the path and the insurance. *)
Sending(k) == IF inFlight # None /\ inFlight.key = k THEN 1 ELSE 0
Ended(k) == IF report.done # None /\ report.done.key = k THEN 1 ELSE 0
Insures(k) == Insured(rtr, k, Count(txq, k), Sending(k) + Ended(k), copyHeard)

LEMMA OutTypes ==
  ASSUME NEW k
  PROVE  /\ Sending(k) \in {0, 1} /\ Ended(k) \in {0, 1} /\ Sending(k) + Ended(k) \in Nat
         /\ Sending(k)' \in {0, 1} /\ Ended(k)' \in {0, 1} /\ Sending(k)' + Ended(k)' \in Nat
  BY DEF Sending, Ended

(* A step that leaves the insurance of k alone and adds no frame of it. *)
LEMMA LeftAlone ==
  ASSUME Ground, txq' \in Seq(TxFrames), NEW k \in Broadcasts, Insures(k), Leaves(rtr, rtr', k),
         Count(txq', k) <= Count(txq, k),
         Count(txq', k) + (Sending(k)' + Ended(k)') <= Count(txq, k) + (Sending(k) + Ended(k)),
         k \in copyHeard' => k \in copyHeard
  PROVE  Insures(k)'
  <1>1. Count(txq, k) \in Nat /\ Count(txq', k) \in Nat
    BY GroundFacts, HavingFinite DEF Count
  <1> QED
    BY <1>1, OutTypes, LeavesInsured DEF Insures

(* A frame of another packet joins the queue. *)
LEMMA HandedOther ==
  ASSUME Ground, NEW j \in Packets, NEW kind \in Kinds, Hand(Frame(j, kind)),
         NEW k \in Broadcasts, k # j, Insures(k), Leaves(rtr, rtr', k), copyHeard' = copyHeard
  PROVE  Insures(k)'
  <1>1. /\ txq' = Append(txq, Frame(j, kind)) /\ inFlight' = inFlight /\ report' = report
    BY DEF Hand, PushTx
  <1>2. /\ Frame(j, kind) \in TxFrames /\ Frame(j, kind).key = j
        /\ txq \in Seq(TxFrames) /\ Count(txq, k) \in Nat
    BY GroundFacts, HavingFinite DEF Count
  <1>3. txq' \in Seq(TxFrames) /\ Count(txq', k) = Count(txq, k)
    BY <1>1, <1>2, HavingAppend DEF Count
  <1>4. Sending(k)' = Sending(k) /\ Ended(k)' = Ended(k)
    BY <1>1 DEF Sending, Ended
  <1> QED
    BY <1>2, <1>3, <1>4, OutTypes, LeftAlone

LEMMA SendLocalT1 ==
  ASSUME Ground, NEW j \in Packets, SendLocal(j), NEW k \in Broadcasts, Insures(k)
  PROVE  Insures(k)'
  <1> DEFINE r == [rtr EXCEPT !.planned[j] = @ + 1]
             no == FALSE
  <1>1. rtr \in RouterType /\ rtr.planned \in [Packets -> Nat]
    BY GroundFacts
  <1>2. r \in RouterType /\ r.t1 = rtr.t1 /\ r.history = rtr.history /\ r.pending = rtr.pending
    <2> DEFINE p == [rtr.planned EXCEPT ![j] = @ + 1]
    <2>1. p \in [Packets -> Nat]
      BY <1>1
    <2>2. r = [rtr EXCEPT !.planned = p]
      BY <1>1 DEF RouterType
    <2> HIDE DEF p
    <2> QED
      BY <1>1, <2>1, <2>2 DEF RouterType
  <1>3. /\ j \in Own /\ Hand(Frame(j, "local")) /\ copyHeard' = copyHeard
        /\ rtr' = ScheduleReliable(r, j, no, no, NUM_RELIABLE_RETX) \/ rtr' = ScheduleT1(r, j)
    BY DEF SendLocal
  <1> HIDE DEF r, no
  <1>4. k # j /\ k \in Packets
    BY <1>3, PacketClasses DEF Packets
  <1>5. Leaves(r, rtr', k)
    <2>1. CASE rtr' = ScheduleT1(r, j)
      BY <1>2, <1>4, <2>1, ScheduleT1Names
    <2>2. CASE rtr' = ScheduleReliable(r, j, no, no, NUM_RELIABLE_RETX)
      BY <1>2, <2>2, ArmPlain DEF Leaves
    <2> QED
      BY <1>3, <2>1, <2>2
  <1>6. Leaves(rtr, rtr', k)
    BY <1>2, <1>5 DEF Leaves
  <1> QED
    BY <1>3, <1>4, <1>6, HandedOther DEF Kinds

LEMMA PollReadyRelayT1 ==
  ASSUME Ground, NEW j \in Packets, NEW f \in FollowUps, PollReadyRelay(j, f),
         NEW k \in Broadcasts, Insures(k)
  PROVE  Insures(k)'
  <1> DEFINE c == CancelPending(rtr, j)
             yes == TRUE
  <1>1. /\ j \in rtr.pending /\ Hand(Frame(j, "relay")) /\ copyHeard' = copyHeard
        /\ rtr' = c \/ rtr' = ScheduleReliable(c, j, yes, f.redirect, f.retx)
    BY DEF PollReadyRelay, ArmFollowUp
  <1>2. rtr \in RouterType
    BY GroundFacts
  <1>3. Plain(rtr, c) /\ c \in RouterType
    BY <1>2, PlainOps DEF Plain
  <1>4. c.pending = rtr.pending \ {j}
    BY <1>2 DEF CancelPending, RouterType
  <1> HIDE DEF c, yes
  <1>5. rtr'.t1 = rtr.t1 /\ rtr'.history = rtr.history /\ rtr'.pending = rtr.pending \ {j}
    <2>1. CASE rtr' = c
      BY <1>3, <1>4, <2>1 DEF Plain
    <2>2. CASE rtr' = ScheduleReliable(c, j, yes, f.redirect, f.retx)
      <3> DEFINE redirect == f.redirect
                 retx == f.retx
      <3>1. rtr' = ScheduleReliable(c, j, yes, redirect, retx)
        BY <2>2
      <3> HIDE DEF redirect, retx
      <3>2. rtr'.t1 = c.t1 /\ rtr'.history = c.history /\ rtr'.pending = c.pending
        BY <1>3, <3>1, ArmPlain
      <3> QED
        BY <1>3, <1>4, <3>2 DEF Plain
    <2> QED
      BY <1>1, <2>1, <2>2
  <1>6. CASE k = j
    <2>1. k \in rtr.history /\ Names(rtr, k) = {}
      BY <1>1, <1>6 DEF Insures, Insured, Unplanned
    <2>2. Names(rtr', k) = {} /\ ~Unplanned(rtr', k) /\ k \notin rtr'.pending
      BY <1>5, <1>6, <2>1 DEF Names, Unplanned
    <2> QED
      BY <2>2 DEF Insures, Insured, OneSlot
  <1>7. CASE k # j
    <2>1. Leaves(rtr, rtr', k)
      BY <1>5 DEF Leaves
    <2> QED
      BY <1>1, <1>7, <2>1, HandedOther DEF Kinds
  <1> QED
    BY <1>6, <1>7

(* A retry is a frame of a packet that is not a broadcast. *)
LEMMA PollRetransmitT1 ==
  ASSUME Ground, NEW j \in Packets, PollRetransmit(j), NEW k \in Broadcasts, Insures(k)
  PROVE  Insures(k)'
  <1>1. /\ rtr.rel[j] # NoSlot /\ Hand(Frame(j, "retx")) /\ copyHeard' = copyHeard
        /\ rtr' = Retransmit(rtr, j)
    BY DEF PollRetransmit, RetransmitDue
  <1>2. rtr \in RouterType
    BY GroundFacts
  <1>3. j \in Uni
    BY <1>1 DEF Ground, Good, Sorted
  <1>4. k # j
    BY <1>3, PacketClasses DEF Uni, Own
  <1>5. rtr'.t1 = rtr.t1 /\ rtr'.history = rtr.history /\ rtr'.pending = rtr.pending
    BY <1>1, <1>2 DEF Retransmit, RouterType
  <1>6. Leaves(rtr, rtr', k)
    BY <1>5 DEF Leaves
  <1> QED
    BY <1>1, <1>4, <1>6, HandedOther DEF Kinds

(* The polls that send nothing. *)
LEMMA QuietPollT1 ==
  ASSUME Ground, NEW j \in Packets,
         DropPending(j) \/ ReleaseReliable(j) \/ ExpireCommit(j) \/ ForgetOurTx(j),
         NEW k \in Broadcasts, Insures(k)
  PROVE  Insures(k)'
  <1>1. UNCHANGED slotVars /\ copyHeard' = copyHeard
    BY DEF DropPending, ReleaseReliable, ExpireCommit, ForgetOurTx, ghostVars
  <1>2. rtr \in RouterType
    BY GroundFacts
  <1>3. rtr'.t1 = rtr.t1 /\ rtr'.history = rtr.history /\ rtr'.pending \subseteq rtr.pending
    <2> DEFINE c == CancelPending(rtr, j)
    <2>1. c \in RouterType /\ Plain(rtr, c)
      BY <1>2, PlainOps DEF Plain
    <2>2. Plain(c, CancelRelay(c, j)) /\ Plain(rtr, CancelRelay(rtr, j))
      BY <1>2, <2>1, PlainOps
    <2>3. CASE DropPending(j)
      <3>1. rtr' = c \/ rtr' = CancelRelay(c, j)
        BY <2>3 DEF DropPending
      <3> HIDE DEF c
      <3> QED
        BY <2>1, <2>2, <3>1 DEF Plain
    <2>4. CASE ReleaseReliable(j)
      BY <1>2, <2>4 DEF ReleaseReliable, Retransmit, RouterType
    <2>5. CASE ExpireCommit(j)
      BY <2>2, <2>5 DEF ExpireCommit, Plain
    <2>6. CASE ForgetOurTx(j)
      BY <1>2, <2>6 DEF ForgetOurTx, RouterType
    <2> QED
      BY <2>3, <2>4, <2>5, <2>6
  <1>4. /\ txq' = txq /\ Sending(k)' = Sending(k) /\ Ended(k)' = Ended(k)
    BY <1>1 DEF slotVars, Sending, Ended
  <1>5. txq \in Seq(TxFrames) /\ Count(txq, k) \in Nat
    BY GroundFacts, HavingFinite DEF Count
  <1>6. Leaves(rtr, rtr', k)
    BY <1>3 DEF Leaves
  <1> QED
    BY <1>1, <1>4, <1>5, <1>6, OutTypes, LeftAlone

(* A slot changes its state and keeps its packet. *)
LEMMA SlotState ==
  ASSUME NEW r \in RouterType, NEW i \in T1Index, NEW st \in {"free", "fired"},
         NEW s, s = [r EXCEPT !.t1[i].st = st]
  PROVE  /\ s.pending = r.pending /\ s.history = r.history
         /\ \A j \in T1Index : s.t1[j].key = r.t1[j].key
         /\ s.t1[i].st = st /\ \A j \in T1Index \ {i} : s.t1[j] = r.t1[j]
  <1>1. r.t1 \in [T1Index -> T1Slots] /\ r.t1[i] \in T1Slots
    BY RouterFields
  <1> DEFINE n == [r.t1[i] EXCEPT !.st = st]
             t == [r.t1 EXCEPT ![i] = n]
  <1>2. s = [r EXCEPT !.t1 = t]
    BY <1>1 DEF RouterType
  <1>3. n.key = r.t1[i].key /\ n.st = st
    BY <1>1 DEF T1Slots
  <1> HIDE DEF n
  <1>4. t[i] = n /\ \A j \in T1Index \ {i} : t[j] = r.t1[j]
    BY <1>1
  <1> HIDE DEF t
  <1>5. s.pending = r.pending /\ s.history = r.history /\ s.t1 = t
    BY <1>2 DEF RouterType
  <1> QED
    BY <1>3, <1>4, <1>5

LEMMA PollT1T1 ==
  ASSUME Ground, NEW i \in T1Index, PollT1(i), NEW k \in Broadcasts, Insures(k)
  PROVE  Insures(k)'
  <1> DEFINE j == rtr.t1[i].key
  <1>1. /\ rtr \in RouterType /\ rtr.t1[i].st = "armed" /\ Hand(Frame(j, "t1"))
        /\ copyHeard' = copyHeard /\ rtr' = [rtr EXCEPT !.t1[i].st = "fired"]
    BY GroundFacts DEF PollT1, FireT1
  <1>2. j \in Packets
    <2>1. rtr.t1[i] \in T1Slots
      BY <1>1, RouterFields
    <2> QED
      BY <1>1, <2>1 DEF T1Slots, Ground, Good, Sorted
  <1>3. /\ rtr'.pending = rtr.pending /\ rtr'.history = rtr.history
        /\ \A m \in T1Index : rtr'.t1[m].key = rtr.t1[m].key
        /\ rtr'.t1[i].st = "fired" /\ \A m \in T1Index \ {i} : rtr'.t1[m] = rtr.t1[m]
    BY <1>1, SlotState
  <1>4. CASE k # j
    <2>1. Leaves(rtr, rtr', k)
      BY <1>3, <1>4 DEF Leaves
    <2> QED
      BY <1>1, <1>2, <1>4, <2>1, HandedOther DEF Kinds
  <1>5. CASE k = j
    <2>1. i \in Names(rtr, k)
      BY <1>5 DEF Names
    <2>2. /\ Count(txq, k) + (Sending(k) + Ended(k)) = 0 /\ k \notin copyHeard
          /\ ~Unplanned(rtr, k) /\ \A m \in Names(rtr, k) : m = i
      BY <1>1, <2>1 DEF Insures, Insured, OneSlot
    <2>3. /\ txq' = Append(txq, Frame(k, "t1")) /\ Sending(k)' = Sending(k) /\ Ended(k)' = Ended(k)
          /\ txq \in Seq(TxFrames) /\ Count(txq, k) \in Nat
      BY <1>1, <1>5, GroundFacts, HavingFinite DEF Hand, PushTx, Sending, Ended, Count
    <2>4. Frame(k, "t1") \in TxFrames /\ Frame(k, "t1").key = k
      BY <1>2, <1>5, GroundFacts DEF Kinds
    <2>5. Count(txq', k) = Count(txq, k) + 1
      BY <2>3, <2>4, HavingAppend DEF Count
    <2>6. Count(txq', k) + (Sending(k)' + Ended(k)') <= 1
      BY <2>2, <2>3, <2>5, OutTypes
    <2>7. Names(rtr', k) = Names(rtr, k)
      BY <1>3 DEF Names
    <2>8. ~Unplanned(rtr', k)
      BY <1>3, <2>2 DEF Unplanned
    <2> QED
      BY <1>1, <1>3, <2>2, <2>6, <2>7, <2>8 DEF Insures, Insured, OneSlot, Unplanned
  <1> QED
    BY <1>4, <1>5

LEMMA StandDownT1T1 ==
  ASSUME Ground, NEW i \in T1Index, StandDownT1(i), NEW k \in Broadcasts, Insures(k)
  PROVE  Insures(k)'
  <1> DEFINE j == rtr.t1[i].key
  <1>1. /\ rtr \in RouterType /\ rtr.t1[i].st = "armed" /\ UNCHANGED slotVars
        /\ copyHeard' = copyHeard /\ rtr' = [rtr EXCEPT !.t1[i].st = "free"]
    BY GroundFacts DEF StandDownT1, DropT1, ghostVars
  <1>2. /\ rtr'.pending = rtr.pending /\ rtr'.history = rtr.history
        /\ \A m \in T1Index : rtr'.t1[m].key = rtr.t1[m].key
        /\ rtr'.t1[i].st = "free" /\ \A m \in T1Index \ {i} : rtr'.t1[m] = rtr.t1[m]
    BY <1>1, SlotState
  <1>3. /\ txq' = txq /\ Sending(k)' = Sending(k) /\ Ended(k)' = Ended(k)
        /\ txq \in Seq(TxFrames) /\ Count(txq, k) \in Nat
    BY <1>1, GroundFacts, HavingFinite DEF slotVars, Sending, Ended, Count
  <1>4. CASE k # j
    <2>1. Leaves(rtr, rtr', k)
      BY <1>2, <1>4 DEF Leaves
    <2> QED
      BY <1>1, <1>3, <2>1, OutTypes, LeftAlone
  <1>5. CASE k = j
    <2>1. i \in Names(rtr, k)
      BY <1>5 DEF Names
    <2>2. /\ Count(txq, k) + (Sending(k) + Ended(k)) = 0 /\ k \notin copyHeard
          /\ ~Unplanned(rtr, k) /\ \A m \in Names(rtr, k) : m = i
      BY <1>1, <2>1 DEF Insures, Insured, OneSlot
    <2>3. Names(rtr', k) = Names(rtr, k)
      BY <1>2 DEF Names
    <2>4. ~Unplanned(rtr', k)
      BY <1>2, <2>2 DEF Unplanned
    <2>5. Count(txq, k) = 0
      BY <1>3, <2>2, OutTypes
    <2> QED
      BY <1>1, <1>2, <1>3, <2>2, <2>3, <2>4, <2>5 DEF Insures, Insured, OneSlot, Unplanned
  <1> QED
    BY <1>4, <1>5

(* The recheck pops the head and frees the slot that fired it. *)
LEMMA RecheckT1 ==
  ASSUME Ground, Recheck, NEW k \in Broadcasts, Insures(k)
  PROVE  Insures(k)'
  <1> DEFINE j == Head(txq).key
             r1 == CancelPending(rtr, j)
             r2 == CancelRelay(r1, j)
             r3 == CancelT1(r2, j)
             r4 == StopReliable(r3, j)
  <1>1. /\ txq # <<>> /\ txq' = Tail(txq) /\ inFlight' = inFlight /\ report' = report
        /\ copyHeard' = copyHeard /\ rtr' = NoteTxQueueRejected(r4, j)
    BY DEF Recheck, PopTx, ghostVars, DiscardQueuedForward
  <1>2. txq \in Seq(TxFrames) /\ rtr \in RouterType
    BY GroundFacts
  <1>3. Head(txq) \in TxFrames /\ Tail(txq) \in Seq(TxFrames)
    BY <1>1, <1>2, TailFacts
  <1>4. j \in Packets /\ k \in Packets
    BY <1>3, GroundFacts DEF Packets
  <1>5. /\ Count(txq, k) = Count(txq', k) + (IF j = k THEN 1 ELSE 0)
        /\ Count(txq, k) \in Nat /\ Count(txq', k) \in Nat
    BY <1>1, <1>2, <1>3, HavingTail, HavingFinite DEF Count
  <1>6. Sending(k)' = Sending(k) /\ Ended(k)' = Ended(k)
    BY <1>1 DEF Sending, Ended
  <1> HIDE DEF j
  <1>7. Plain(rtr, r1) /\ r1 \in RouterType
    BY <1>2, <1>4, PlainOps DEF Plain
  <1>8. Plain(r1, r2) /\ r2 \in RouterType
    BY <1>4, <1>7, PlainOps DEF Plain
  <1> HIDE DEF r1, r2
  <1>9. Plain(rtr, r2)
    BY <1>7, <1>8, PlainThen
  <1>10. /\ r3 \in RouterType /\ (OneSlot(r2, j) => Freed(r2, r3, j))
         /\ \A m \in Packets \ {j} : Leaves(r2, r3, m)
    BY <1>4, <1>8, CancelT1Frees
  <1> HIDE DEF r3
  <1>11. Plain(r3, r4) /\ r4 \in RouterType
    BY <1>4, <1>10, PlainOps DEF Plain
  <1> HIDE DEF r4
  <1>12. /\ rtr'.t1 = r4.t1 /\ rtr'.history = r4.history /\ rtr'.pending = r4.pending
         /\ rtr'.cancels = r4.cancels
    BY <1>1, <1>11 DEF NoteTxQueueRejected, RouterType
  <1>13. CASE k # j
    <2>1. Leaves(rtr, r4, k)
      BY <1>4, <1>9, <1>10, <1>11, <1>13, LeavesAround
    <2>2. Leaves(rtr, rtr', k)
      BY <1>12, <2>1 DEF Leaves
    <2> QED
      BY <1>1, <1>3, <1>5, <1>6, <2>2, OutTypes, LeftAlone
  <1>14. CASE k = j
    <2>1. OneSlot(rtr, k)
      BY DEF Insures, Insured
    <2>2. OneSlot(r2, j)
      BY <1>9, <1>14, <2>1 DEF Plain, OneSlot, Names
    <2>3. Freed(rtr, r4, k)
      BY <1>9, <1>10, <1>11, <1>14, <2>2, FreedAround
    <2>4. /\ rtr'.history = rtr.history /\ (k \in rtr'.pending => k \in rtr.pending)
          /\ \A i \in Names(rtr', k) : i \in Names(rtr, k) /\ rtr'.t1[i].st = "free"
      BY <1>12, <2>3 DEF Freed, Names
    <2>5. Count(txq, k) > 0 /\ Count(txq, k) = Count(txq', k) + 1
      BY <1>5, <1>14
    <2>6. ~Unplanned(rtr, k)
      BY <1>5, <2>5, OutTypes DEF Insures, Insured
    <2>7. ~Unplanned(rtr', k)
      BY <2>4, <2>6 DEF Unplanned
    <2>8. ASSUME NEW i \in Names(rtr', k)
          PROVE  /\ Count(txq', k) + (Sending(k)' + Ended(k)') <= 1 /\ Count(txq', k) = 0
                 /\ rtr'.t1[i].st = "free"
      <3>1. Count(txq, k) + (Sending(k) + Ended(k)) <= 1
        BY <2>4, <2>8 DEF Insures, Insured
      <3> QED
        BY <1>5, <1>6, <2>4, <2>5, <2>8, <3>1, OutTypes
    <2>9. OneSlot(rtr', k)
      BY <2>1, <2>4 DEF OneSlot
    <2> QED
      BY <2>7, <2>8, <2>9 DEF Insures, Insured, Unplanned
  <1> QED
    BY <1>13, <1>14

(* service() reports as done the frame that was in flight, or nothing. *)
LEMMA ServiceDone ==
  ASSUME NEW mayTx, NEW dutyOk, NEW got, Service(mayTx, dutyOk, got)
  PROVE  report'.done = None \/ (report'.done = inFlight /\ inFlight' = None)
  <1>1. CASE PollTxPending
    BY <1>1 DEF PollTxPending, OkReport
  <1>2. ASSUME NEW restarted \in BOOLEAN, PollTxUnknown(restarted)
        PROVE  report'.done = None
    BY <1>2 DEF PollTxUnknown, ErrReport
  <1>3. CASE RestartRxFails
    BY <1>3 DEF RestartRxFails, ErrReport
  <1>4. ASSUME NEW b \in Beginnings
        PROVE  b.done = inFlight
    <2>1. CASE inFlight # None
      <3>1. PICK ok \in BOOLEAN : b = [done |-> inFlight, owed |-> ~ok, m |-> ModeAfterStartRx(ok)]
        BY <1>4, <2>1, Zenon DEF Beginnings
      <3> QED
        BY <3>1, Zenon
    <2>2. CASE inFlight = None
      <3>1. b = [done |-> None, owed |-> FALSE, m |-> IF rxRestart THEN "rx" ELSE mode]
        BY <1>4, <2>2, Zenon DEF Beginnings
      <3> QED
        BY <2>2, <3>1
    <2> QED
      BY <2>1, <2>2
  <1>5. ASSUME NEW b \in Beginnings, NEW m \in {"rx", "off"}, RecvFails(b, got, m)
        PROVE  report'.done = None
    BY <1>5 DEF RecvFails, ErrReport
  <1>6. ASSUME NEW b \in Beginnings, NEW busy \in BOOLEAN,
               ServeWithoutSend(b, got, busy, mayTx, dutyOk)
        PROVE  report'.done = inFlight /\ inFlight' = None
    BY <1>4, <1>6 DEF ServeWithoutSend, OkReport
  <1>7. ASSUME NEW b \in Beginnings, BusyCheckFails(b, got)
        PROVE  report'.done = None
    BY <1>7 DEF BusyCheckFails, ErrReport
  <1>8. ASSUME NEW b \in Beginnings, NEW certain \in BOOLEAN, SendStarts(b, mayTx, dutyOk, certain)
        PROVE  report'.done = None
    <2>1. report' = OkReport(None, None, 0) \/ report' = ErrReport("TxOutcomeUnknown")
      BY <1>8 DEF SendStarts
    <2> QED
      BY <2>1 DEF OkReport, ErrReport
  <1>9. ASSUME NEW b \in Beginnings, NEW restarted \in BOOLEAN,
               SendDoesNotStart(b, mayTx, dutyOk, restarted)
        PROVE  report'.done = None
    BY <1>9 DEF SendDoesNotStart, ErrReport
  <1> QED
    BY <1>1, <1>2, <1>3, <1>5, <1>6, <1>7, <1>8, <1>9 DEF Service

(* What a step may not do: start the insurance of a broadcast whose copy   *)
(* was heard, while a slot names it.                                       *)
InsuranceStep ==
  StartsT1 => inFlight'.key \notin copyHeard \/ ~NamedByT1(inFlight'.key)

LEMMA CallServiceT1 ==
  ASSUME Ground, NEW mayTx \in BOOLEAN, NEW got \in Receptions, CallService(mayTx, got),
         \A k \in Broadcasts : Insures(k)
  PROVE  (\A k \in Broadcasts : Insures(k)') /\ InsuranceStep
  <1>0. got \in Seq(RxFrames) /\ SlotTypeOK /\ rtr' = rtr /\ copyHeard' = copyHeard
    BY DEF Receptions, Ground, CallService
  <1> DEFINE duty == TRUE
  <1>s. Service(mayTx, duty, got) /\ duty \in BOOLEAN
    BY DEF CallService
  <1> HIDE DEF duty
  <1>1. Transmits(got)
    BY <1>0, <1>s, ServiceFacts
  <1>2. report'.done = None \/ (report'.done = inFlight /\ inFlight' = None)
    BY <1>s, ServiceDone
  <1>3. /\ txq \in Seq(TxFrames) /\ \A f \in TxFrames : f.key \in Packets
        /\ None \notin TxFrames
    BY GroundFacts, NoneIsNoFrame
  <1>4. ASSUME NEW k \in Broadcasts
        PROVE  Insures(k)'
    <2>1. Leaves(rtr, rtr', k) /\ Insures(k)
      BY <1>0 DEF Leaves
    <2>2. CASE txq' = txq /\ (inFlight' = inFlight \/ (inFlight # None /\ inFlight' = None))
      <3>1. Sending(k)' + Ended(k)' <= Sending(k) + Ended(k)
        BY <1>2, <2>2 DEF Sending, Ended
      <3>2. Count(txq, k) \in Nat
        BY <1>3, HavingFinite DEF Count
      <3> QED
        BY <1>0, <1>3, <2>1, <2>2, <3>1, <3>2, OutTypes, LeftAlone
    <2>3. CASE inFlight = None /\ txq # <<>> /\ inFlight' = Head(txq) /\ txq' = Tail(txq)
      <3>1. Head(txq) \in TxFrames /\ txq' \in Seq(TxFrames)
        BY <1>3, <2>3, TailFacts
      <3>2. report'.done = None
        BY <1>2, <1>3, <2>3, <3>1
      <3>3. /\ Sending(k) = 0 /\ Ended(k)' = 0
            /\ Sending(k)' = IF Head(txq).key = k THEN 1 ELSE 0
        BY <1>3, <2>3, <3>1, <3>2 DEF Sending, Ended
      <3>4. /\ Count(txq, k) = Count(txq', k) + IF Head(txq).key = k THEN 1 ELSE 0
            /\ Count(txq, k) \in Nat /\ Count(txq', k) \in Nat
        BY <1>3, <2>3, <3>1, HavingTail, HavingFinite DEF Count
      <3>5. /\ Count(txq', k) <= Count(txq, k)
            /\ Count(txq', k) + (Sending(k)' + Ended(k)') <= Count(txq, k) + (Sending(k) + Ended(k))
        BY <3>3, <3>4, OutTypes
      <3> QED
        BY <1>0, <2>1, <3>1, <3>5, LeftAlone
    <2> QED
      BY <1>1, <2>2, <2>3 DEF Transmits
  <1>5. InsuranceStep
    <2> SUFFICES ASSUME StartsT1
                 PROVE  inFlight'.key \notin copyHeard \/ ~NamedByT1(inFlight'.key)
      BY DEF InsuranceStep
    <2>1. inFlight = None /\ txq # <<>> /\ inFlight' = Head(txq)
      BY <1>1 DEF Transmits, StartsT1
    <2> DEFINE k == inFlight'.key
    <2>2. k \in Broadcasts /\ k = Head(txq).key
      BY <2>1 DEF StartsT1
    <2>3. /\ Count(txq, k) = Cardinality(Having(Tail(txq), k)) + 1
          /\ Cardinality(Having(Tail(txq), k)) \in Nat
      <3>1. Tail(txq) \in Seq(TxFrames)
        BY <1>3, <2>1, TailFacts
      <3> QED
        BY <1>3, <2>1, <2>2, <3>1, HavingTail, HavingFinite DEF Count
    <2> HIDE DEF k
    <2>4. Insures(k) /\ Count(txq, k) > 0
      BY <2>2, <2>3
    <2>5. k \notin copyHeard \/ Names(rtr, k) = {}
      BY <2>4 DEF Insures, Insured
    <2>6. k \notin copyHeard \/ ~NamedByT1(k)
      BY <2>5 DEF Names, NamedByT1
    <2> QED
      BY <2>6 DEF k
  <1> QED
    BY <1>4, <1>5

(* note_tx_done frees the slot whose frame was sent. *)
LEMMA DoneT1 ==
  ASSUME NEW r \in RouterType, NEW j \in Packets, NEW s, s = NoteTxDone(r, j)
  PROVE  /\ s.pending = r.pending /\ s.history = r.history
         /\ \A i \in T1Index : s.t1[i].key = r.t1[i].key
         /\ \A i \in T1Index : s.t1[i] = r.t1[i] \/ (r.t1[i].key = j /\ s.t1[i].st = "free")
  <1> DEFINE fired == [key |-> j, st |-> "fired"]
             t == [i \in T1Index |-> IF r.t1[i] = fired THEN [r.t1[i] EXCEPT !.st = "free"] ELSE r.t1[i]]
  <1>1. r.t1 \in [T1Index -> T1Slots]
    BY RouterFields
  <1>2. s.pending = r.pending /\ s.history = r.history /\ s.t1 = t
    BY DEF NoteTxDone, RouterType
  <1>3. ASSUME NEW i \in T1Index
        PROVE  /\ t[i].key = r.t1[i].key
               /\ t[i] = r.t1[i] \/ (r.t1[i].key = j /\ t[i].st = "free")
    <2>1. r.t1[i] \in T1Slots
      BY <1>1
    <2>2. CASE r.t1[i] = fired
      <3>1. t[i] = [r.t1[i] EXCEPT !.st = "free"] /\ r.t1[i].key = j
        BY <2>2
      <3> QED
        BY <2>1, <3>1 DEF T1Slots
    <2>3. CASE r.t1[i] # fired
      BY <2>3
    <2> QED
      BY <2>2, <2>3
  <1> HIDE DEF t
  <1> QED
    BY <1>2, <1>3

LEMMA FinishT1 ==
  ASSUME Ground, Reported, Finish, NEW k \in Broadcasts, Insures(k)
  PROVE  Insures(k)'
  <1>1. /\ txq' = txq /\ inFlight' = inFlight /\ report'.done = None /\ copyHeard' = copyHeard
    BY DEF Finish, ghostVars, OkReport
  <1>2. /\ rtr \in RouterType /\ txq \in Seq(TxFrames) /\ Count(txq, k) \in Nat
    BY GroundFacts, HavingFinite DEF Count
  <1>3. Sending(k)' = Sending(k) /\ Ended(k)' = 0
    BY <1>1 DEF Sending, Ended
  <1>4. ASSUME Leaves(rtr, rtr', k)
        PROVE  Insures(k)'
    BY <1>1, <1>2, <1>3, <1>4, OutTypes, LeftAlone
  <1>5. CASE report.done = None
    <2>1. rtr' = rtr \/ rtr' = NoteTxFailure(rtr, txFailure)
      BY <1>5 DEF Finish
    <2>2. rtr'.t1 = rtr.t1 /\ rtr'.history = rtr.history /\ rtr'.pending = rtr.pending
      BY <1>2, <2>1 DEF NoteTxFailure, RouterType
    <2> QED
      BY <1>4, <2>2 DEF Leaves
  <1>6. CASE report.done # None
    <2> DEFINE j == report.done.key
    <2>1. rtr' = NoteTxDone(rtr, j)
      BY <1>6 DEF Finish, Reported
    <2>2. j \in Packets
      BY <1>6, GroundFacts DEF Ground, SlotTypeOK, Reports
    <2> HIDE DEF j
    <2>3. /\ rtr'.pending = rtr.pending /\ rtr'.history = rtr.history
          /\ \A i \in T1Index : rtr'.t1[i].key = rtr.t1[i].key
          /\ \A i \in T1Index : rtr'.t1[i] = rtr.t1[i] \/ (rtr.t1[i].key = j /\ rtr'.t1[i].st = "free")
      BY <1>2, <2>1, <2>2, DoneT1
    <2>4. CASE k # j
      BY <1>4, <2>3, <2>4 DEF Leaves
    <2>5. CASE k = j
      <3>1. Ended(k) = 1
        BY <1>6, <2>5 DEF Ended, j
      <3>2. ~Unplanned(rtr, k)
        BY <1>2, <3>1, OutTypes DEF Insures, Insured
      <3>3. ~Unplanned(rtr', k) /\ Names(rtr', k) = Names(rtr, k)
        BY <2>3, <3>2 DEF Unplanned, Names
      <3>4. ASSUME NEW i \in Names(rtr, k)
            PROVE  /\ Count(txq, k) = 0 /\ Sending(k)' + Ended(k)' <= 1
                   /\ rtr'.t1[i].st # "armed"
        <4>1. /\ Count(txq, k) + (Sending(k) + Ended(k)) <= 1
              /\ rtr.t1[i].st = "armed" => Count(txq, k) + (Sending(k) + Ended(k)) = 0
          BY <3>4 DEF Insures, Insured
        <4>2. rtr.t1[i].st # "armed"
          BY <1>2, <3>1, <4>1, OutTypes
        <4>3. rtr'.t1[i].st # "armed"
          BY <2>3, <3>4, <4>2 DEF Names
        <4> QED
          BY <1>2, <1>3, <3>1, <4>1, <4>3, OutTypes
      <3>5. OneSlot(rtr', k)
        BY <3>3 DEF Insures, Insured, OneSlot
      <3> QED
        BY <1>1, <3>3, <3>4, <3>5, OutTypes DEF Insures, Insured, Unplanned
    <2> QED
      BY <2>4, <2>5
  <1> QED
    BY <1>5, <1>6

(* A cancelled packet has no frame left in the queue. *)
LEMMA HavingNone ==
  ASSUME NEW q \in Seq(TxFrames), NEW K, NEW p \in RemoveWhere(q, K), NEW k \in K
  PROVE  Count(p, k) = 0
  <1>1. PICK keep \in [DOMAIN p -> DOMAIN q] : Keeps(q, K, p, keep)
    BY RemoveWhereFacts
  <1>2. Having(p, k) = {}
    BY <1>1 DEF Keeps, Having
  <1> QED
    BY <1>2, FS_EmptySet DEF Count

LEMMA HandleRxT1 ==
  ASSUME Ground, HandleRx, \A k \in Broadcasts : Insures(k)
  PROVE  \A k \in Broadcasts : Insures(k)'
  <1> DEFINE f == report.rx
             j == f.key
  <1>1. PICK out \in Handlings(f) :
          LET p == EnqueuePlan(out, j) IN
          /\ txq' \in RemoveWhere(p.q, p.r.cancels)
          /\ rtr' = [p.r EXCEPT !.cancels = {}]
          /\ copyHeard' =
               {k \in copyHeard \cup (IF f.kind = "copy" THEN {j} \cap rtr.history ELSE {}) :
                  p.r.planned[k] = rtr.planned[k]}
    BY DEF HandleRx
  <1> DEFINE p == EnqueuePlan(out, j)
             copy == (f.kind = "copy")
  <1>2. /\ txq' \in RemoveWhere(p.q, p.r.cancels)
        /\ rtr' = [p.r EXCEPT !.cancels = {}]
        /\ \A k \in copyHeard' : /\ p.r.planned[k] = rtr.planned[k]
                                 /\ k \in copyHeard \/ (copy /\ k = j)
    BY <1>1
  <1>3. /\ f \in RxFrames /\ j \in Packets /\ Good(rtr) /\ rtr.cancels \cap Uni = {} /\ SlotTypeOK
        /\ rtr \in RouterType
    BY ReceivedFrame, GroundFacts DEF Ground, HandleRx
  <1>4. HandleEffect(rtr, out, j) /\ HandleT1(rtr, out, j, copy)
    <2>1. CASE f.kind = "reply"
      <3>1. out \in HandleReply(rtr, j) /\ ~copy
        BY <1>1, <2>1 DEF Handlings
      <3>2. HandleT1(rtr, out, j, FALSE) /\ HandleEffect(rtr, out, j)
        BY <1>3, <3>1, ReplyT1, ReplyEffect
      <3> QED
        BY <3>1, <3>2 DEF HandleT1
    <2>2. CASE f.kind # "reply"
      <3> DEFINE z == (f.kind = "repeat")
      <3>1. out \in HandleCopy(rtr, j, z)
        BY <1>1, <2>2 DEF Handlings
      <3>2. copy => ~z
        OBVIOUS
      <3>3. z \in BOOLEAN
        OBVIOUS
      <3> HIDE DEF z
      <3>4. j \in Broadcasts => /\ OneSlot(rtr, j) /\ (j \in rtr.pending => j \in rtr.history)
                                /\ Unplanned(rtr, j) => Names(rtr, j) = {}
        BY DEF Insures, Insured
      <3>5. HandleT1(rtr, out, j, ~z)
        BY <1>3, <3>1, <3>3, <3>4, CopyT1
      <3> QED
        BY <1>3, <3>1, <3>2, <3>5, CopyEffect DEF HandleT1
    <2> QED
      BY <2>1, <2>2
  <1>5. /\ inFlight' = inFlight /\ report'.done = report.done
    BY <1>3 DEF HandleRx, SlotTypeOK, Reports
  <1> HIDE DEF j, f, copy
  <1>6. p = EnqueuePlan(out, j)
    OBVIOUS
  <1> HIDE DEF p
  <1>7. Good(p.r) /\ p.q \in Seq(TxFrames) /\ p.r.planned = out.r.planned
    BY <1>3, <1>4, <1>6, QueuedPlan
  <1>8. out.r \in RouterType /\ p.r \in RouterType
    BY <1>4, <1>7, GoodSlots DEF HandleEffect
  <1>9. /\ p.r.t1 = out.r.t1 /\ p.r.history = out.r.history /\ p.r.pending = out.r.pending
        /\ p.r.cancels = out.r.cancels
        /\ p.q = txq \/ (out.relay /\ p.q = Append(txq, Frame(j, "relay")))
    <2>1. \/ ~out.relay /\ p = [r |-> out.r, q |-> txq]
          \/ out.relay /\ p = [r |-> out.r, q |-> Append(txq, Frame(j, "relay"))]
          \/ p = [r |-> NoteTxQueueRejected(out.r, j), q |-> txq]
      <3>1. Len(txq) < TX \/ Len(txq) = TX
        BY <1>3, QueueSizes DEF SlotTypeOK
      <3> QED
        BY <1>6, <3>1 DEF EnqueuePlan
    <2> DEFINE u == NoteTxQueueRejected(out.r, j)
    <2>2. /\ u.t1 = out.r.t1 /\ u.history = out.r.history /\ u.pending = out.r.pending
          /\ u.cancels = out.r.cancels
      BY <1>8 DEF NoteTxQueueRejected, RouterType
    <2> HIDE DEF u
    <2>3. p.r \in {out.r, u} /\ (p.q = txq \/ (out.relay /\ p.q = Append(txq, Frame(j, "relay"))))
      BY <2>1 DEF u
    <2> QED
      BY <2>2, <2>3
  <1>10. /\ rtr'.t1 = out.r.t1 /\ rtr'.history = out.r.history /\ rtr'.pending = out.r.pending
    BY <1>2, <1>8, <1>9 DEF RouterType
  <1>11. txq \in Seq(TxFrames) /\ Frame(j, "relay") \in TxFrames /\ Frame(j, "relay").key = j
    BY <1>3, GroundFacts DEF Kinds
  <1>12. txq' \in Seq(TxFrames)
    BY <1>2, <1>7, HavingRemove
  <1>13. ASSUME NEW k \in Packets
         PROVE  /\ Count(txq', k) <= Count(txq, k) + (IF out.relay /\ k = j THEN 1 ELSE 0)
                /\ Count(txq, k) \in Nat /\ Count(txq', k) \in Nat
                /\ k \in out.r.cancels => Count(txq', k) = 0
                /\ Sending(k)' = Sending(k) /\ Ended(k)' = Ended(k)
    <2>1. Count(txq, k) \in Nat /\ Count(txq', k) \in Nat /\ Count(p.q, k) \in Nat
      BY <1>7, <1>11, <1>12, HavingFinite DEF Count
    <2>2. Count(txq', k) <= Count(p.q, k)
      BY <1>2, <1>7, HavingRemove DEF Count
    <2>3. Count(p.q, k) <= Count(txq, k) + (IF out.relay /\ k = j THEN 1 ELSE 0)
      <3>1. CASE p.q = txq
        BY <2>1, <3>1
      <3>2. CASE out.relay /\ p.q = Append(txq, Frame(j, "relay"))
        <4>1. Count(p.q, k) = Count(txq, k) + IF j = k THEN 1 ELSE 0
          BY <1>11, <3>2, HavingAppend DEF Count
        <4> QED
          BY <2>1, <3>2, <4>1
      <3> QED
        BY <1>9, <3>1, <3>2
    <2>4. k \in out.r.cancels => Count(txq', k) = 0
      BY <1>2, <1>7, <1>9, HavingNone
    <2> QED
      BY <1>5, <2>1, <2>2, <2>3, <2>4 DEF Sending, Ended
  <1> SUFFICES ASSUME NEW k \in Broadcasts
               PROVE  Insures(k)'
    OBVIOUS
  <1>14. /\ k \in Packets /\ Insures(k)
         /\ Count(txq', k) <= Count(txq, k) + (IF out.relay /\ k = j THEN 1 ELSE 0)
         /\ Count(txq, k) \in Nat /\ Count(txq', k) \in Nat
         /\ k \in out.r.cancels => Count(txq', k) = 0
         /\ Sending(k)' = Sending(k) /\ Ended(k)' = Ended(k)
    BY <1>13 DEF Packets
  <1>15. ASSUME Leaves(rtr, out.r, k), ~(out.relay /\ k = j), k \in copyHeard' => k \in copyHeard
         PROVE  Insures(k)'
    <2>1. Leaves(rtr, rtr', k)
      BY <1>10, <1>15 DEF Leaves
    <2>2. Count(txq', k) <= Count(txq, k)
      BY <1>14, <1>15
    <2>3. Count(txq', k) + (Sending(k)' + Ended(k)') <= Count(txq, k) + (Sending(k) + Ended(k))
      BY <1>14, <2>2, OutTypes
    <2> QED
      BY <1>12, <1>14, <1>15, <2>1, <2>2, <2>3, LeftAlone
  <1>16. CASE k # j
    BY <1>2, <1>4, <1>14, <1>15, <1>16 DEF HandleT1
  <1>17. CASE k = j
    <2>1. CASE Leaves(rtr, out.r, k) /\ ~out.relay /\ (copy => Names(out.r, k) = {})
      <3>1. CASE ~copy
        BY <1>2, <1>15, <2>1, <3>1
      <3>2. CASE copy
        <4>1. Names(rtr', k) = {}
          BY <1>10, <2>1, <3>2 DEF Names
        <4>2. /\ k \in rtr'.pending => k \in rtr'.history
              /\ Unplanned(rtr', k) => Unplanned(rtr, k)
          BY <1>10, <1>14, <2>1 DEF Leaves, Insures, Insured, Unplanned
        <4>3. Unplanned(rtr', k) => Count(txq', k) + (Sending(k)' + Ended(k)') = 0
          BY <1>14, <2>1, <4>2, OutTypes DEF Insures, Insured
        <4> QED
          BY <4>1, <4>2, <4>3 DEF Insures, Insured, OneSlot
      <3> QED
        BY <3>1, <3>2
    <2>2. CASE Freed(rtr, out.r, k) /\ ~out.relay
      <3>1. /\ rtr'.history = rtr.history /\ (k \in rtr'.pending => k \in rtr.pending)
            /\ \A i \in Names(rtr', k) : i \in Names(rtr, k) /\ rtr'.t1[i].st = "free"
            /\ (\E i \in Names(rtr, k) : rtr.t1[i].st = "fired") => k \in out.r.cancels
        BY <1>10, <2>2 DEF Freed, Names
      <3>2. Unplanned(rtr', k) => Unplanned(rtr, k)
        BY <3>1 DEF Unplanned
      <3>3. Count(txq', k) <= Count(txq, k)
        BY <1>14, <2>2
      <3>4. Unplanned(rtr', k) => Names(rtr', k) = {} /\ Count(txq', k) + (Sending(k)' + Ended(k)') = 0
        BY <1>14, <3>1, <3>2, <3>3, OutTypes DEF Insures, Insured
      <3>5. ASSUME NEW i \in Names(rtr', k)
            PROVE  Count(txq', k) = 0 /\ Sending(k)' + Ended(k)' <= 1
        <4>1. /\ i \in Names(rtr, k) /\ Count(txq, k) + (Sending(k) + Ended(k)) <= 1
              /\ rtr.t1[i].st = "armed" => Count(txq, k) + (Sending(k) + Ended(k)) = 0
              /\ rtr.t1[i].st = "free" => Count(txq, k) = 0
          BY <1>14, <3>1, <3>5 DEF Insures, Insured
        <4>2. rtr.t1[i] \in T1Slots
          BY <1>3, <4>1, RouterFields DEF Names
        <4>3. rtr.t1[i].st \in {"armed", "free", "fired"}
          BY <4>2 DEF T1Slots
        <4>4. CASE rtr.t1[i].st = "fired"
          BY <1>14, <3>1, <4>1, <4>4, OutTypes
        <4>5. CASE rtr.t1[i].st # "fired"
          BY <1>14, <3>3, <4>1, <4>3, <4>5, OutTypes
        <4> QED
          BY <4>4, <4>5
      <3>6. OneSlot(rtr', k) /\ (k \in rtr'.pending => k \in rtr'.history)
        BY <1>14, <3>1 DEF Insures, Insured, OneSlot
      <3>7. \A i \in Names(rtr', k) :
              /\ Count(txq', k) + (Sending(k)' + Ended(k)') <= 1
              /\ Count(txq', k) = 0 /\ rtr'.t1[i].st = "free"
        BY <3>1, <3>5, OutTypes
      <3> QED
        BY <3>4, <3>6, <3>7 DEF Insures, Insured
    <2>3. CASE Unplanned(rtr, k) /\ PlansT1(rtr, out, k)
      <3>1. Count(txq, k) + (Sending(k) + Ended(k)) = 0
        BY <1>14, <2>3 DEF Insures, Insured
      <3>2. CASE Names(out.r, k) = {} /\ ~(k \in out.r.pending /\ out.relay)
        <4>1. Names(rtr', k) = {} /\ k \in rtr'.history
          BY <1>10, <2>3, <3>2 DEF Names, PlansT1
        <4>2. Unplanned(rtr', k) => ~out.relay
          BY <1>10, <3>2, <4>1 DEF Unplanned
        <4>3. Unplanned(rtr', k) => Count(txq', k) + (Sending(k)' + Ended(k)') = 0
          BY <1>14, <3>1, <4>2, OutTypes
        <4> QED
          BY <4>1, <4>3 DEF Insures, Insured, OneSlot
      <3>3. CASE /\ \A m, n \in Names(out.r, k) : m = n /\ out.r.t1[m].st = "armed"
                 /\ out.r.planned[k] # rtr.planned[k] /\ k \notin out.r.pending /\ ~out.relay
        <4>1. k \notin copyHeard'
          BY <1>2, <1>7, <3>3
        <4>2. /\ OneSlot(rtr', k) /\ \A i \in Names(rtr', k) : rtr'.t1[i].st = "armed"
              /\ ~Unplanned(rtr', k) /\ k \notin rtr'.pending
          BY <1>10, <2>3, <3>3 DEF Names, OneSlot, Unplanned, PlansT1
        <4>3. Count(txq', k) = 0 /\ Count(txq', k) + (Sending(k)' + Ended(k)') = 0
          BY <1>14, <3>1, <3>3, OutTypes
        <4> QED
          BY <4>1, <4>2, <4>3 DEF Insures, Insured
      <3> QED
        BY <2>3, <3>2, <3>3 DEF PlansT1
    <2> QED
      BY <1>4, <1>17, <2>1, <2>2, <2>3 DEF HandleT1
  <1> QED
    BY <1>16, <1>17

-----------------------------------------------------------------------------
InsuranceInv == \A k \in Broadcasts : Insures(k)

LEMMA InitT1 ==
  ASSUME Init
  PROVE  InsuranceInv
  <1>1. rtr = NewRouter /\ txq = <<>> /\ inFlight = None /\ report.done = None
    BY DEF Init, SlotInit, OkReport
  <1> DEFINE free == [key |-> NoSlot, st |-> "free"]
             t == [i \in T1Index |-> free]
  <1>2. rtr.t1 = t /\ rtr.pending = {} /\ free.key = NoSlot
    BY <1>1 DEF NewRouter
  <1> HIDE DEF free
  <1>3. \A i \in T1Index : t[i].key = NoSlot
    BY <1>2
  <1> HIDE DEF t
  <1>4. ASSUME NEW k \in Broadcasts
        PROVE  Insures(k)
    <2>1. k # NoSlot
      BY PacketsFinite DEF Packets
    <2>2. Names(rtr, k) = {}
      BY <1>2, <1>3, <2>1 DEF Names
    <2>3. Count(txq, k) = 0
      <3>1. Having(txq, k) = {}
        BY <1>1 DEF Having
      <3> QED
        BY <3>1, FS_EmptySet DEF Count
    <2>4. Sending(k) = 0 /\ Ended(k) = 0
      BY <1>1 DEF Sending, Ended
    <2> QED
      BY <1>2, <2>2, <2>3, <2>4 DEF Insures, Insured, OneSlot
  <1> QED
    BY <1>4 DEF InsuranceInv

(* Only a call of service() starts a transmission. *)
LEMMA NextT1 ==
  ASSUME PathInv, InsuranceInv, [Next]_vars
  PROVE  InsuranceInv' /\ InsuranceStep
  <1>0. Ground /\ Reported /\ \A k \in Broadcasts : Insures(k)
    BY DEF PathInv, InsuranceInv
  <1>1. ASSUME inFlight' = inFlight
        PROVE  InsuranceStep
    BY <1>1 DEF InsuranceStep, StartsT1
  <1>2. ASSUME NEW j \in Packets, Poll(j)
        PROVE  InsuranceInv' /\ InsuranceStep
    <2>1. inFlight' = inFlight
      BY <1>2 DEF Poll, SendLocal, PollReadyRelay, DropPending, PollRetransmit, ReleaseReliable,
                  ExpireCommit, ForgetOurTx, Hand, PushTx, slotVars
    <2>2. \A k \in Broadcasts : Insures(k)'
      BY <1>0, <1>2, SendLocalT1, PollReadyRelayT1, PollRetransmitT1, QuietPollT1 DEF Poll
    <2> QED
      BY <1>1, <2>1, <2>2 DEF InsuranceInv
  <1>3. ASSUME NEW i \in T1Index, PollT1(i) \/ StandDownT1(i)
        PROVE  InsuranceInv' /\ InsuranceStep
    <2>1. inFlight' = inFlight
      BY <1>3 DEF PollT1, StandDownT1, Hand, PushTx, slotVars
    <2>2. \A k \in Broadcasts : Insures(k)'
      BY <1>0, <1>3, PollT1T1, StandDownT1T1
    <2> QED
      BY <1>1, <2>1, <2>2 DEF InsuranceInv
  <1>4. CASE Recheck
    <2>1. inFlight' = inFlight
      BY <1>4 DEF Recheck, PopTx
    <2> QED
      BY <1>0, <1>1, <1>4, <2>1, RecheckT1 DEF InsuranceInv
  <1>5. ASSUME NEW mayTx \in BOOLEAN, NEW got \in Receptions, CallService(mayTx, got)
        PROVE  InsuranceInv' /\ InsuranceStep
    BY <1>0, <1>5, CallServiceT1 DEF InsuranceInv
  <1>6. CASE HandleRx
    <2>1. inFlight' = inFlight
      BY <1>6 DEF HandleRx
    <2> QED
      BY <1>0, <1>1, <1>6, <2>1, HandleRxT1 DEF InsuranceInv
  <1>7. CASE Finish
    <2>1. inFlight' = inFlight
      BY <1>7 DEF Finish
    <2> QED
      BY <1>0, <1>1, <1>7, <2>1, FinishT1 DEF InsuranceInv
  <1>8. CASE UNCHANGED vars
    <2>1. /\ txq' = txq /\ inFlight' = inFlight /\ report' = report /\ rtr' = rtr
          /\ copyHeard' = copyHeard
      BY <1>8 DEF vars, slotVars, pathVars
    <2>2. \A k \in Broadcasts : Insures(k)'
      BY <1>0, <2>1 DEF Insures, Sending, Ended
    <2> QED
      BY <1>1, <2>1, <2>2 DEF InsuranceInv
  <1> QED
    BY <1>2, <1>3, <1>4, <1>5, <1>6, <1>7, <1>8 DEF Next

(* A relayed copy of a broadcast, heard after its insurance was armed,     *)
(* keeps the insurance off the air, whether it still waits for its delay   *)
(* or its frame is in the radio queue - as long as a T1 slot names the     *)
(* packet (cancel_t1_retransmit).                                          *)
THEOREM CopyStopsInsurance == Spec => HeardCopyStopsT1
  <1>1. Init => InsuranceInv
    BY InitT1
  <1>2. PathInv /\ InsuranceInv /\ [Next]_vars => InsuranceInv'
    BY NextT1
  <1>3. PathInv /\ InsuranceInv /\ [Next]_vars =>
          [StartsT1 => inFlight'.key \notin copyHeard \/ ~NamedByT1(inFlight'.key)]_vars
    BY NextT1 DEF InsuranceStep
  <1> QED
    BY <1>1, <1>2, <1>3, PathInvariant, PTL DEF Spec, HeardCopyStopsT1
=============================================================================
