----------------------------- MODULE SlotLemmas -----------------------------
(***************************************************************************)
(* Facts on the queues of the radio slot and on service() that the proofs  *)
(* of the slot and of the transmit path share.                             *)
(***************************************************************************)
EXTENDS RadioSlot, SequenceTheorems, FiniteSetTheorems, TLAPS

(* push_front of the frame just popped restores the queue. *)
LEMMA PushFrontRestores ==
  ASSUME NEW S, NEW q \in Seq(S), q # <<>>
  PROVE  <<Head(q)>> \o Tail(q) = q
  OBVIOUS

(* The queue without its head. *)
LEMMA TailFacts ==
  ASSUME NEW S, NEW q \in Seq(S), q # <<>>
  PROVE  /\ Tail(q) \in Seq(S) /\ Len(Tail(q)) = Len(q) - 1
         /\ Head(q) = q[1] /\ Head(q) \in S
         /\ \A i \in DOMAIN Tail(q) : i + 1 \in DOMAIN q /\ Tail(q)[i] = q[i + 1]
         /\ \A i \in DOMAIN q : i > 1 => i - 1 \in DOMAIN Tail(q) /\ Tail(q)[i - 1] = q[i]
         /\ 1 \in DOMAIN q
  OBVIOUS

(* What is known of each member of a sequence. *)
LEMMA MemberFacts ==
  ASSUME NEW S, NEW q \in Seq(S), NEW i \in DOMAIN q
  PROVE  i \in Nat /\ i \in 1..Len(q) /\ q[i] \in S
  OBVIOUS

(* A longer sequence, member by member. *)
LEMMA AppendFacts ==
  ASSUME NEW S, NEW s \in Seq(S), NEW x \in S
  PROVE  /\ Append(s, x) \in Seq(S) /\ DOMAIN Append(s, x) = 1..(Len(s) + 1)
         /\ DOMAIN s = 1..Len(s) /\ Len(s) \in Nat
         /\ Append(s, x)[Len(s) + 1] = x
         /\ \A i \in 1..Len(s) : Append(s, x)[i] = s[i]
  OBVIOUS

(* remove_where keeps the frames whose key is not cancelled, in order. *)
Keeps(q, K, p, keep) ==
  /\ \A i \in DOMAIN p : p[i] = q[keep[i]] /\ q[keep[i]].key \notin K
  /\ \A i, j \in DOMAIN p : i < j => keep[i] < keep[j]
  /\ \A i \in DOMAIN q : q[i].key \notin K => \E j \in DOMAIN p : keep[j] = i

LEMMA RemoveWhereFacts ==
  ASSUME NEW q \in Seq(TxFrames), NEW K, NEW p \in RemoveWhere(q, K)
  PROVE  /\ p \in Seq(TxFrames) /\ Len(p) <= Len(q)
         /\ \E keep \in [DOMAIN p -> DOMAIN q] : Keeps(q, K, p, keep)
  <1>0. PICK n \in 0..Len(q) : \E keep \in [1..n -> 1..Len(q)] :
          KeepsAllBut(q, K, keep) /\ p = [i \in 1..n |-> q[keep[i]]]
    BY DEF RemoveWhere
  <1>1. PICK keep \in [1..n -> 1..Len(q)] :
          KeepsAllBut(q, K, keep) /\ p = [i \in 1..n |-> q[keep[i]]]
    BY <1>0
  <1>2. DOMAIN q = 1..Len(q) /\ \A i \in 1..Len(q) : q[i] \in TxFrames
    OBVIOUS
  <1>3. p \in Seq(TxFrames) /\ DOMAIN p = 1..n /\ Len(p) = n
    BY <1>1, <1>2
  <1>4. /\ \A i, j \in 1..n : i < j => keep[i] < keep[j]
        /\ {keep[i] : i \in 1..n} = {i \in DOMAIN q : q[i].key \notin K}
    BY <1>1 DEF KeepsAllBut
  <1>5. \A i \in 1..n : q[keep[i]].key \notin K
    BY <1>4
  <1>6. \A i \in DOMAIN q : q[i].key \notin K => \E j \in 1..n : keep[j] = i
    BY <1>4
  <1>7. keep \in [DOMAIN p -> DOMAIN q]
    BY <1>2, <1>3
  <1>8. Keeps(q, K, p, keep)
    BY <1>1, <1>3, <1>4, <1>5, <1>6 DEF Keeps
  <1>10. p \in Seq(TxFrames) /\ Len(p) <= Len(q)
    BY <1>3
  <1> QED
    BY <1>7, <1>8, <1>10, Zenon

-----------------------------------------------------------------------------
(* service() as far as its callers can tell.  The frame queue only loses   *)
(* its head, and only to become the frame in flight with no received frame *)
(* left to hand up; received frames join the rx queue and leave from its   *)
(* front.                                                                  *)
Transmits(got) ==
  \/ txq' = txq /\ inFlight' = inFlight
  \/ txq' = txq /\ inFlight # None /\ inFlight' = None
  \/ /\ inFlight = None /\ rxq = <<>> /\ got = <<>>
     /\ txq # <<>> /\ inFlight' = Head(txq) /\ txq' = Tail(txq)
     /\ report'.rx = None

Receives(got) ==
  \/ rxq' = rxq \o got /\ report'.rx = None
  \/ /\ rxq \o got # <<>>
     /\ rxq' = Tail(rxq \o got) /\ report'.rx = Head(rxq \o got)

LEMMA ServiceFacts ==
  ASSUME SlotTypeOK, NEW mayTx \in BOOLEAN, NEW dutyOk \in BOOLEAN,
         NEW got \in Seq(RxFrames), Service(mayTx, dutyOk, got)
  PROVE  SlotTypeOK' /\ Transmits(got) /\ Receives(got)
  <1>0. /\ None \notin TxFrames /\ None \notin RxFrames /\ RX \in Nat /\ TX \in Nat
        /\ inFlight # None => inFlight.key \in Keys
        /\ Len(got) \in Nat /\ rxq \o got \in Seq(RxFrames)
        /\ Len(rxq \o got) = Len(rxq) + Len(got)
        /\ got = <<>> => rxq \o got = rxq
    BY QueueSizes, NoneIsNoFrame, FramesHaveKeys DEF SlotTypeOK
  <1>1. CASE got = <<>> /\ PollTxPending
    <2>1. report' \in Reports /\ report'.rx = None
      BY <1>0, <1>1 DEF PollTxPending, OkReport, Reports
    <2> QED
      BY <1>0, <1>1, <2>1 DEF PollTxPending, SlotTypeOK, Transmits, Receives
  <1>2. ASSUME got = <<>>, NEW restarted \in BOOLEAN, PollTxUnknown(restarted)
        PROVE  SlotTypeOK' /\ Transmits(got) /\ Receives(got)
    <2>1. report' \in Reports /\ report'.rx = None
      BY <1>0, <1>2 DEF PollTxUnknown, ErrReport, Reports, RadioErrors
    <2> QED
      BY <1>0, <1>2, <2>1 DEF PollTxUnknown, SlotTypeOK, Transmits, Receives, ModeAfterStartRx
  <1>3. CASE got = <<>> /\ RestartRxFails
    <2>1. report' \in Reports /\ report'.rx = None
      BY <1>0, <1>3 DEF RestartRxFails, ErrReport, Reports, RadioErrors
    <2> QED
      BY <1>0, <1>3, <2>1 DEF RestartRxFails, SlotTypeOK, Transmits, Receives
  <1>b. ASSUME NEW b \in Beginnings
        PROVE  /\ b.done \in TxFrames \cup {None} /\ b.owed \in BOOLEAN /\ b.m \in {"rx", "tx", "off"}
               /\ b.done = None => inFlight = None
    <2>1. CASE inFlight # None
      <3>1. PICK ok \in BOOLEAN : b = [done |-> inFlight, owed |-> ~ok, m |-> ModeAfterStartRx(ok)]
        BY <1>b, <2>1, Zenon DEF Beginnings
      <3>2. b.done = inFlight /\ b.owed = ~ok /\ b.m = ModeAfterStartRx(ok)
        BY <3>1, Zenon
      <3>3. b.owed \in BOOLEAN
        BY <3>2, Zenon
      <3> QED
        BY <2>1, <3>2, <3>3 DEF SlotTypeOK, ModeAfterStartRx
    <2>2. CASE inFlight = None
      <3>1. b = [done |-> None, owed |-> FALSE, m |-> IF rxRestart THEN "rx" ELSE mode]
        BY <1>b, <2>2, Zenon DEF Beginnings
      <3> QED
        BY <2>2, <3>1 DEF SlotTypeOK
    <2> QED
      BY <2>1, <2>2
  <1>4. ASSUME NEW b \in Beginnings, NEW m \in {"rx", "off"}, RecvFails(b, got, m)
        PROVE  SlotTypeOK' /\ Transmits(got) /\ Receives(got)
    <2>1. report' \in Reports /\ report'.rx = None
      BY <1>0, <1>4 DEF RecvFails, ErrReport, Reports, RadioErrors
    <2>2. Len(rxq \o got) \in 0..RX
      BY <1>0, <1>4 DEF RecvFails, CanReceive, SlotTypeOK
    <2>3. Transmits(got) /\ Receives(got)
      BY <1>4, <2>1 DEF RecvFails, Transmits, Receives
    <2> QED
      BY <1>0, <1>4, <2>1, <2>2, <2>3 DEF RecvFails, SlotTypeOK
  <1>5. ASSUME NEW b \in Beginnings, NEW busy \in BOOLEAN,
               ServeWithoutSend(b, got, busy, mayTx, dutyOk)
        PROVE  SlotTypeOK' /\ Transmits(got) /\ Receives(got)
    <2>0. Len(rxq \o got) <= RX
      BY <1>0, <1>5 DEF ServeWithoutSend, CanReceive
    <2>1. CASE rxq \o got = <<>>
      <3>1. Len(got) \in 0..RX /\ rxq' = rxq \o got
        BY <1>0, <1>5, <2>1, <2>0 DEF SlotTypeOK, ServeWithoutSend, RestOf
      <3>2. report' \in Reports /\ report'.rx = None
        BY <1>0, <1>5, <1>b, <2>1, <3>1 DEF ServeWithoutSend, OkReport, FirstOrNone, Reports
      <3> QED
        BY <1>0, <1>5, <1>b, <2>0, <3>1, <3>2 DEF ServeWithoutSend, SlotTypeOK, Transmits, Receives
    <2>2. CASE rxq \o got # <<>>
      <3>1. Len(got) \in 0..RX /\ rxq' = Tail(rxq \o got)
        BY <1>0, <1>5, <2>2, <2>0 DEF SlotTypeOK, ServeWithoutSend, RestOf
      <3>2. /\ Tail(rxq \o got) \in Seq(RxFrames) /\ Len(Tail(rxq \o got)) \in 0..RX
            /\ Head(rxq \o got) \in RxFrames
        BY <1>0, <2>0, <2>2, TailFacts
      <3>3. report' \in Reports /\ report'.rx = Head(rxq \o got)
        BY <1>0, <1>5, <1>b, <2>2, <3>1, <3>2 DEF ServeWithoutSend, OkReport, FirstOrNone, Reports
      <3> QED
        BY <1>0, <1>5, <1>b, <2>2, <3>1, <3>2, <3>3 DEF ServeWithoutSend, SlotTypeOK, Transmits, Receives
    <2> QED
      BY <2>1, <2>2
  <1>6. ASSUME NEW b \in Beginnings, BusyCheckFails(b, got)
        PROVE  SlotTypeOK' /\ Transmits(got) /\ Receives(got)
    <2>1. report' \in Reports /\ report'.rx = None
      BY <1>0, <1>6 DEF BusyCheckFails, ErrReport, Reports, RadioErrors
    <2> QED
      BY <1>0, <1>6, <1>b, <2>1 DEF BusyCheckFails, CanReceive, SlotTypeOK, Transmits, Receives
  <1>7. ASSUME NEW b \in Beginnings, NEW certain \in BOOLEAN, got = <<>>,
               SendStarts(b, mayTx, dutyOk, certain)
        PROVE  SlotTypeOK' /\ Transmits(got) /\ Receives(got)
    <2>1. report' \in Reports /\ report'.rx = None
      BY <1>0, <1>7 DEF SendStarts, OkReport, ErrReport, Reports, RadioErrors
    <2>2. txq # <<>> /\ rxq = <<>> /\ inFlight = None
      BY <1>0, <1>7, <1>b DEF SendStarts, MayStartSend
    <2>3. txq' \in Seq(TxFrames) /\ Len(txq') \in 0..TX /\ inFlight' \in TxFrames
      BY <1>0, <1>7, <2>2, TailFacts DEF SendStarts, SlotTypeOK
    <2> QED
      BY <1>0, <1>7, <1>b, <2>1, <2>2, <2>3 DEF SendStarts, SlotTypeOK, Transmits, Receives
  <1>8. ASSUME NEW b \in Beginnings, NEW restarted \in BOOLEAN, got = <<>>,
               SendDoesNotStart(b, mayTx, dutyOk, restarted)
        PROVE  SlotTypeOK' /\ Transmits(got) /\ Receives(got)
    <2>1. report' \in Reports /\ report'.rx = None
      BY <1>0, <1>8 DEF SendDoesNotStart, ErrReport, Reports, RadioErrors
    <2>2. txq # <<>> /\ inFlight = None
      BY <1>8, <1>b DEF SendDoesNotStart, MayStartSend
    <2>3. txq' = txq
      BY <1>8, <2>2, PushFrontRestores DEF SendDoesNotStart, SlotTypeOK
    <2> QED
      BY <1>0, <1>8, <2>1, <2>2, <2>3
      DEF SendDoesNotStart, SlotTypeOK, Transmits, Receives, ModeAfterStartRx
  <1> QED
    BY <1>1, <1>2, <1>3, <1>4, <1>5, <1>6, <1>7, <1>8 DEF Service

(* What service() says of the transmission: an unknown outcome is the only *)
(* one it leaves a key for, a completion is reported only with success,    *)
(* and a transmission that ends is reported, left as unknown, or lost to   *)
(* an error of the radio.                                                  *)
Reported ==
  /\ report.res # "TxOutcomeUnknown" => txFailure = None
  /\ report.done # None => report.res = "Ok"

LEMMA ServiceReports ==
  ASSUME NEW mayTx, NEW dutyOk, NEW got, Service(mayTx, dutyOk, got)
  PROVE  /\ Reported'
         /\ inFlight # None /\ inFlight' = None =>
              report'.done = inFlight \/ txFailure' = inFlight.key \/ report'.res = "Hardware"
  <1>1. CASE PollTxPending
    BY <1>1 DEF PollTxPending, OkReport, Reported
  <1>2. ASSUME NEW restarted \in BOOLEAN, PollTxUnknown(restarted)
        PROVE  Reported' /\ txFailure' = inFlight.key
    BY <1>2 DEF PollTxUnknown, ErrReport, Reported
  <1>3. CASE RestartRxFails
    BY <1>3 DEF RestartRxFails, ErrReport, Reported
  <1>4. ASSUME NEW b \in Beginnings
        PROVE  b.done = inFlight
    <2>1. CASE inFlight # None
      <3>1. PICK ok \in BOOLEAN : b = [done |-> inFlight, owed |-> ~ok, m |-> ModeAfterStartRx(ok)]
        BY <1>4, <2>1, Zenon DEF Beginnings
      <3> QED
        BY <3>1, Zenon
    <2>2. CASE inFlight = None
      <3>1. b = [done |-> None, owed |-> FALSE, m |-> IF rxRestart THEN "rx" ELSE mode]
        BY <1>4, <2>2, Zenon DEF Beginnings
      <3> QED
        BY <2>2, <3>1
    <2> QED
      BY <2>1, <2>2
  <1>5. ASSUME NEW b \in Beginnings, NEW m \in {"rx", "off"}, RecvFails(b, got, m)
        PROVE  Reported' /\ report'.res = "Hardware"
    BY <1>5 DEF RecvFails, ErrReport, Reported
  <1>6. ASSUME NEW b \in Beginnings, NEW busy \in BOOLEAN,
               ServeWithoutSend(b, got, busy, mayTx, dutyOk)
        PROVE  Reported' /\ report'.done = inFlight
    BY <1>4, <1>6 DEF ServeWithoutSend, OkReport, Reported
  <1>7. ASSUME NEW b \in Beginnings, BusyCheckFails(b, got)
        PROVE  Reported' /\ inFlight = None
    BY <1>4, <1>7 DEF BusyCheckFails, ErrReport, Reported
  <1>8. ASSUME NEW b \in Beginnings, NEW certain \in BOOLEAN, SendStarts(b, mayTx, dutyOk, certain)
        PROVE  Reported' /\ inFlight = None
    <2>1. report' = OkReport(None, None, 0) \/ report' = ErrReport("TxOutcomeUnknown")
      BY <1>8 DEF SendStarts
    <2> QED
      BY <1>4, <1>8, <2>1 DEF SendStarts, MayStartSend, OkReport, ErrReport, Reported
  <1>9. ASSUME NEW b \in Beginnings, NEW restarted \in BOOLEAN,
               SendDoesNotStart(b, mayTx, dutyOk, restarted)
        PROVE  Reported' /\ inFlight = None
    BY <1>4, <1>9 DEF SendDoesNotStart, MayStartSend, ErrReport, Reported
  <1> QED
    BY <1>1, <1>2, <1>3, <1>5, <1>6, <1>7, <1>8, <1>9 DEF Service, PollTxPending, RestartRxFails

-----------------------------------------------------------------------------
(* How many frames of a queue have a key. *)
Having(q, k) == {i \in DOMAIN q : q[i].key = k}

LEMMA HavingFinite ==
  ASSUME NEW q \in Seq(TxFrames), NEW k
  PROVE  IsFiniteSet(Having(q, k)) /\ Cardinality(Having(q, k)) \in Nat
  <1>1. Having(q, k) \in SUBSET (1..Len(q)) /\ Len(q) \in Nat
    BY DEF Having
  <1>2. IsFiniteSet(1..Len(q))
    BY <1>1, FS_Interval
  <1> QED
    BY <1>1, <1>2, FS_Subset, FS_CardinalityType

(* enqueue_tx adds one. *)
LEMMA HavingAppend ==
  ASSUME NEW q \in Seq(TxFrames), NEW f \in TxFrames, NEW k
  PROVE  Cardinality(Having(Append(q, f), k))
           = Cardinality(Having(q, k)) + IF f.key = k THEN 1 ELSE 0
  <1>1. /\ DOMAIN Append(q, f) = 1..(Len(q) + 1) /\ DOMAIN q = 1..Len(q) /\ Len(q) \in Nat
        /\ Append(q, f)[Len(q) + 1] = f
        /\ \A i \in 1..Len(q) : Append(q, f)[i] = q[i]
    BY AppendFacts
  <1>2. IsFiniteSet(Having(q, k)) /\ Cardinality(Having(q, k)) \in Nat
    BY HavingFinite
  <1>3. CASE f.key = k
    <2>1. Having(Append(q, f), k) = Having(q, k) \cup {Len(q) + 1}
      BY <1>1, <1>3 DEF Having
    <2>2. Len(q) + 1 \notin Having(q, k)
      BY <1>1 DEF Having
    <2> QED
      BY <1>2, <1>3, <2>1, <2>2, FS_AddElement
  <1>4. CASE f.key # k
    <2>1. Having(Append(q, f), k) = Having(q, k)
      BY <1>1, <1>4 DEF Having
    <2> QED
      BY <1>2, <1>4, <2>1
  <1> QED
    BY <1>3, <1>4

(* Dropping the head takes one away. *)
LEMMA HavingTail ==
  ASSUME NEW q \in Seq(TxFrames), q # <<>>, NEW k
  PROVE  Cardinality(Having(q, k))
           = Cardinality(Having(Tail(q), k)) + IF Head(q).key = k THEN 1 ELSE 0
  <1>1. /\ Tail(q) \in Seq(TxFrames) /\ Len(Tail(q)) = Len(q) - 1 /\ Head(q) = q[1]
        /\ \A i \in DOMAIN Tail(q) : i + 1 \in DOMAIN q /\ Tail(q)[i] = q[i + 1]
        /\ \A i \in DOMAIN q : i > 1 => i - 1 \in DOMAIN Tail(q) /\ Tail(q)[i - 1] = q[i]
        /\ 1 \in DOMAIN q
    BY TailFacts
  <1>2. \A i \in DOMAIN Tail(q) : i \in Nat /\ i >= 1
    BY <1>1
  <1>3. \A i \in DOMAIN q : i \in Nat /\ i >= 1
    OBVIOUS
  <1>4. IsFiniteSet(Having(q, k)) /\ IsFiniteSet(Having(Tail(q), k))
        /\ Cardinality(Having(q, k)) \in Nat
    BY <1>1, HavingFinite
  <1> DEFINE shift == [i \in Having(Tail(q), k) |-> i + 1]
             behind == Having(q, k) \ {1}
  <1>5. shift \in Bijection(Having(Tail(q), k), behind)
    <2>1. \A i \in Having(Tail(q), k) : i \in Nat /\ i + 1 \in behind
      BY <1>1, <1>2 DEF Having
    <2>2. \A j \in behind : j - 1 \in Having(Tail(q), k) /\ j = shift[j - 1]
      <3> TAKE j \in behind
      <3>1. j \in DOMAIN q /\ q[j].key = k /\ j # 1 /\ j \in Nat
        BY <1>3 DEF Having
      <3>2. j > 1
        BY <1>3, <3>1
      <3>3. j - 1 \in Having(Tail(q), k)
        BY <1>1, <3>1, <3>2 DEF Having
      <3> QED
        BY <3>1, <3>2, <3>3
    <2>3. \A i, j \in Having(Tail(q), k) : shift[i] = shift[j] => i = j
      BY <2>1
    <2>4. shift \in [Having(Tail(q), k) -> behind]
      BY <2>1
    <2>5. \A j \in behind : \E i \in Having(Tail(q), k) : shift[i] = j
      BY <2>2
    <2> HIDE DEF shift, behind
    <2> QED
      BY <2>3, <2>4, <2>5 DEF Bijection, Injection, IsInjective, Surjection
  <1>6. Cardinality(behind) = Cardinality(Having(Tail(q), k))
    BY <1>4, <1>5, FS_Bijection DEF ExistsBijection
  <1>7. Cardinality(behind) =
          IF 1 \in Having(q, k) THEN Cardinality(Having(q, k)) - 1 ELSE Cardinality(Having(q, k))
    BY <1>4, FS_RemoveElement
  <1>8. 1 \in Having(q, k) <=> Head(q).key = k
    BY <1>1 DEF Having
  <1> QED
    BY <1>4, <1>6, <1>7, <1>8

(* remove_where leaves nothing of what it removes and adds nothing. *)
LEMMA HavingRemove ==
  ASSUME NEW q \in Seq(TxFrames), NEW K, NEW p \in RemoveWhere(q, K), NEW k
  PROVE  /\ p \in Seq(TxFrames) /\ Len(p) <= Len(q)
         /\ Cardinality(Having(p, k)) <= Cardinality(Having(q, k))
         /\ k \notin K => Cardinality(Having(p, k)) = Cardinality(Having(q, k))
  <1>1. PICK keep \in [DOMAIN p -> DOMAIN q] : Keeps(q, K, p, keep)
    BY RemoveWhereFacts
  <1>2. p \in Seq(TxFrames) /\ Len(p) <= Len(q)
    BY RemoveWhereFacts
  <1>3. /\ IsFiniteSet(Having(q, k)) /\ IsFiniteSet(Having(p, k))
        /\ Cardinality(Having(q, k)) \in Nat /\ Cardinality(Having(p, k)) \in Nat
    BY <1>2, HavingFinite
  <1> DEFINE place == [i \in Having(p, k) |-> keep[i]]
  <1>4. place \in Injection(Having(p, k), Having(q, k))
    <2>1. \A i \in Having(p, k) : place[i] \in Having(q, k)
      BY <1>1 DEF Having, Keeps
    <2>2. \A i, j \in Having(p, k) : place[i] = place[j] => i = j
      <3> TAKE i, j \in Having(p, k)
      <3>1. i \in DOMAIN p /\ j \in DOMAIN p /\ i \in Nat /\ j \in Nat
        BY <1>2 DEF Having
      <3>2. keep[i] \in Nat /\ keep[j] \in Nat
        BY <1>1, <3>1
      <3>3. (i < j => keep[i] < keep[j]) /\ (j < i => keep[j] < keep[i])
        BY <1>1, <3>1 DEF Keeps
      <3> QED
        BY <3>1, <3>2, <3>3
    <2> HIDE DEF place
    <2>3. place \in [Having(p, k) -> Having(q, k)]
      BY <2>1 DEF place
    <2> QED
      BY <2>2, <2>3 DEF Injection, IsInjective
  <1>5. ASSUME k \notin K
        PROVE  place \in Surjection(Having(p, k), Having(q, k))
    <2>1. \A j \in Having(q, k) : \E i \in Having(p, k) : place[i] = j
      BY <1>1, <1>5 DEF Having, Keeps
    <2>2. place \in [Having(p, k) -> Having(q, k)]
      BY <1>4 DEF Injection
    <2> HIDE DEF place
    <2> QED
      BY <2>1, <2>2 DEF Surjection
  <1> HIDE DEF place
  <1> QED
    BY <1>2, <1>3, <1>4, <1>5, FS_Injection
=============================================================================
