-------------------------- MODULE RadioSlotProofs --------------------------
(***************************************************************************)
(* The radio slot for every number of keys, frames and queue slots.  The   *)
(* inductive invariant orders what was aired before what is queued, and    *)
(* says that exactly the open frames are queued or in flight.              *)
(***************************************************************************)
EXTENDS RadioSlotSpec, SlotLemmas

(* The transmit queue is in the order of enqueue_tx, behind everything     *)
(* that was aired, and holds nothing that remove_tx cancelled.             *)
QueueInOrder ==
  /\ \A i, j \in DOMAIN txq : i < j => txq[i].n < txq[j].n
  /\ \A i \in DOMAIN txq : txq[i].n <= pushed /\ cancelled[txq[i].key] < txq[i].n
  /\ \A i \in DOMAIN aired : aired[i] <= pushed /\ \A j \in DOMAIN txq : aired[i] < txq[j].n
  /\ \A k \in Keys : cancelled[k] <= pushed
  /\ inFlight # None => \E i \in DOMAIN aired : aired[i] = inFlight.n

(* The frames without an outcome are those queued or in flight. *)
QueuedFrame(n) == \E i \in DOMAIN txq : txq[i].n = n
FlyingFrame(n) == inFlight # None /\ inFlight.n = n
OpenAreHeld == \A n \in 1..MaxTx : outcome[n] = "open" <=> QueuedFrame(n) \/ FlyingFrame(n)

IInv == TypeOK /\ ReceivedInOrder /\ AiredInOrder /\ QueueInOrder /\ OpenAreHeld

-----------------------------------------------------------------------------
(* What is known of each frame of a transmit queue. *)
LEMMA FrameFacts ==
  ASSUME NEW q \in Seq(TxFrames), NEW i \in DOMAIN q
  PROVE  /\ i \in Nat /\ i >= 1 /\ i <= Len(q)
         /\ q[i] \in TxFrames /\ q[i].n \in 1..MaxTx /\ q[i].n \in Nat /\ q[i].key \in Keys
  <1>1. q[i] \in TxFrames /\ i \in 1..Len(q)
    OBVIOUS
  <1> QED
    BY <1>1, FramesAreNumbered

-----------------------------------------------------------------------------
LEMMA Initial == Init => IInv
  <1> SUFFICES ASSUME Init PROVE IInv
    OBVIOUS
  <1>1. OkReport(None, None, 0) \in Reports
    BY QueueSizes DEF OkReport, Reports
  <1>2. SlotTypeOK
    <2>1. txq \in Seq(TxFrames) /\ rxq \in Seq(RxFrames) /\ Len(txq) = 0 /\ Len(rxq) = 0
      BY DEF Init, SlotInit
    <2>2. rxRestart \in BOOLEAN
      BY Zenon DEF Init, SlotInit
    <2> QED
      BY <1>1, <2>1, <2>2, QueueSizes DEF Init, SlotInit, SlotTypeOK
  <1>3. TypeOK
    BY <1>2, FramesAreNumbered DEF Init, TypeOK, Outcomes
  <1> QED
    BY <1>3, FramesAreNumbered DEF QueuedFrame, FlyingFrame, Init, SlotInit, IInv, ReceivedInOrder, AiredInOrder, QueueInOrder, OpenAreHeld

LEMMA EnqueueKeeps ==
  ASSUME IInv, NEW k \in Keys, Enqueue(k)
  PROVE  IInv'
  <1> DEFINE f == [key |-> k, n |-> pushed + 1]
  <1>0. /\ txq \in Seq(TxFrames) /\ Len(txq) < TX /\ TX \in Nat
        /\ f \in TxFrames /\ f.n = pushed + 1 /\ f.key = k /\ txq' = Append(txq, f)
        /\ pushed \in 0..MaxTx /\ pushed' = pushed + 1 /\ pushed + 1 \in 1..MaxTx
    BY FramesAreNumbered, QueueSizes DEF IInv, TypeOK, SlotTypeOK, Enqueue, PushTx
  <1>1. /\ txq' \in Seq(TxFrames) /\ Len(txq') = Len(txq) + 1
        /\ DOMAIN txq' = 1..(Len(txq) + 1) /\ DOMAIN txq = 1..Len(txq)
        /\ txq'[Len(txq) + 1] = f
        /\ \A i \in 1..Len(txq) : txq'[i] = txq[i]
    BY <1>0
  <1>2. TypeOK'
    BY <1>0, <1>1 DEF IInv, TypeOK, SlotTypeOK, Enqueue, PushTx, Outcomes
  <1>3. ReceivedInOrder' /\ AiredInOrder'
    BY DEF IInv, ReceivedInOrder, AiredInOrder, Enqueue, PushTx
  <1>4. QueueInOrder'
    <2>0. /\ aired' = aired /\ cancelled' = cancelled /\ inFlight' = inFlight
          /\ \A i \in 1..Len(txq) : txq[i] \in TxFrames /\ txq[i].n \in Nat /\ txq[i].key \in Keys
          /\ \A i \in DOMAIN aired : aired[i] \in Nat
          /\ \A c \in Keys : cancelled[c] \in Nat
      <3>1. \A i \in 1..Len(txq) : txq[i] \in TxFrames /\ txq[i].n \in Nat /\ txq[i].key \in Keys
        BY <1>0, <1>1, FrameFacts
      <3>2. aired \in Seq(1..MaxTx) /\ cancelled \in [Keys -> 0..MaxTx]
        BY DEF IInv, TypeOK
      <3>3. \A i \in DOMAIN aired : aired[i] \in Nat
        BY <3>2, MemberFacts, FramesAreNumbered
      <3> QED
        BY <3>1, <3>2, <3>3 DEF Enqueue, PushTx
    <2> QED
      BY <1>0, <1>1, <2>0 DEF IInv, QueueInOrder
  <1>5. OpenAreHeld'
    <2>1. outcome' = [outcome EXCEPT ![pushed + 1] = "open"] /\ outcome \in [1..MaxTx -> Outcomes]
          /\ inFlight' = inFlight
      BY DEF Enqueue, PushTx, IInv, TypeOK
    <2> SUFFICES ASSUME NEW n \in 1..MaxTx
                 PROVE  outcome'[n] = "open" <=> QueuedFrame(n)' \/ FlyingFrame(n)'
      BY DEF OpenAreHeld
    <2>2. CASE n = pushed + 1
      BY <1>0, <1>1, <2>1, <2>2 DEF QueuedFrame
    <2>3. CASE n # pushed + 1
      <3>1. QueuedFrame(n)' <=> QueuedFrame(n)
        BY <1>0, <1>1, <2>3 DEF QueuedFrame
      <3> QED
        BY <2>1, <2>3, <3>1 DEF IInv, OpenAreHeld, FlyingFrame
    <2> QED
      BY <2>2, <2>3
  <1> QED
    BY <1>2, <1>3, <1>4, <1>5 DEF IInv

LEMMA CancelKeeps ==
  ASSUME IInv, NEW k \in Keys, Cancel(k)
  PROVE  IInv'
  <1>0. /\ txq \in Seq(TxFrames) /\ Len(txq) \in 0..TX /\ txq' \in RemoveWhere(txq, {k})
        /\ inFlight' = inFlight /\ pushed' = pushed /\ aired' = aired /\ pushed \in Nat
        /\ cancelled' = [cancelled EXCEPT ![k] = pushed] /\ cancelled \in [Keys -> 0..MaxTx]
        /\ TX \in Nat
    BY QueueSizes DEF IInv, TypeOK, SlotTypeOK, Cancel, RemoveTx
  <1>1. txq' \in Seq(TxFrames) /\ Len(txq') <= Len(txq)
    BY <1>0, RemoveWhereFacts
  <1>2. PICK keep \in [DOMAIN txq' -> DOMAIN txq] : Keeps(txq, {k}, txq', keep)
    BY <1>0, RemoveWhereFacts
  <1>3. TypeOK'
    <2>1. outcome' \in [1..MaxTx -> Outcomes]
      BY DEF Cancel, IInv, TypeOK, Outcomes
    <2>2. Len(txq') \in 0..TX
      BY <1>0, <1>1
    <2> QED
      BY <1>0, <1>1, <2>1, <2>2 DEF IInv, TypeOK, SlotTypeOK, Cancel, RemoveTx
  <1>4. ReceivedInOrder' /\ AiredInOrder'
    BY DEF IInv, ReceivedInOrder, AiredInOrder, Cancel, RemoveTx
  <1>5. QueueInOrder'
    <2>1. \A i \in DOMAIN txq : txq[i].key \in Keys
      BY <1>0, FramesHaveKeys
    <2>2. \A i, j \in DOMAIN txq' : i < j => txq'[i].n < txq'[j].n
      BY <1>2 DEF IInv, QueueInOrder, Keeps
    <2>3. \A i \in DOMAIN txq' : txq'[i].n <= pushed /\ cancelled'[txq'[i].key] < txq'[i].n
      BY <1>0, <1>2, <2>1 DEF IInv, QueueInOrder, Keeps
    <2>4. \A i \in DOMAIN aired : aired[i] <= pushed /\ \A j \in DOMAIN txq' : aired[i] < txq'[j].n
      BY <1>2 DEF IInv, QueueInOrder, Keeps
    <2>5. \A c \in Keys : cancelled'[c] <= pushed
      BY <1>0 DEF IInv, QueueInOrder
    <2> QED
      BY <1>0, <2>2, <2>3, <2>4, <2>5 DEF IInv, QueueInOrder
  <1>6. OpenAreHeld'
    <2> SUFFICES ASSUME NEW n \in 1..MaxTx
                 PROVE  outcome'[n] = "open" <=> QueuedFrame(n)' \/ FlyingFrame(n)'
      BY DEF OpenAreHeld
    <2>0. \A i, j \in DOMAIN txq : txq[i].n = txq[j].n => i = j
      <3>1. \A i \in DOMAIN txq : i \in Nat /\ txq[i].n \in Nat
        BY <1>0, FrameFacts
      <3> QED
        BY <3>1 DEF IInv, QueueInOrder
    <2>1. CASE \E i \in DOMAIN txq : txq[i].n = n /\ txq[i].key = k
      <3>1. outcome'[n] = "cancelled"
        BY <2>1 DEF Cancel
      <3>2. ~QueuedFrame(n)'
        BY <1>2, <2>0, <2>1 DEF QueuedFrame, Keeps
      <3>3. ~FlyingFrame(n)
        <4>1. \A i \in DOMAIN txq : txq[i].n \in Nat
          BY <1>0, FrameFacts
        <4> QED
          BY <2>1, <4>1 DEF IInv, QueueInOrder, FlyingFrame
      <3> QED
        BY <1>0, <3>1, <3>2, <3>3 DEF FlyingFrame
    <2>2. CASE ~\E i \in DOMAIN txq : txq[i].n = n /\ txq[i].key = k
      <3>1. outcome'[n] = outcome[n]
        BY <2>2 DEF Cancel
      <3>2. QueuedFrame(n)' <=> QueuedFrame(n)
        BY <1>2, <2>2 DEF QueuedFrame, Keeps
      <3> QED
        BY <1>0, <3>1, <3>2 DEF IInv, OpenAreHeld, FlyingFrame
    <2> QED
      BY <2>1, <2>2
  <1> QED
    BY <1>3, <1>4, <1>5, <1>6 DEF IInv
(* The head leaves the queue: what stays is still in order behind it. *)
LEMMA TailInOrder ==
  ASSUME IInv, txq # <<>>
  PROVE  /\ \A i, j \in DOMAIN Tail(txq) : i < j => Tail(txq)[i].n < Tail(txq)[j].n
         /\ \A i \in DOMAIN Tail(txq) :
              /\ Tail(txq)[i].n <= pushed /\ cancelled[Tail(txq)[i].key] < Tail(txq)[i].n
              /\ Head(txq).n < Tail(txq)[i].n
              /\ \A j \in DOMAIN aired : aired[j] < Tail(txq)[i].n
         /\ Head(txq).n <= pushed /\ cancelled[Head(txq).key] < Head(txq).n
         /\ \A j \in DOMAIN aired : aired[j] < Head(txq).n
         /\ Head(txq) \in TxFrames /\ Head(txq).n \in 1..MaxTx
         /\ \A n \in 1..MaxTx :
              QueuedFrame(n) <=> Head(txq).n = n \/ \E i \in DOMAIN Tail(txq) : Tail(txq)[i].n = n
  <1> DEFINE t == Tail(txq)
  <1>0. txq \in Seq(TxFrames)
    BY DEF IInv, TypeOK, SlotTypeOK
  <1>1. /\ t \in Seq(TxFrames) /\ Head(txq) = txq[1] /\ 1 \in DOMAIN txq
        /\ \A i \in DOMAIN t : i + 1 \in DOMAIN txq /\ t[i] = txq[i + 1]
        /\ \A i \in DOMAIN txq : i > 1 => i - 1 \in DOMAIN t /\ t[i - 1] = txq[i]
    BY <1>0, TailFacts
  <1>2. \A i \in DOMAIN t : i \in Nat /\ i >= 1
    BY <1>1, FrameFacts
  <1>3. Head(txq) \in TxFrames /\ Head(txq).n \in 1..MaxTx
    BY <1>0, <1>1, FrameFacts
  <1>4. /\ \A i, j \in DOMAIN t : i < j => t[i].n < t[j].n
        /\ \A i \in DOMAIN t : t[i].n <= pushed /\ cancelled[t[i].key] < t[i].n
        /\ \A i \in DOMAIN t : Head(txq).n < t[i].n
        /\ \A i \in DOMAIN t : \A j \in DOMAIN aired : aired[j] < t[i].n
        /\ Head(txq).n <= pushed /\ cancelled[Head(txq).key] < Head(txq).n
        /\ \A j \in DOMAIN aired : aired[j] < Head(txq).n
    BY <1>1, <1>2 DEF IInv, QueueInOrder
  <1>5. ASSUME NEW n \in 1..MaxTx
        PROVE  QueuedFrame(n) <=> Head(txq).n = n \/ \E i \in DOMAIN t : t[i].n = n
    <2>1. \A i \in DOMAIN txq : i \in Nat /\ i >= 1
      BY <1>0, FrameFacts
    <2>2. \A i \in DOMAIN txq : i = 1 \/ i > 1
      BY <2>1
    <2> QED
      BY <1>1, <2>2 DEF QueuedFrame
  <1> QED
    BY <1>3, <1>4, <1>5

LEMMA DiscardKeeps ==
  ASSUME IInv, Discard
  PROVE  IInv'
  <1>0. /\ txq # <<>> /\ txq' = Tail(txq) /\ inFlight' = inFlight /\ pushed' = pushed
        /\ aired' = aired /\ cancelled' = cancelled
        /\ outcome' = [outcome EXCEPT ![Head(txq).n] = "discarded"]
        /\ txq \in Seq(TxFrames) /\ Len(txq) \in 0..TX /\ TX \in Nat
        /\ outcome \in [1..MaxTx -> Outcomes]
    BY QueueSizes DEF Discard, PopTx, IInv, TypeOK, SlotTypeOK
  <1>1. txq' \in Seq(TxFrames) /\ Len(txq') \in 0..TX
    BY <1>0, TailFacts
  <1>2. TypeOK'
    BY <1>0, <1>1 DEF Discard, PopTx, IInv, TypeOK, SlotTypeOK, Outcomes
  <1>3. ReceivedInOrder' /\ AiredInOrder'
    BY DEF IInv, ReceivedInOrder, AiredInOrder, Discard, PopTx
  <1>4. QueueInOrder'
    BY <1>0, TailInOrder DEF IInv, QueueInOrder
  <1>5. OpenAreHeld'
    <2> SUFFICES ASSUME NEW n \in 1..MaxTx
                 PROVE  outcome'[n] = "open" <=> QueuedFrame(n)' \/ FlyingFrame(n)'
      BY DEF OpenAreHeld
    <2>1. QueuedFrame(n)' <=> \E i \in DOMAIN Tail(txq) : Tail(txq)[i].n = n
      BY <1>0 DEF QueuedFrame
    <2>2. CASE n = Head(txq).n
      <3>1. ~QueuedFrame(n)'
        BY <1>0, <2>1, <2>2, TailInOrder
      <3>2. ~FlyingFrame(n)'
        BY <1>0, <2>2, TailInOrder DEF FlyingFrame, IInv, QueueInOrder
      <3> QED
        BY <1>0, <2>2, <3>1, <3>2
    <2>3. CASE n # Head(txq).n
      BY <1>0, <2>1, <2>3, TailInOrder DEF IInv, OpenAreHeld, FlyingFrame
    <2> QED
      BY <2>2, <2>3
  <1> QED
    BY <1>2, <1>3, <1>4, <1>5 DEF IInv

(* Handing up the front of a queue of consecutive receptions. *)
LEMMA HandUp ==
  ASSUME NEW q \in Seq(RxFrames), q # <<>>, NEW h \in Nat,
         \A i \in DOMAIN q : q[i] = h + i
  PROVE  /\ Head(q) = h + 1 /\ Tail(q) \in Seq(RxFrames) /\ Len(Tail(q)) = Len(q) - 1
         /\ \A i \in DOMAIN Tail(q) : Tail(q)[i] = Head(q) + i
         /\ Head(q) \in RxFrames
  <1>1. /\ Tail(q) \in Seq(RxFrames) /\ Len(Tail(q)) = Len(q) - 1
        /\ Head(q) = q[1] /\ 1 \in DOMAIN q /\ Head(q) \in RxFrames
        /\ \A i \in DOMAIN Tail(q) : i + 1 \in DOMAIN q /\ Tail(q)[i] = q[i + 1]
    BY TailFacts
  <1>2. \A i \in DOMAIN Tail(q) : i \in Nat
    BY <1>1, MemberFacts
  <1> QED
    BY <1>1, <1>2

LEMMA HandKeeps ==
  ASSUME IInv, Hand
  PROVE  IInv'
  <1>0. /\ rxq \in Seq(RxFrames) /\ rxq # <<>> /\ handed \in Nat /\ heard \in Nat
        /\ \A i \in DOMAIN rxq : rxq[i] = handed + i
        /\ handed + Len(rxq) = heard /\ Len(rxq) \in 0..RX /\ RX \in Nat
        /\ rxq' = Tail(rxq) /\ handed' = Head(rxq) /\ heard' = heard
    BY QueueSizes DEF IInv, TypeOK, SlotTypeOK, ReceivedInOrder, Hand, PopRx
  <1>1. /\ Head(rxq) = handed + 1 /\ Tail(rxq) \in Seq(RxFrames) /\ Len(Tail(rxq)) = Len(rxq) - 1
        /\ \A i \in DOMAIN Tail(rxq) : Tail(rxq)[i] = Head(rxq) + i
        /\ Head(rxq) \in RxFrames /\ Len(rxq) >= 1
    BY <1>0, HandUp
  <1>2. handed' \in 0..MaxRx /\ Len(rxq') \in 0..RX
    BY <1>0, <1>1, FramesAreNumbered
  <1>3. TypeOK'
    BY <1>0, <1>1, <1>2 DEF Hand, PopRx, IInv, TypeOK, SlotTypeOK
  <1>4. ReceivedInOrder'
    BY <1>0, <1>1 DEF ReceivedInOrder
  <1>5. AiredInOrder' /\ QueueInOrder' /\ OpenAreHeld'
    BY DEF Hand, PopRx, IInv, AiredInOrder, QueueInOrder, OpenAreHeld, QueuedFrame, FlyingFrame
  <1> QED
    BY <1>3, <1>4, <1>5 DEF IInv

-----------------------------------------------------------------------------
(* The frames the driver hands over in one call continue the receptions. *)
Got(count) == [i \in 1..count |-> heard + i]

LEMMA GotFacts ==
  ASSUME IInv, NEW count \in 0..RX, heard + count <= MaxRx
  PROVE  /\ Got(count) \in Seq(RxFrames) /\ Len(Got(count)) = count
         /\ rxq \o Got(count) \in Seq(RxFrames)
         /\ Len(rxq \o Got(count)) = Len(rxq) + count
         /\ \A i \in DOMAIN (rxq \o Got(count)) : (rxq \o Got(count))[i] = handed + i
  <1> DEFINE got == Got(count)
  <1>0. /\ rxq \in Seq(RxFrames) /\ Len(rxq) \in Nat /\ RX \in Nat /\ count \in Nat
        /\ heard \in Nat /\ handed \in Nat /\ handed + Len(rxq) = heard
        /\ \A i \in 1..Len(rxq) : rxq[i] = handed + i
    BY QueueSizes DEF IInv, TypeOK, SlotTypeOK, ReceivedInOrder
  <1>1. \A i \in 1..count : heard + i \in RxFrames
    BY <1>0, FramesAreNumbered
  <1>2. got \in Seq(RxFrames) /\ Len(got) = count /\ \A i \in 1..count : got[i] = heard + i
    BY <1>0, <1>1 DEF Got
  <1> HIDE DEF got
  <1>3. PICK all : all = rxq \o got
    OBVIOUS
  <1>3a. /\ all \in Seq(RxFrames) /\ Len(all) = Len(rxq) + count
         /\ \A i \in 1..(Len(rxq) + count) :
              all[i] = IF i <= Len(rxq) THEN rxq[i] ELSE got[i - Len(rxq)]
    BY <1>0, <1>2, <1>3, ConcatProperties
  <1>4. ASSUME NEW i \in 1..(Len(rxq) + count)
        PROVE  all[i] = handed + i
    <2>1. CASE i <= Len(rxq)
      BY <1>0, <1>3a, <2>1
    <2>2. CASE ~(i <= Len(rxq))
      <3>1. i - Len(rxq) \in 1..count
        BY <1>0, <2>2
      <3>2. got[i - Len(rxq)] = heard + (i - Len(rxq))
        BY <1>2, <3>1
      <3>3. all[i] = heard + (i - Len(rxq))
        BY <1>3a, <2>2, <3>2
      <3>4. i \in Nat /\ heard \in Nat /\ handed \in Nat /\ Len(rxq) \in Nat
            /\ handed + Len(rxq) = heard
        BY <1>0
      <3>5. heard + (i - Len(rxq)) = handed + i
        BY <3>4
      <3> QED
        BY <3>3, <3>5
    <2> QED
      BY <2>1, <2>2
  <1>5. \A i \in DOMAIN all : all[i] = handed + i
    BY <1>3a, <1>4
  <1> QED
    BY <1>2, <1>3, <1>3a, <1>5 DEF got

LEMMA ServiceKeeps ==
  ASSUME IInv, NEW mayTx \in BOOLEAN, NEW dutyOk \in BOOLEAN, NEW count \in 0..RX,
         ServiceCall(mayTx, dutyOk, count)
  PROVE  IInv'
  <1> DEFINE got == Got(count)
  <1>0. /\ heard + count <= MaxRx /\ heard \in Nat /\ handed \in 0..MaxRx /\ count \in Nat
        /\ handed + Len(rxq) = heard /\ Len(rxq) \in Nat
        /\ heard' = heard + count /\ pushed' = pushed /\ cancelled' = cancelled
        /\ handed' = IF report'.rx # None THEN report'.rx ELSE handed
        /\ aired' = IF inFlight' # None /\ inFlight = None THEN Append(aired, inFlight'.n) ELSE aired
        /\ outcome' = IF inFlight # None /\ inFlight' = None
                      THEN [outcome EXCEPT ![inFlight.n] = OutcomeTold] ELSE outcome
        /\ outcome \in [1..MaxTx -> Outcomes] /\ aired \in Seq(1..MaxTx) /\ MaxRx \in Nat
    BY FramesAreNumbered, QueueSizes DEF ServiceCall, IInv, TypeOK, SlotTypeOK, ReceivedInOrder
  <1>1. got \in Seq(RxFrames)
    BY <1>0, GotFacts
  <1>2. SlotTypeOK' /\ Transmits(got) /\ Receives(got)
    <2>1. SlotTypeOK /\ Service(mayTx, dutyOk, got)
      BY DEF IInv, TypeOK, ServiceCall, Got
    <2> QED
      BY <1>1, <2>1, ServiceFacts
  <1>3. ReceivedInOrder' /\ handed' \in 0..MaxRx
    <2>0. PICK all : all = rxq \o got
      OBVIOUS
    <2>1. /\ all \in Seq(RxFrames) /\ Len(all) = Len(rxq) + count
          /\ \A i \in DOMAIN all : all[i] = handed + i
      BY <1>0, <2>0, GotFacts
    <2>2. CASE rxq' = all /\ report'.rx = None
      <3>0. handed' = handed /\ Len(rxq') = Len(rxq) + count
        BY <1>0, <2>1, <2>2
      <3>1. handed' = handed /\ handed' + Len(rxq') = heard'
        BY <1>0, <3>0
      <3> QED
        BY <1>0, <2>1, <2>2, <3>1 DEF ReceivedInOrder
    <2>3. CASE all # <<>> /\ rxq' = Tail(all) /\ report'.rx = Head(all)
      <3>1. /\ Head(all) = handed + 1 /\ Head(all) \in RxFrames /\ Len(Tail(all)) = Len(all) - 1
            /\ \A i \in DOMAIN Tail(all) : Tail(all)[i] = Head(all) + i
        <4>1. handed \in Nat /\ all # <<>>
          BY <1>0, <2>3
        <4> QED
          BY <2>1, <4>1, HandUp
      <3>2. handed' = Head(all) /\ handed' \in 1..MaxRx
        BY <1>0, <2>3, <3>1, NoneIsNoFrame, FramesAreNumbered
      <3>3. handed' + Len(rxq') = heard' /\ \A i \in DOMAIN rxq' : rxq'[i] = handed' + i
        BY <1>0, <2>1, <2>3, <3>1, <3>2
      <3> QED
        BY <3>2, <3>3 DEF ReceivedInOrder
    <2> QED
      BY <1>2, <2>0, <2>2, <2>3 DEF Receives
  <1>4. ASSUME txq' = txq, inFlight' = inFlight
        PROVE  TypeOK' /\ AiredInOrder' /\ QueueInOrder' /\ OpenAreHeld'
    <2>1. aired' = aired /\ outcome' = outcome
      BY <1>0, <1>4
    <2> QED
      BY <1>0, <1>2, <1>3, <1>4, <2>1
      DEF IInv, TypeOK, AiredInOrder, QueueInOrder, OpenAreHeld, QueuedFrame, FlyingFrame
  <1>5. ASSUME txq' = txq, inFlight # None, inFlight' = None
        PROVE  TypeOK' /\ AiredInOrder' /\ QueueInOrder' /\ OpenAreHeld'
    <2>1. aired' = aired /\ outcome' = [outcome EXCEPT ![inFlight.n] = OutcomeTold]
      BY <1>0, <1>5
    <2>2. inFlight \in TxFrames /\ inFlight.n \in 1..MaxTx
      BY <1>5, FramesAreNumbered DEF IInv, TypeOK, SlotTypeOK
    <2>3. OutcomeTold \in Outcomes /\ OutcomeTold # "open"
      BY DEF OutcomeTold, Outcomes
    <2>4. TypeOK'
      BY <1>0, <1>2, <1>3, <2>1, <2>2, <2>3 DEF IInv, TypeOK
    <2>5. AiredInOrder' /\ QueueInOrder'
      BY <1>0, <1>5, <2>1 DEF IInv, AiredInOrder, QueueInOrder
    <2>6. ASSUME NEW n \in 1..MaxTx
          PROVE  outcome'[n] = "open" <=> QueuedFrame(n)' \/ FlyingFrame(n)'
      <3>1. ~FlyingFrame(n)' /\ (QueuedFrame(n)' <=> QueuedFrame(n))
        BY <1>5 DEF FlyingFrame, QueuedFrame
      <3>2. CASE n = inFlight.n
        <4>1. ~QueuedFrame(n)
          <5>1. txq \in Seq(TxFrames)
            BY DEF IInv, TypeOK, SlotTypeOK
          <5>2. \A i \in DOMAIN txq : txq[i].n \in Nat
            BY <5>1, FrameFacts
          <5> QED
            BY <1>5, <3>2, <5>2 DEF QueuedFrame, IInv, QueueInOrder
        <4> QED
          BY <1>0, <2>1, <2>2, <2>3, <3>1, <3>2, <4>1
      <3>3. CASE n # inFlight.n
        BY <1>0, <2>1, <2>2, <3>1, <3>3 DEF IInv, OpenAreHeld, FlyingFrame
      <3> QED
        BY <3>2, <3>3
    <2> QED
      BY <2>4, <2>5, <2>6 DEF OpenAreHeld
  <1>6. ASSUME inFlight = None, txq # <<>>, inFlight' = Head(txq), txq' = Tail(txq)
        PROVE  TypeOK' /\ AiredInOrder' /\ QueueInOrder' /\ OpenAreHeld'
    <2>1. /\ inFlight' # None /\ inFlight'.n \in 1..MaxTx
          /\ outcome' = outcome /\ aired' = Append(aired, inFlight'.n)
      BY <1>0, <1>6, TailInOrder, NoneIsNoFrame
    <2>2. /\ aired' \in Seq(1..MaxTx) /\ DOMAIN aired' = 1..(Len(aired) + 1)
          /\ DOMAIN aired = 1..Len(aired) /\ Len(aired) \in Nat
          /\ aired'[Len(aired) + 1] = inFlight'.n
          /\ \A i \in 1..Len(aired) : aired'[i] = aired[i]
      <3>1. aired \in Seq(1..MaxTx) /\ inFlight'.n \in 1..MaxTx /\ aired' = Append(aired, inFlight'.n)
        BY <1>0, <2>1
      <3> HIDE <1>0, <2>1
      <3> QED
        BY <3>1, AppendFacts
    <2>3. TypeOK'
      BY <1>0, <1>2, <1>3, <2>1, <2>2 DEF IInv, TypeOK
    <2>4. AiredInOrder'
      BY <1>6, <2>2, TailInOrder DEF IInv, AiredInOrder
    <2>5. QueueInOrder'
      BY <1>0, <1>6, <2>2, TailInOrder DEF IInv, QueueInOrder
    <2>6. OpenAreHeld'
      <3>1. ASSUME NEW n \in 1..MaxTx
            PROVE  QueuedFrame(n)' \/ FlyingFrame(n)' <=> QueuedFrame(n) \/ FlyingFrame(n)
        BY <1>6, <2>1, TailInOrder DEF QueuedFrame, FlyingFrame
      <3> QED
        BY <2>1, <3>1 DEF IInv, OpenAreHeld
    <2> QED
      BY <2>3, <2>4, <2>5, <2>6
  <1> QED
    BY <1>2, <1>3, <1>4, <1>5, <1>6 DEF Transmits, IInv

LEMMA Inductive == IInv /\ [Next]_vars => IInv'
  <1> SUFFICES ASSUME IInv, [Next]_vars PROVE IInv'
    OBVIOUS
  <1>1. CASE TakeFailure
    <2>1. txFailure' \in Keys \cup {None} /\ UNCHANGED <<txq, rxq, inFlight, rxRestart, mode, report>>
          /\ UNCHANGED histVars
      BY <1>1 DEF TakeFailure, TakeTxFailure
    <2> QED
      BY <2>1 DEF histVars, IInv, TypeOK, SlotTypeOK, ReceivedInOrder, AiredInOrder, QueueInOrder,
                  OpenAreHeld, QueuedFrame, FlyingFrame
  <1>2. CASE UNCHANGED vars
    BY <1>2 DEF vars, slotVars, histVars, IInv, TypeOK, SlotTypeOK, ReceivedInOrder, AiredInOrder,
                QueueInOrder, OpenAreHeld, QueuedFrame, FlyingFrame
  <1> QED
    BY <1>1, <1>2, EnqueueKeeps, CancelKeeps, DiscardKeeps, HandKeeps, ServiceKeeps DEF Next

LEMMA Invariant == Spec => []IInv
  BY Initial, Inductive, PTL DEF Spec

-----------------------------------------------------------------------------
(* The state of the slot keeps its type: the queues stay within RX and TX  *)
(* and every report is one the radio task can act on.                      *)
THEOREM TypeCorrect == Spec => []TypeOK
  <1>1. IInv => TypeOK
    BY DEF IInv
  <1> QED
    BY <1>1, Invariant, PTL

(* No received frame is lost or overtaken between the driver and the       *)
(* router, whatever fails in service().                                    *)
THEOREM NoReceptionLost == Spec => []ReceivedInOrder
  <1>1. IInv => ReceivedInOrder
    BY DEF IInv
  <1> QED
    BY <1>1, Invariant, PTL

(* Frames are aired in the order of enqueue_tx, each at most once.         *)
THEOREM AiringInOrder == Spec => []AiredInOrder
  <1>1. IInv => AiredInOrder
    BY DEF IInv
  <1> QED
    BY <1>1, Invariant, PTL

(* An accepted frame is queued once, in flight, or settled: TxNotStarted,  *)
(* remove_tx and the errors of service() neither lose nor duplicate it.    *)
THEOREM NoFrameLostOrDoubled == Spec => []FrameInOnePlace
  <1>1. IInv => FrameInOnePlace
    <2> SUFFICES ASSUME IInv, NEW n \in 1..pushed
                 PROVE  Cardinality({i \in DOMAIN txq : txq[i].n = n})
                        + (IF inFlight # None /\ inFlight.n = n THEN 1 ELSE 0)
                          = IF outcome[n] = "open" THEN 1 ELSE 0
      BY DEF FrameInOnePlace
    <2> DEFINE I == {i \in DOMAIN txq : txq[i].n = n}
    <2>1. n \in 1..MaxTx /\ txq \in Seq(TxFrames)
      BY FramesAreNumbered DEF IInv, TypeOK, SlotTypeOK
    <2>2. \A i \in DOMAIN txq : i \in Nat /\ txq[i].n \in Nat
      BY <2>1, FrameFacts
    <2>3. CASE QueuedFrame(n)
      <3>1. PICK i \in DOMAIN txq : txq[i].n = n
        BY <2>3 DEF QueuedFrame
      <3>2. \A j \in DOMAIN txq : txq[j].n = n => j = i
        BY <2>2, <3>1 DEF IInv, QueueInOrder
      <3>3. I = {i}
        BY <3>1, <3>2
      <3>4. Cardinality(I) = 1
        BY <3>3, FS_Singleton
      <3>5. ~(inFlight # None /\ inFlight.n = n)
        BY <2>2, <3>1 DEF IInv, QueueInOrder
      <3>6. outcome[n] = "open"
        BY <2>1, <2>3 DEF IInv, OpenAreHeld
      <3> QED
        BY <3>4, <3>5, <3>6
    <2>4. CASE ~QueuedFrame(n)
      <3>1. I = {}
        BY <2>4 DEF QueuedFrame
      <3>2. Cardinality(I) = 0
        BY <3>1, FS_EmptySet
      <3>3. outcome[n] = "open" <=> inFlight # None /\ inFlight.n = n
        BY <2>1, <2>4 DEF IInv, OpenAreHeld, FlyingFrame
      <3> QED
        BY <3>2, <3>3
    <2> QED
      BY <2>3, <2>4
  <1> QED
    BY <1>1, Invariant, PTL

(* The step that starts a transmission. *)
LEMMA StartStep ==
  ASSUME IInv, Next, inFlight = None, inFlight' # None
  PROVE  /\ rxq = <<>> /\ rxq' = <<>> /\ heard' = heard /\ handed' = handed
         /\ txq # <<>> /\ inFlight' = Head(txq)
  <1>1. PICK mayTx \in BOOLEAN, dutyOk \in BOOLEAN, count \in 0..RX :
          ServiceCall(mayTx, dutyOk, count)
    BY DEF Next, Enqueue, PushTx, Cancel, RemoveTx, Discard, PopTx, Hand, PopRx,
           TakeFailure, TakeTxFailure
  <1>2. heard + count <= MaxRx /\ Service(mayTx, dutyOk, Got(count)) /\ SlotTypeOK
    BY <1>1 DEF ServiceCall, Got, IInv, TypeOK
  <1>3. Got(count) \in Seq(RxFrames) /\ Len(Got(count)) = count
    BY <1>2, GotFacts
  <1>4. Transmits(Got(count)) /\ Receives(Got(count))
    BY <1>2, <1>3, ServiceFacts
  <1>5. /\ rxq = <<>> /\ Got(count) = <<>> /\ report'.rx = None
        /\ txq # <<>> /\ inFlight' = Head(txq)
    BY <1>4 DEF Transmits
  <1>6. count = 0
    BY <1>3, <1>5
  <1>7. rxq \o Got(count) = <<>>
    BY <1>5
  <1>8. rxq' = <<>>
    BY <1>4, <1>5, <1>7 DEF Receives
  <1>9. heard' = heard /\ handed' = handed
    BY <1>1, <1>5, <1>6 DEF ServiceCall, IInv, TypeOK
  <1> QED
    BY <1>5, <1>8, <1>9

(* A transmission starts only when the router has seen every received      *)
(* frame, so that a duplicate heard in time can still cancel it.           *)
THEOREM RouterSeesRxFirst == Spec => NoSendBeforeRouterSawRx
  <1>1. IInv /\ [Next]_vars =>
          [inFlight = None /\ inFlight' # None => handed = heard /\ handed' = heard']_vars
    <2> SUFFICES ASSUME IInv, Next, inFlight = None, inFlight' # None
                 PROVE  handed = heard /\ handed' = heard'
      OBVIOUS
    <2>1. rxq = <<>> /\ heard' = heard /\ handed' = handed
      BY StartStep
    <2> QED
      BY <2>1 DEF IInv, ReceivedInOrder, TypeOK
  <1> QED
    BY <1>1, Invariant, PTL DEF Spec, NoSendBeforeRouterSawRx

(* No copy that was queued when remove_tx cancelled its packet is aired.   *)
THEOREM CancelHolds == Spec => CancelledNeverAired
  <1>1. IInv /\ [Next]_vars =>
          [inFlight = None /\ inFlight' # None => inFlight'.n > cancelled[inFlight'.key]]_vars
    <2> SUFFICES ASSUME IInv, Next, inFlight = None, inFlight' # None
                 PROVE  inFlight'.n > cancelled[inFlight'.key]
      OBVIOUS
    <2>1. txq # <<>> /\ inFlight' = Head(txq)
      BY StartStep
    <2> QED
      BY <2>1, TailInOrder
  <1> QED
    BY <1>1, Invariant, PTL DEF Spec, CancelledNeverAired

(* What one call of service() leaves of listening: every way to a chip     *)
(* that is off with nothing in flight owes the restart or is an error of   *)
(* the chip, unless the chip was deaf before.                              *)
LEMMA ServiceDeaf ==
  ASSUME SlotTypeOK, NEW mayTx, NEW dutyOk, NEW got, Service(mayTx, dutyOk, got), ~Deaf, Deaf'
  PROVE  report'.res = "Hardware"
  <1>1. ~PollTxPending
    BY DEF PollTxPending, Deaf
  <1>2. ASSUME NEW restarted \in BOOLEAN, PollTxUnknown(restarted)
        PROVE  FALSE
    <2>1. CASE restarted
      BY <1>2, <2>1 DEF PollTxUnknown, ModeAfterStartRx, Deaf
    <2>2. CASE ~restarted
      BY <1>2, <2>2 DEF PollTxUnknown, Deaf
    <2> QED
      BY <2>1, <2>2
  <1>3. CASE RestartRxFails
    BY <1>3 DEF RestartRxFails, ErrReport
  <1>4. ASSUME NEW b \in Beginnings, mode' = b.m, rxRestart' = b.owed, inFlight' = None
        PROVE  FALSE
    <2>1. CASE inFlight # None
      <3>1. PICK ok \in BOOLEAN : b = [done |-> inFlight, owed |-> ~ok, m |-> ModeAfterStartRx(ok)]
        BY <1>4, <2>1, Zenon DEF Beginnings
      <3>2. CASE ok
        <4>1. b.m = "rx"
          BY <3>1, <3>2, Zenon DEF ModeAfterStartRx
        <4> QED
          BY <1>4, <4>1 DEF Deaf
      <3>3. CASE ~ok
        <4>1. b.owed
          BY <3>1, <3>3, Zenon
        <4> QED
          BY <1>4, <4>1, Zenon DEF Deaf
      <3> QED
        BY <3>2, <3>3
    <2>2. CASE inFlight = None
      <3>1. b = [done |-> None, owed |-> FALSE, m |-> IF rxRestart THEN "rx" ELSE mode]
        BY <1>4, <2>2, Zenon DEF Beginnings
      <3>2. b.m = IF rxRestart THEN "rx" ELSE mode
        BY <3>1, Zenon
      <3> QED
        BY <1>4, <2>2, <3>2 DEF Deaf
    <2> QED
      BY <2>1, <2>2
  <1>5. ASSUME NEW b \in Beginnings, NEW m \in {"rx", "off"}, RecvFails(b, got, m)
        PROVE  report'.res = "Hardware"
    BY <1>5 DEF RecvFails, ErrReport
  <1>6. ASSUME NEW b \in Beginnings, NEW busy \in BOOLEAN,
               ServeWithoutSend(b, got, busy, mayTx, dutyOk)
        PROVE  FALSE
    BY <1>4, <1>6 DEF ServeWithoutSend
  <1>7. ASSUME NEW b \in Beginnings, BusyCheckFails(b, got)
        PROVE  report'.res = "Hardware"
    BY <1>7 DEF BusyCheckFails, ErrReport
  <1>8. ASSUME NEW b \in Beginnings, NEW certain \in BOOLEAN, SendStarts(b, mayTx, dutyOk, certain)
        PROVE  FALSE
    <2>1. txq # <<>> /\ inFlight' = Head(txq)
      BY <1>8 DEF SendStarts, MayStartSend
    <2>2. Head(txq) \in TxFrames
      BY <2>1, TailFacts DEF SlotTypeOK
    <2> QED
      BY <2>1, <2>2, NoneIsNoFrame DEF Deaf
  <1>9. ASSUME NEW b \in Beginnings, NEW restarted \in BOOLEAN,
               SendDoesNotStart(b, mayTx, dutyOk, restarted)
        PROVE  FALSE
    <2>1. CASE restarted
      BY <1>9, <2>1 DEF SendDoesNotStart, ModeAfterStartRx, Deaf
    <2>2. CASE ~restarted
      BY <1>9, <2>2 DEF SendDoesNotStart, Deaf
    <2> QED
      BY <2>1, <2>2
  <1> QED
    BY <1>1, <1>2, <1>3, <1>5, <1>6, <1>7, <1>8, <1>9 DEF Service

(* Apart from an error of the chip, the slot never stops listening without *)
(* a restart of reception owed.                                            *)
THEOREM NeverSilentlyDeaf == Spec => DeafOnlyByPollRecv
  <1>1. IInv /\ [Next]_vars => [~Deaf /\ Deaf' => report'.res = "Hardware"]_vars
    <2> SUFFICES ASSUME IInv, Next, ~Deaf, Deaf'
                 PROVE  report'.res = "Hardware"
      OBVIOUS
    <2>1. PICK mayTx \in BOOLEAN, dutyOk \in BOOLEAN, count \in 0..RX :
            ServiceCall(mayTx, dutyOk, count)
      <3>1. ~(mode' = mode /\ inFlight' = inFlight /\ rxRestart' = rxRestart)
        <4>1. mode' = "off" /\ inFlight' = None /\ ~rxRestart'
          BY DEF Deaf
        <4>2. mode # "off" \/ inFlight # None \/ rxRestart
          BY DEF Deaf
        <4> QED
          BY <4>1, <4>2
      <3> QED
        BY <3>1 DEF Next, Enqueue, PushTx, Cancel, RemoveTx, Discard, PopTx, Hand, PopRx,
                    TakeFailure, TakeTxFailure
    <2>2. Service(mayTx, dutyOk, Got(count)) /\ SlotTypeOK
      BY <2>1 DEF ServiceCall, Got, IInv, TypeOK
    <2> QED
      BY <2>2, ServiceDeaf
  <1> QED
    BY <1>1, Invariant, PTL DEF Spec, DeafOnlyByPollRecv
=============================================================================
