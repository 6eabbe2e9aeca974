----------------------------- MODULE GraphProofs -----------------------------
(***************************************************************************)
(* Proofs about the neighbor graph.  First, that it follows a publisher,   *)
(* for every number of versions, lists, restarts and packets on the air.   *)
(* Then, for every set of nodes and every size of the tables: that the     *)
(* search for a route finds the cheapest path, that who is heard directly  *)
(* stays in the graph, and that a hop which may be stamped on a packet is  *)
(* one we have a link with.                                                *)
(***************************************************************************)
EXTENDS TopologySync, SequenceTheorems, FiniteSetTheorems, WellFoundedInduction, TLAPS

VerFields == {"v", "at", "stale"}
PubFields == {"boot", "v", "queue", "last"}
IsPacket(m) == m.from = Publisher /\ m.v \in 0 .. VERSIONS - 1
Queued(q) == \E S : q \in Seq(S) /\ \A m \in S : IsPacket(m)

(* The version that was refused last is the one merge_topology holds       *)
(* against the publisher, and it stays there until a list of the publisher *)
(* with another version than the last one is taken.                        *)
Held == refused.v # NoVersion => Publisher \in DOMAIN ver /\ ver[Publisher].stale = refused.v
VersionInv ==
  /\ DOMAIN pub = PubFields /\ pub.v \in 0 .. VERSIONS - 1 /\ Queued(pub.queue)
  /\ \A m \in air : IsPacket(m)
  /\ \A n \in DOMAIN ver : DOMAIN ver[n] = VerFields
  /\ refused.v \in Int
  /\ Held

LEMMA ChunksQueued ==
  ASSUME NEW boot, NEW v \in 0 .. VERSIONS - 1, NEW ids \in Seq(Ids)
  PROVE  Queued(Chunks(boot, v, ids))
<1> DEFINE n == ChunkCount(ids)
           q == Chunks(boot, v, ids)
           S == {Chunk(boot, v, ids, i - 1) : i \in 1..n}
<1>1. n \in Nat
  <2>1. Len(ids) \in Nat /\ MAX_NEIGHBORS_PER_PACKET \in Nat /\ MAX_NEIGHBORS_PER_PACKET > 0
    BY Versions
  <2> DEFINE k == MAX_NEIGHBORS_PER_PACKET
             x == Len(ids) + k - 1
  <2>2. x \in Nat BY <2>1
  <2> HIDE DEF x
  <2>3. x \div k \in Nat BY <2>1, <2>2
  <2>4. QED BY <2>3 DEF ChunkCount, x
<1> HIDE DEF n
<1>2. q = [i \in 1..n |-> Chunk(boot, v, ids, i - 1)] BY DEF Chunks, n
<1>3. q \in [1..n -> S] BY <1>2
<1>5. \A m \in S : IsPacket(m)
  <2>1. \A i : Chunk(boot, v, ids, i).from = Publisher /\ Chunk(boot, v, ids, i).v = v BY DEF Chunk
  <2>2. QED BY <2>1 DEF IsPacket
<1> HIDE DEF q, S
<1>4. q \in Seq(S) BY <1>1, <1>3, SeqDef
<1>6. QED BY <1>4, <1>5 DEF Queued, q

LEMMA QueueParts ==
  ASSUME NEW q, Queued(q), q # << >>
  PROVE  IsPacket(Head(q)) /\ Queued(Tail(q))
<1>1. PICK S : q \in Seq(S) /\ \A m \in S : IsPacket(m) BY DEF Queued
<1>2. Head(q) \in S /\ Tail(q) \in Seq(S) BY <1>1, HeadTailProperties
<1>3. QED BY <1>1, <1>2 DEF Queued

(* set_topo_version keeps what was held against a publisher while the      *)
(* version stays the same.                                                 *)
LEMMA SetVersionFacts ==
  ASSUME \A n \in DOMAIN ver : DOMAIN ver[n] = VerFields, NEW n, NEW v, NEW w, w = SetVersion(n, v)
  PROVE  /\ \A m \in DOMAIN w : DOMAIN w[m] = VerFields
         /\ n \in DOMAIN w
         /\ w[n].stale = IF VersionOf(n).v = v THEN VersionOf(n).stale ELSE NoVersion
<1> DEFINE stale == IF VersionOf(n).v = v THEN VersionOf(n).stale ELSE NoVersion
           e == [v |-> v, at |-> IF now = 0 THEN 1 ELSE now, stale |-> stale]
<1>1. PICK kept \in SUBSET DOMAIN ver : w = [m \in kept \cup {n} |-> IF m # n THEN ver[m] ELSE e]
  BY DEF SetVersion
<1>2. DOMAIN e = VerFields /\ e.stale = stale BY DEF VerFields
<1> HIDE DEF e, stale
<1>3. /\ DOMAIN w = {n} \cup kept /\ w[n] = e
      /\ \A m \in kept : m # n => w[m] = ver[m]
  BY <1>1
<1>4. QED BY <1>2, <1>3 DEF stale

ClimbsNot == NoVersion \notin {refused.v, refused'.v} =>
               (refused'.v - refused.v) % VERSIONS \notin 1 .. DELAYED_BEHIND_MAX

LEMMA SameIsNoClimb ==
  ASSUME NEW v \in Int
  PROVE  (v - v) % VERSIONS \notin 1 .. DELAYED_BEHIND_MAX
<1>1. v - v = 0 OBVIOUS
<1>2. VERSIONS \in Nat /\ VERSIONS > 0 BY Versions
<1>3. 0 % VERSIONS = 0 BY <1>2
<1>4. 0 \notin 1 .. DELAYED_BEHIND_MAX OBVIOUS
<1>5. QED BY <1>1, <1>3, <1>4

(* A packet that arrives: refused, it is held against the publisher, and   *)
(* it does not climb from what was held before; taken with the version of  *)
(* the last list, it leaves alone what was held.                           *)
LEMMA DeliverStep ==
  ASSUME VersionInv, NEW m \in air, NEW direct \in BOOLEAN, Deliver(m, direct)
  PROVE  VersionInv' /\ ClimbsNot
<1> DEFINE v == IF BootReset(m) THEN 0 ELSE m.v
           w == SetVersion(Publisher, v)
<1>1. /\ IsPacket(m) /\ m.from = Publisher /\ m.v \in Nat
      /\ \A n \in DOMAIN ver : DOMAIN ver[n] = VerFields
  BY DEF VersionInv, IsPacket
<1>2. MergeTopology(m, direct) /\ air' = air \ {m} /\ pub' = [pub EXCEPT !.last = <<>>]
      /\ refused' = LastRefused(m, direct)
  BY DEF Deliver
<1>3. /\ DOMAIN pub' = PubFields /\ pub'.v \in 0 .. VERSIONS - 1 /\ Queued(pub'.queue)
      /\ \A x \in air' : IsPacket(x)
  BY <1>2 DEF VersionInv, PubFields
<1>4. NoVersion \in Int /\ m.v # NoVersion BY <1>1 DEF NoVersion
<1>5. CASE ~Active /\ ~direct
  <2>1. ver' = ver BY <1>2, <1>5 DEF MergeTopology
  <2>2. refused' = refused BY <1>2, <1>5 DEF LastRefused
  <2>3. VersionInv' BY <1>3, <2>1, <2>2 DEF VersionInv, Held
  <2>4. QED BY <2>2, <2>3, SameIsNoClimb DEF ClimbsNot, VersionInv
<1>6. CASE (Active \/ direct) /\ ~Accepted(m, direct)
  <2>1. ver' = NoteStale(Publisher, m.v) BY <1>1, <1>2, <1>6 DEF MergeTopology
  <2>2. refused'.v = m.v
    <3>1. refused' = [boot |-> m.boot, v |-> m.v] BY <1>2, <1>6 DEF LastRefused, Refuses
    <3>2. QED BY <3>1
  <2>3. Publisher \in DOMAIN ver
    <3>1. VersionOf(Publisher).at # 0 BY <1>1, <1>6 DEF Accepted, InWindow
    <3>2. QED BY <3>1 DEF VersionOf
  <2>4. ver' = [ver EXCEPT ![Publisher].stale = m.v] BY <2>1, <2>3 DEF NoteStale
  <2>5. /\ Publisher \in DOMAIN ver' /\ ver'[Publisher].stale = m.v
        /\ \A n \in DOMAIN ver' : DOMAIN ver'[n] = VerFields
    BY <1>1, <2>3, <2>4 DEF VerFields
  <2>6. VersionInv' BY <1>1, <1>3, <2>2, <2>5 DEF VersionInv, Held
  <2>7. ClimbsNot
    <3> SUFFICES ASSUME refused.v # NoVersion
                 PROVE  (m.v - refused.v) % VERSIONS \notin 1 .. DELAYED_BEHIND_MAX
        BY <2>2 DEF ClimbsNot
    <3>1. ver[Publisher].stale = refused.v BY DEF VersionInv, Held
    <3>2. VersionOf(Publisher).stale = refused.v BY <2>3, <3>1 DEF VersionOf
    <3>3. ~Climbing(m.v, refused.v) BY <1>1, <1>6, <3>2 DEF Accepted
    <3>4. QED BY <3>3 DEF Climbing
  <2>8. QED BY <2>6, <2>7
<1>7. CASE (Active \/ direct) /\ Accepted(m, direct)
  <2>1. ver' = w BY <1>1, <1>2, <1>7 DEF MergeTopology
  <2> HIDE DEF w
  <2>2. /\ \A n \in DOMAIN w : DOMAIN w[n] = VerFields
        /\ Publisher \in DOMAIN w
        /\ w[Publisher].stale = IF VersionOf(Publisher).v = v THEN VersionOf(Publisher).stale ELSE NoVersion
    <3> HIDE DEF v
    <3>1. QED BY <1>1, SetVersionFacts DEF w
  <2>3. CASE RestOfHeldList(m)
    <3>1. refused' = refused BY <1>2, <1>7, <2>3 DEF LastRefused, Refuses
    <3>2. VersionOf(Publisher).v = v BY <2>3 DEF RestOfHeldList, BootReset
    <3>3. refused.v # NoVersion => w[Publisher].stale = refused.v
      BY <2>2, <3>2 DEF VersionInv, Held, VersionOf
    <3>4. VersionInv' BY <1>3, <2>1, <2>2, <3>1, <3>3 DEF VersionInv, Held
    <3>5. QED BY <3>1, <3>4, SameIsNoClimb DEF ClimbsNot, VersionInv
  <2>4. CASE ~RestOfHeldList(m)
    <3>1. refused' = [boot |-> m.boot, v |-> NoVersion] BY <1>2, <1>7, <2>4 DEF LastRefused, Refuses
    <3>2. refused'.v = NoVersion BY <3>1
    <3>3. VersionInv' BY <1>3, <1>4, <2>1, <2>2, <3>2 DEF VersionInv, Held
    <3>4. QED BY <3>2, <3>3 DEF ClimbsNot
  <2>5. QED BY <2>3, <2>4
<1>8. QED BY <1>5, <1>6, <1>7

LEMMA ScheduleStep ==
  ASSUME VersionInv, NEW boot, NEW v \in 0 .. VERSIONS - 1, NEW ids \in Seq(Ids),
         ScheduleTopology(boot, v, ids)
  PROVE  DOMAIN pub' = PubFields /\ pub'.v \in 0 .. VERSIONS - 1 /\ Queued(pub'.queue)
<1> DEFINE q == Chunks(boot, v, ids)
           next == (v + 1) % VERSIONS
<1>1. pub' = [pub EXCEPT !.boot = boot, !.v = next, !.queue = q] BY DEF ScheduleTopology
<1>2. next \in 0 .. VERSIONS - 1
  <2>1. VERSIONS \in Nat /\ VERSIONS > 0 BY Versions
  <2>2. v + 1 \in Nat BY <2>1
  <2>3. QED BY <2>1, <2>2
<1>3. Queued(q) BY ChunksQueued
<1> HIDE DEF q, next
<1>4. QED BY <1>1, <1>2, <1>3 DEF VersionInv, PubFields

LEMMA OtherStep ==
  ASSUME VersionInv, [SyncNext]_syncVars, ~\E m \in air, direct \in BOOLEAN : Deliver(m, direct)
  PROVE  VersionInv' /\ ClimbsNot
<1>1. ver' = ver /\ refused' = refused
  <2>1. CASE UNCHANGED syncVars BY <2>1 DEF syncVars, vars
  <2>2. CASE Publish BY <2>2 DEF Publish, vars
  <2>3. CASE Restart BY <2>3 DEF Restart, vars
  <2>4. CASE \E lost \in BOOLEAN : PollTopologyTx(lost) BY <2>4 DEF PollTopologyTx, vars
  <2>5. CASE HearNeighbor(Publisher) BY <2>5 DEF HearNeighbor, ObserveDirect
  <2>6. CASE Later BY <2>6 DEF Later, Tick
  <2>7. QED BY <2>1, <2>2, <2>3, <2>4, <2>5, <2>6 DEF SyncNext
<1>2. /\ DOMAIN pub' = PubFields /\ pub'.v \in 0 .. VERSIONS - 1 /\ Queued(pub'.queue)
      /\ \A m \in air' : IsPacket(m)
  <2>1. CASE UNCHANGED syncVars BY <2>1 DEF syncVars, VersionInv
  <2>2. CASE Publish
    <3>1. PICK ids \in Lists : ScheduleTopology(pub.boot, pub.v, ids) BY <2>2 DEF Publish
    <3> DEFINE boot == pub.boot
               v == pub.v
    <3>2. ids \in Seq(Ids) /\ v \in 0 .. VERSIONS - 1 BY Versions DEF VersionInv
    <3>3. ScheduleTopology(boot, v, ids) BY <3>1
    <3> HIDE DEF boot, v
    <3>4. DOMAIN pub' = PubFields /\ pub'.v \in 0 .. VERSIONS - 1 /\ Queued(pub'.queue)
      BY <3>2, <3>3, ScheduleStep
    <3>5. QED BY <2>2, <3>4 DEF Publish, VersionInv
  <2>3. CASE Restart
    <3> DEFINE boot == pub.boot + 1
               v == 0
               ids == <<>>
    <3>1. ScheduleTopology(boot, v, ids) BY <2>3 DEF Restart
    <3>2. ids \in Seq(Ids) /\ v \in 0 .. VERSIONS - 1 BY Versions
    <3> HIDE DEF boot, v, ids
    <3>3. DOMAIN pub' = PubFields /\ pub'.v \in 0 .. VERSIONS - 1 /\ Queued(pub'.queue)
      BY <3>1, <3>2, ScheduleStep
    <3>4. QED BY <2>3, <3>3 DEF Restart, VersionInv
  <2>4. CASE \E lost \in BOOLEAN : PollTopologyTx(lost)
    <3>1. PICK lost \in BOOLEAN : PollTopologyTx(lost) BY <2>4
    <3> DEFINE q == pub.queue
               last == IF lost THEN <<>> ELSE <<Head(q)>>
               rest == Tail(q)
    <3>2. IsPacket(Head(q)) /\ Queued(rest)
      <4>1. Queued(q) /\ q # <<>> BY <3>1 DEF VersionInv, PollTopologyTx
      <4> HIDE DEF q
      <4>2. QED BY <4>1, QueueParts
    <3>3. pub' = [pub EXCEPT !.queue = rest, !.last = last] BY <3>1 DEF PollTopologyTx, VersionInv, PubFields
    <3>4. air' \subseteq air \cup {Head(q)} BY <3>1 DEF PollTopologyTx
    <3> HIDE DEF q, last, rest
    <3>5. QED BY <3>2, <3>3, <3>4 DEF VersionInv, PubFields
  <2>5. CASE HearNeighbor(Publisher) BY <2>5 DEF HearNeighbor, VersionInv
  <2>6. CASE Later BY <2>6 DEF Later, VersionInv
  <2>7. QED BY <2>1, <2>2, <2>3, <2>4, <2>5, <2>6 DEF SyncNext
<1>3. VersionInv' BY <1>1, <1>2 DEF VersionInv, Held
<1>4. QED BY <1>1, <1>3, SameIsNoClimb DEF ClimbsNot, VersionInv

(* What merge_topology holds against a publisher is the version that it    *)
(* refused last.                                                           *)
THEOREM RefusedIsHeld == SyncSpec => []VersionInv
<1>1. SyncInit => VersionInv
  <2> SUFFICES ASSUME SyncInit PROVE VersionInv OBVIOUS
  <2>1. PICK v \in FirstVersions : pub = [boot |-> 0, v |-> v, queue |-> <<>>, last |-> <<>>]
    BY DEF SyncInit
  <2>2. v \in 0 .. VERSIONS - 1 BY Versions
  <2>3. DOMAIN pub = PubFields /\ pub.v = v /\ pub.queue = <<>> BY <2>1 DEF PubFields
  <2>4. Queued(<<>>)
    <3> DEFINE S == {}
               e == <<>>
    <3>1. e \in Seq(S) /\ \A m \in S : IsPacket(m) OBVIOUS
    <3> HIDE DEF e, S
    <3>2. \E R : e \in Seq(R) /\ \A m \in R : IsPacket(m) BY <3>1
    <3>3. QED BY <3>2 DEF e, Queued
  <2>5. air = {} /\ refused.v = NoVersion /\ ver = <<>> BY DEF SyncInit, Init
  <2>6. DOMAIN ver = {} /\ NoVersion \in Int BY <2>5 DEF NoVersion
  <2>7. QED BY <2>2, <2>3, <2>4, <2>5, <2>6 DEF VersionInv, Held
<1>2. VersionInv /\ [SyncNext]_syncVars => VersionInv' BY DeliverStep, OtherStep
<1>3. QED BY <1>1, <1>2, PTL DEF SyncSpec

(* A publisher that counts anew is refused at most once for every          *)
(* TOPOLOGY_DELAYED_BEHIND_MAX versions: whatever is lost, late or left    *)
(* over from before the restart, its next list climbs from the one that    *)
(* was refused and is taken.                                               *)
THEOREM RefusedAtMostOnce == SyncSpec => RefusedOnce
<1>1. VersionInv /\ [SyncNext]_syncVars => ClimbsNot BY DeliverStep, OtherStep
<1>2. ClimbsNot => [refused.boot = refused'.boot /\ NoVersion \notin {refused.v, refused'.v} =>
        (refused'.v - refused.v) % VERSIONS \notin 1 .. DELAYED_BEHIND_MAX]_syncVars
  BY DEF ClimbsNot
<1>3. QED BY <1>1, <1>2, RefusedIsHeld, PTL DEF SyncSpec, RefusedOnce

-----------------------------------------------------------------------------
(* Induction, as statements about sets.  The least element of a set of     *)
(* numbers comes from the well-founded orderings of the library.           *)
LEMMA LeastNumber ==
  ASSUME NEW S \in SUBSET Nat, S # {}
  PROVE  \E m \in S : \A k \in S : m <= k
<1> DEFINE O == {ss \in Nat \X Nat : ss[1] < ss[2]}
<1>1. IsWellFoundedOn(O, Nat) BY NatLessThanWellFounded DEF OpToRel
<1>2. \A x, y \in Nat : y < x => <<y, x>> \in O OBVIOUS
<1> HIDE DEF O
<1>3. PICK x \in S : \A y \in S : ~ (<<y, x>> \in O) BY <1>1, WFMin
<1>4. \A y \in S : ~(y < x) BY <1>3, <1>2
<1>5. \A y \in S : x <= y BY <1>4
<1>6. QED BY <1>5

LEMMA UpTo ==
  ASSUME NEW K \in Nat, NEW S, 0 \in S, \A k \in 0 .. K - 1 : k \in S => k + 1 \in S
  PROVE  \A k \in 0..K : k \in S
<1> DEFINE Bad == {k \in 0..K : k \notin S}
<1> SUFFICES ASSUME Bad # {} PROVE FALSE OBVIOUS
<1>0. Bad \in SUBSET Nat OBVIOUS
<1>1. PICK m \in Bad : \A k \in Bad : m <= k
  <2> HIDE DEF Bad
  <2>1. QED BY <1>0, LeastNumber
<1>2. m \in 0..K /\ m \notin S /\ m # 0 BY <1>1
<1>3. m - 1 \in 0 .. K - 1 /\ ~(m <= m - 1) BY <1>2
<1>4. m - 1 \in S BY <1>1, <1>3
<1>5. (m - 1) + 1 \in S BY <1>3, <1>4
<1>6. (m - 1) + 1 = m BY <1>2
<1>7. QED BY <1>2, <1>5, <1>6

LEMMA NumberInduction ==
  ASSUME NEW S, 0 \in S, \A k \in Nat : k \in S => k + 1 \in S
  PROVE  \A k \in Nat : k \in S
<1> SUFFICES ASSUME NEW k \in Nat PROVE k \in S OBVIOUS
<1>1. \A j \in 0..k : j \in S BY UpTo
<1>2. QED BY <1>1

(* A finite set is built one element at a time. *)
LEMMA OneByOne ==
  ASSUME NEW V, IsFiniteSet(V), NEW T, {} \in T,
         \A W \in SUBSET V, v \in V : W \in T /\ v \notin W => W \cup {v} \in T
  PROVE  \A W \in SUBSET V : W \in T
<1> DEFINE S == {n \in Nat : \A W \in SUBSET V : Cardinality(W) = n => W \in T}
<1>1. \A W \in SUBSET V : IsFiniteSet(W) /\ Cardinality(W) \in Nat
  BY FS_Subset, FS_CardinalityType
<1>2. 0 \in S
  <2>1. \A W \in SUBSET V : Cardinality(W) = 0 => W = {} BY <1>1, FS_EmptySet
  <2>2. QED BY <2>1
<1>3. ASSUME NEW k \in Nat, k \in S PROVE k + 1 \in S
  <2>1. ASSUME NEW W \in SUBSET V, Cardinality(W) = k + 1 PROVE W \in T
    <3>1. W # {} BY <2>1, FS_EmptySet
    <3>2. PICK v : v \in W BY <3>1
    <3>3. Cardinality(W \ {v}) = k
      <4>1. IsFiniteSet(W) BY <1>1
      <4>2. Cardinality(W \ {v}) = Cardinality(W) - 1 BY <4>1, <3>2, FS_RemoveElement
      <4>3. QED BY <4>2, <2>1
    <3>4. W \ {v} \in T BY <1>3, <3>3
    <3>5. (W \ {v}) \cup {v} \in T BY <3>2, <3>4
    <3>6. (W \ {v}) \cup {v} = W BY <3>2
    <3>7. QED BY <3>5, <3>6
  <2>2. QED BY <2>1
<1> HIDE DEF S
<1>4. \A k \in Nat : k \in S BY <1>2, <1>3, NumberInduction
<1>5. QED BY <1>1, <1>4 DEF S

(* A total and transitive relation has a first element in a finite set. *)
LEMMA Champion ==
  ASSUME NEW S, IsFiniteSet(S), S # {}, NEW B,
         \A x, y \in S : x # y => <<x, y>> \in B \/ <<y, x>> \in B,
         \A x, y, z \in S : <<x, y>> \in B /\ <<y, z>> \in B => <<x, z>> \in B
  PROVE  \E x \in S : \A y \in S \ {x} : <<x, y>> \in B
<1> DEFINE Wins(W) == \E x \in W : \A y \in W \ {x} : <<x, y>> \in B
           T == {W \in SUBSET S : W = {} \/ Wins(W)}
<1>1. {} \in T OBVIOUS
<1>2. ASSUME NEW W \in SUBSET S, NEW v \in S, W \in T, v \notin W PROVE W \cup {v} \in T
  <2>1. CASE W = {} BY <2>1
  <2>2. CASE W # {}
    <3>1. PICK x \in W : \A y \in W \ {x} : <<x, y>> \in B BY <1>2, <2>2
    <3>2. CASE <<x, v>> \in B BY <3>1, <3>2
    <3>3. CASE <<v, x>> \in B
      <4>1. \A y \in W : <<v, y>> \in B BY <3>1, <3>3
      <4>2. QED BY <4>1
    <3>4. QED BY <1>2, <3>2, <3>3
  <2>3. QED BY <2>1, <2>2
<1> HIDE DEF T
<1>3. S \in T BY <1>1, <1>2, OneByOne
<1>4. QED BY <1>3 DEF T

-----------------------------------------------------------------------------
(* The search.                                                             *)

RowFields == {"cost", "prev", "done"}
TableOk(tab) ==
  /\ DOMAIN tab \subseteq Ids
  /\ \A n \in DOMAIN tab : /\ DOMAIN tab[n] = RowFields
                           /\ tab[n].cost \in 0 .. MaxPrice /\ tab[n].done \in BOOLEAN
HopsOk(s, now_, u) ==
  \A n \in Ids : /\ BackFrom(s, n, u) \subseteq Ids
                 /\ \A m \in BackFrom(s, n, u) : HopBack(s, n, m, now_, u) \in Nat
Passes(s, d, n, role, excluded) == n = d \/ (n # Me /\ Routable(s, n, role, excluded))
Stopped(tab) == Unvisited(tab) = {} \/ (Me \in DOMAIN tab /\ tab[Me].done)

(* Adding a hop to a price never makes it cheaper, keeps the order, and     *)
(* keeps apart whether there is a path, although it saturates.              *)
LEMMA PlusFacts ==
  /\ NoPrice \in Nat /\ NoPrice > 0 /\ MaxPrice \in Nat /\ MaxPrice < NoPrice
  /\ 0 .. MaxPrice \subseteq 0 .. NoPrice
  /\ \A a \in 0 .. NoPrice, h \in Nat : Plus(a, h) \in 0 .. NoPrice /\ a <= Plus(a, h)
  /\ \A a \in 0 .. MaxPrice, h \in Nat : Plus(a, h) \in 0 .. MaxPrice
  /\ \A a, b \in 0 .. NoPrice, h \in Nat : a <= b => Plus(a, h) <= Plus(b, h)
<1>1. NoPrice \in Nat /\ NoPrice > 0 BY PriceTypes
<1>2. QED BY <1>1 DEF Plus, AtMost, MaxPrice

LEMMA TableCosts ==
  ASSUME NEW tab, TableOk(tab)
  PROVE  \A m \in DOMAIN tab : /\ tab[m].cost \in Nat /\ tab[m].cost <= MaxPrice
                               /\ tab[m].cost \in 0 .. MaxPrice /\ tab[m].cost \in 0 .. NoPrice
<1>1. \A m \in DOMAIN tab : tab[m].cost \in 0 .. MaxPrice BY DEF TableOk
<1>2. QED BY <1>1, PlusFacts

LEMMA NearestIs ==
  ASSUME NEW tab, TableOk(tab), Unvisited(tab) # {}
  PROVE  /\ Nearest(tab) \in Unvisited(tab)
         /\ \A y \in Unvisited(tab) : tab[Nearest(tab)].cost <= tab[y].cost
<1> DEFINE S == Unvisited(tab)
           Better(x, y) == tab[x].cost < tab[y].cost
           First(x, y) == Better(x, y) \/ (~Better(y, x) /\ x < y)
           B == {p \in S \X S : First(p[1], p[2])}
<1>1. S \subseteq Ids /\ \A x \in S : x \in Nat /\ tab[x].cost \in Nat
  BY GraphSizes, TableCosts DEF TableOk, Unvisited
<1>2. IsFiniteSet(S) BY <1>1, GraphSizes, FS_Subset
<1>3. \A x, y \in S : x # y => First(x, y) \/ First(y, x) BY <1>1
<1>4. \A x, y, z \in S : First(x, y) /\ First(y, z) => First(x, z) BY <1>1
<1>5. \A x, y \in S : <<x, y>> \in B <=> First(x, y) OBVIOUS
<1>6. \E x \in S : \A y \in S \ {x} : <<x, y>> \in B
  <2>1. S # {} OBVIOUS
  <2>2. \A x, y \in S : x # y => <<x, y>> \in B \/ <<y, x>> \in B BY <1>3, <1>5
  <2>3. \A x, y, z \in S : <<x, y>> \in B /\ <<y, z>> \in B => <<x, z>> \in B BY <1>4, <1>5
  <2> HIDE DEF S, B
  <2>4. QED BY <1>2, <2>1, <2>2, <2>3, Champion
<1>7. \E x \in S : \A y \in S \ {x} : First(x, y) BY <1>5, <1>6
<1>8. Nearest(tab) = CHOOSE x \in S : \A y \in S \ {x} : First(x, y) BY DEF Nearest, Best
<1> DEFINE n == Nearest(tab)
<1>9. n \in S /\ \A y \in S \ {n} : First(n, y) BY <1>7, <1>8
<1>10. QED BY <1>1, <1>9

LEMMA FittingIn == ASSUME NEW tab, NEW new PROVE Fitting(tab, new) \subseteq new
BY DEF Fitting

(* One visit of the search. *)
Moved(s, d, now_, role, excluded, u, tab, t, n) ==
  /\ DOMAIN tab \subseteq DOMAIN t
  /\ t[n].done /\ t[n].cost = tab[n].cost
  /\ \A m \in DOMAIN t : t[m].done <=> m = n \/ (m \in DOMAIN tab /\ tab[m].done)
  /\ \A m \in DOMAIN tab : t[m].cost <= tab[m].cost /\ (tab[m].done => t[m].cost = tab[m].cost)
  /\ \A m \in DOMAIN t :
       \/ m \in DOMAIN tab /\ t[m].cost = tab[m].cost /\ t[m].prev = tab[m].prev
       \/ /\ Passes(s, d, n, role, excluded) /\ m \in BackFrom(s, n, u)
          /\ t[m].cost = Plus(tab[n].cost, HopBack(s, n, m, now_, u)) /\ t[m].prev = n
  /\ Passes(s, d, n, role, excluded) /\ n # Me =>
       \A m \in BackFrom(s, n, u) :
         m \in DOMAIN tab \cup Fitting(tab, BackFrom(s, n, u) \ DOMAIN tab) =>
           m \in DOMAIN t /\ (t[m].done \/ t[m].cost <= Plus(tab[n].cost, HopBack(s, n, m, now_, u)))

LEMMA StepMoves ==
  ASSUME NEW s, NEW d, NEW now_, NEW role, NEW excluded, NEW u, NEW tab,
         TableOk(tab), HopsOk(s, now_, u), ~Stopped(tab), NEW t,
         t = SearchStep(s, d, now_, role, excluded, u, tab)
  PROVE  TableOk(t) /\ Moved(s, d, now_, role, excluded, u, tab, t, Nearest(tab))
<1> DEFINE n == Nearest(tab)
           vis == Visit(tab, n)
           hops == HopsBack(s, tab, n, now_, u)
           all == BackFrom(s, n, u)
           M == Fitting(tab, all \ DOMAIN tab) \cup (all \cap DOMAIN tab)
<1>1. n \in DOMAIN tab /\ ~tab[n].done /\ n \in Ids
  BY NearestIs DEF Stopped, Unvisited, TableOk
<1> HIDE DEF n
<1>2. /\ DOMAIN vis = DOMAIN tab /\ TableOk(vis) /\ vis[n].done
      /\ \A m \in DOMAIN tab : /\ vis[m].cost = tab[m].cost /\ vis[m].prev = tab[m].prev
                               /\ m # n => vis[m] = tab[m]
  BY <1>1 DEF TableOk, Visit, RowFields
<1>3. all \subseteq Ids /\ \A m \in all : HopBack(s, n, m, now_, u) \in Nat
  <2>1. \A m \in all : HopBack(s, n, m, now_, u) \in Nat BY <1>1 DEF HopsOk
  <2>2. QED BY <1>1, <2>1 DEF HopsOk
<1>4. DOMAIN hops = M /\ M \subseteq all /\ \A m \in M : hops[m] = HopBack(s, n, m, now_, u)
  BY FittingIn DEF HopsBack
<1>5. CASE n = Me \/ (n # d /\ ~Routable(s, n, role, excluded))
  <2>1. t = vis BY <1>5 DEF SearchStep, n, Stopped
  <2>2. ~(Passes(s, d, n, role, excluded) /\ n # Me) BY <1>5 DEF Passes
  <2> HIDE DEF vis
  <2>3. QED BY <1>1, <1>2, <2>1, <2>2 DEF Moved, n, TableOk
<1>6. CASE ~(n = Me \/ (n # d /\ ~Routable(s, n, role, excluded)))
  <2>1. t = Relax(vis, n, hops) BY <1>6 DEF SearchStep, n, Stopped
  <2>2. Passes(s, d, n, role, excluded) /\ n # Me BY <1>6 DEF Passes
  <2> HIDE DEF vis, hops, all
  <2> DEFINE Stays(m) == m \in DOMAIN tab /\ (m \notin M \/ vis[m].done \/ vis[m].cost <= Plus(vis[n].cost, hops[m]))
             row(m) == [cost |-> Plus(tab[n].cost, HopBack(s, n, m, now_, u)), prev |-> n, done |-> FALSE]
  <2>3. DOMAIN t = DOMAIN tab \cup M BY <2>1, <1>2, <1>4 DEF Relax
  <2>4. \A m \in DOMAIN t : Stays(m) => t[m] = vis[m] BY <2>1, <1>2, <1>4 DEF Relax
  <2>5. \A m \in DOMAIN t : ~Stays(m) => m \in M /\ t[m] = row(m)
    <3> TAKE m \in DOMAIN t
    <3> HAVE ~Stays(m)
    <3>1. m \in M BY <2>3
    <3>2. t[m] = [cost |-> Plus(vis[n].cost, hops[m]), prev |-> n, done |-> FALSE]
      BY <2>1, <1>2, <1>4, <2>3 DEF Relax
    <3>3. QED BY <3>1, <3>2, <1>1, <1>2, <1>4
  <2>6. \A m \in M : /\ row(m).cost = Plus(tab[n].cost, HopBack(s, n, m, now_, u)) /\ row(m).cost \in 0 .. MaxPrice
                     /\ row(m).prev = n /\ row(m).done = FALSE /\ DOMAIN row(m) = RowFields
    <3> TAKE m \in M
    <3>1. HopBack(s, n, m, now_, u) \in Nat /\ tab[n].cost \in 0 .. MaxPrice BY <1>1, <1>3, <1>4, TableCosts
    <3>2. Plus(tab[n].cost, HopBack(s, n, m, now_, u)) \in 0 .. MaxPrice BY <3>1, PlusFacts
    <3>3. QED BY <3>2 DEF RowFields
  <2>7. \A m \in DOMAIN tab : vis[m].cost \in 0 .. MaxPrice /\ vis[m].done \in BOOLEAN /\ DOMAIN vis[m] = RowFields
    BY <1>2 DEF TableOk
  <2> HIDE DEF row
  <2>8. TableOk(t)
    <3>1. DOMAIN t \subseteq Ids BY <2>3, <1>3, <1>4 DEF TableOk
    <3>2. ASSUME NEW m \in DOMAIN t
          PROVE  DOMAIN t[m] = RowFields /\ t[m].cost \in 0 .. MaxPrice /\ t[m].done \in BOOLEAN
      <4>1. CASE Stays(m) BY <4>1, <2>4, <2>7
      <4>2. CASE ~Stays(m) BY <4>2, <2>5, <2>6
      <4>3. QED BY <4>1, <4>2
    <3>3. QED BY <3>1, <3>2 DEF TableOk
  <2>9. \A m \in DOMAIN tab : vis[m].done <=> m = n \/ tab[m].done BY <1>1, <1>2
  <2>10. Stays(n) BY <1>1, <1>2
  <2>11. \A m \in DOMAIN t : t[m].done <=> m = n \/ (m \in DOMAIN tab /\ tab[m].done)
    <3> TAKE m \in DOMAIN t
    <3>1. CASE Stays(m) BY <3>1, <2>4, <2>9
    <3>2. CASE ~Stays(m)
      <4>1. t[m].done = FALSE BY <3>2, <2>5, <2>6
      <4>2. m # n BY <3>2, <2>10
      <4>3. ~(m \in DOMAIN tab /\ tab[m].done)
        <5>1. SUFFICES ASSUME m \in DOMAIN tab, tab[m].done PROVE FALSE OBVIOUS
        <5>2. vis[m].done BY <5>1, <2>9
        <5>3. QED BY <5>1, <5>2, <3>2
      <4>4. QED BY <4>1, <4>2, <4>3
    <3>3. QED BY <3>1, <3>2
  <2>12. \A m \in DOMAIN tab : t[m].cost <= tab[m].cost /\ (tab[m].done => t[m].cost = tab[m].cost)
    <3> TAKE m \in DOMAIN tab
    <3>1. CASE Stays(m)
      <4>1. t[m] = vis[m] BY <3>1, <2>3, <2>4
      <4>2. t[m].cost = tab[m].cost /\ t[m].cost \in Nat BY <4>1, <1>2, TableCosts
      <4>3. QED BY <4>2
    <3>2. CASE ~Stays(m)
      <4>1. ~tab[m].done BY <3>2, <2>9
      <4>2. m \in M /\ ~(vis[m].cost <= Plus(vis[n].cost, hops[m])) BY <3>2
      <4>3. t[m].cost = Plus(vis[n].cost, hops[m]) BY <3>2, <2>3, <2>5, <2>6, <1>1, <1>2, <1>4
      <4>4. t[m].cost \in 0 .. MaxPrice BY <3>2, <2>3, <2>5, <2>6
      <4>6. vis[m].cost \in 0 .. MaxPrice BY <2>7
      <4>5. QED BY <4>1, <4>2, <4>3, <4>4, <4>6, <1>2
    <3>3. QED BY <3>1, <3>2
  <2>13. \A m \in DOMAIN t :
       \/ m \in DOMAIN tab /\ t[m].cost = tab[m].cost /\ t[m].prev = tab[m].prev
       \/ /\ Passes(s, d, n, role, excluded) /\ m \in all
          /\ t[m].cost = Plus(tab[n].cost, HopBack(s, n, m, now_, u)) /\ t[m].prev = n
    <3> TAKE m \in DOMAIN t
    <3>1. CASE Stays(m) BY <3>1, <2>4, <1>2
    <3>2. CASE ~Stays(m) BY <3>2, <2>2, <2>5, <2>6, <1>4
    <3>3. QED BY <3>1, <3>2
  <2>14. ASSUME NEW m \in all, m \in DOMAIN tab \cup Fitting(tab, all \ DOMAIN tab)
         PROVE  m \in DOMAIN t /\ (t[m].done \/ t[m].cost <= Plus(tab[n].cost, HopBack(s, n, m, now_, u)))
    <3>1. m \in M BY <2>14
    <3>2. m \in DOMAIN t BY <3>1, <2>3
    <3>3. CASE Stays(m)
      <4>1. t[m] = vis[m] BY <3>2, <3>3, <2>4
      <4>2. vis[m].done \/ vis[m].cost <= Plus(vis[n].cost, hops[m]) BY <3>1, <3>3
      <4>3. QED BY <3>1, <3>2, <4>1, <4>2, <1>1, <1>2, <1>4
    <3>4. CASE ~Stays(m)
      <4>1. t[m].cost = Plus(tab[n].cost, HopBack(s, n, m, now_, u)) /\ t[m].cost \in Nat
        BY <3>1, <3>2, <3>4, <2>5, <2>6
      <4>2. QED BY <3>2, <4>1
    <3>5. QED BY <3>3, <3>4
  <2>15. t[n].done /\ t[n].cost = tab[n].cost BY <2>3, <2>4, <2>10, <1>1, <1>2
  <2>16. DOMAIN tab \subseteq DOMAIN t BY <2>3
  <2>17. QED BY <2>8, <2>11, <2>12, <2>13, <2>14, <2>15, <2>16 DEF Moved, n, all
<1>7. QED BY <1>5, <1>6

(* The rounds of the search are well defined. *)
SearchStart(d) == [n \in {d} |-> [cost |-> 0, prev |-> NoNode, done |-> FALSE]]
IsSearchRun(s, d, now_, role, excluded, u, f, K) ==
  /\ f[0] = SearchStart(d)
  /\ \A k \in 1..K : f[k] = SearchStep(s, d, now_, role, excluded, u, f[k - 1])

LEMMA SearchRun ==
  ASSUME NEW s, NEW d, NEW now_, NEW role, NEW excluded, NEW u
  PROVE  /\ Cardinality(Ids) \in Nat
         /\ \E f : /\ IsSearchRun(s, d, now_, role, excluded, u, f, Cardinality(Ids))
                   /\ SearchTable(s, d, now_, role, excluded, u) = f[Cardinality(Ids)]
<1> DEFINE Step(tab) == SearchStep(s, d, now_, role, excluded, u, tab)
           A0 == SearchStart(d)
           Is(f, n) == f = [k \in 0..n |-> IF k = 0 THEN A0 ELSE Step(f[k - 1])]
           Good == {n \in Nat : \E f : Is(f, n)}
           K == Cardinality(Ids)
<1>1. K \in Nat BY GraphSizes, FS_CardinalityType
<1> HIDE DEF K
<1> SUFFICES \E f : IsSearchRun(s, d, now_, role, excluded, u, f, K) /\ SearchTable(s, d, now_, role, excluded, u) = f[K]
  BY <1>1 DEF K
<1>2. 0 \in Good
  <2> DEFINE f == [k \in 0..0 |-> A0]
  <2>1. Is(f, 0) OBVIOUS
  <2>2. QED BY <2>1
<1>3. ASSUME NEW n \in Nat, n \in Good PROVE n + 1 \in Good
  <2>1. PICK f : Is(f, n) BY <1>3
  <2> DEFINE h == [k \in 0..n+1 |-> IF k = 0 THEN A0 ELSE Step(f[k - 1])]
             j == [k \in 0..n+1 |-> IF k = 0 THEN A0 ELSE Step(h[k - 1])]
  <2>2. \A k \in 0..n : h[k] = f[k]
    <3>1. \A k \in 0..n : f[k] = IF k = 0 THEN A0 ELSE Step(f[k - 1]) BY <2>1
    <3>2. QED BY <3>1
  <2>3. \A k \in 0..n+1 : h[k] = j[k]
    <3> TAKE k \in 0..n+1
    <3>1. CASE k = 0 BY <3>1
    <3>2. CASE k # 0
      <4>1. k - 1 \in 0..n BY <3>2
      <4>2. QED BY <4>1, <3>2, <2>2
    <3>3. QED BY <3>1, <3>2
  <2>4. h = j BY <2>3
  <2> HIDE DEF h
  <2>5. Is(h, n + 1) BY <2>4
  <2>6. QED BY <2>5
<1> HIDE DEF Good
<1>4. K \in Good BY <1>1, <1>2, <1>3, NumberInduction
<1>5. \E f : Is(f, K) BY <1>4 DEF Good
<1> DEFINE r == CHOOSE f : Is(f, K)
<1>6. Is(r, K) BY <1>5
<1>7. SearchTable(s, d, now_, role, excluded, u) = r[K] BY DEF SearchTable, K, SearchStart
<1> HIDE DEF r
<1>8. \A k \in 0..K : r[k] = IF k = 0 THEN A0 ELSE Step(r[k - 1]) BY <1>6
<1>9. IsSearchRun(s, d, now_, role, excluded, u, r, K)
  <2>1. r[0] = A0 BY <1>1, <1>8
  <2>2. \A k \in 1..K : r[k] = Step(r[k - 1]) BY <1>1, <1>8
  <2>3. QED BY <2>1, <2>2 DEF IsSearchRun
<1>10. QED BY <1>7, <1>9

(* What every table of the search has: an entry other than the destination *)
(* came from one hop behind it.                                            *)
Traced(s, d, u, tab) ==
  \A m \in DOMAIN tab : m = d \/ (tab[m].prev \in Ids /\ m \in BackFrom(s, tab[m].prev, u))

LEMMA SearchTraced ==
  ASSUME NEW s, NEW d \in Ids, NEW now_, NEW role, NEW excluded, NEW u,
         HopsOk(s, now_, u), NEW K \in Nat, NEW f, IsSearchRun(s, d, now_, role, excluded, u, f, K)
  PROVE  \A k \in 0..K : TableOk(f[k]) /\ Traced(s, d, u, f[k])
<1> DEFINE S == {k \in 0..K : TableOk(f[k]) /\ Traced(s, d, u, f[k])}
<1>1. 0 \in S
  <2>1. f[0] = SearchStart(d) BY DEF IsSearchRun
  <2> DEFINE row == [cost |-> 0, prev |-> NoNode, done |-> FALSE]
  <2>4. DOMAIN f[0] = {d} /\ f[0][d] = row BY <2>1 DEF SearchStart
  <2>5. DOMAIN row = RowFields /\ row.cost \in 0 .. MaxPrice /\ row.done \in BOOLEAN
    BY PlusFacts DEF RowFields
  <2> HIDE DEF row
  <2>2. TableOk(f[0]) /\ Traced(s, d, u, f[0]) BY <2>4, <2>5 DEF TableOk, Traced
  <2>3. QED BY <2>2
<1>2. ASSUME NEW k \in 0 .. K - 1, k \in S PROVE k + 1 \in S
  <2> DEFINE tab == f[k]
             t == f[k + 1]
             n == Nearest(tab)
  <2>1. TableOk(tab) /\ Traced(s, d, u, tab) BY <1>2
  <2>2. t = SearchStep(s, d, now_, role, excluded, u, tab)
    <3>1. k + 1 \in 1..K /\ (k + 1) - 1 = k OBVIOUS
    <3>2. QED BY <3>1 DEF IsSearchRun
  <2> HIDE DEF tab, t
  <2>3. CASE Stopped(tab)
    <3>1. t = tab BY <2>2, <2>3 DEF SearchStep, Stopped
    <3>2. QED BY <3>1, <2>1 DEF t
  <2>4. CASE ~Stopped(tab)
    <3>1. TableOk(t) /\ Moved(s, d, now_, role, excluded, u, tab, t, n) BY <2>1, <2>2, <2>4, StepMoves
    <3>2. n \in Ids BY <2>1, <2>4, NearestIs DEF Stopped, Unvisited, TableOk
    <3> HIDE DEF n
    <3>3. Traced(s, d, u, t) BY <2>1, <3>1, <3>2 DEF Traced, Moved
    <3>4. QED BY <3>1, <3>3 DEF t
  <2>5. QED BY <2>3, <2>4
<1> HIDE DEF S
<1>3. \A k \in 0..K : k \in S BY <1>1, <1>2, UpTo
<1>4. QED BY <1>3 DEF S

(* The ids the graph names fit the table. *)
LEMMA AllFit ==
  ASSUME NEW N, IsFiniteSet(N), Cardinality(N) <= MAX_GRAPH_NODES, N \subseteq Nat,
         NEW tab, DOMAIN tab \subseteq N, NEW all \in SUBSET N
  PROVE  Fitting(tab, all \ DOMAIN tab) = all \ DOMAIN tab
<1> DEFINE new == all \ DOMAIN tab
           D == DOMAIN tab
<1>1. IsFiniteSet(new) /\ IsFiniteSet(D) /\ IsFiniteSet(new \cup D) BY FS_Subset
<1>2. Cardinality(new) \in Nat /\ Cardinality(D) \in Nat /\ Cardinality(N) \in Nat /\ MAX_GRAPH_NODES \in Nat
  BY <1>1, FS_CardinalityType, GraphSizes
<1>3. new \cap D = {} /\ new \cup D \in SUBSET N OBVIOUS
<1> HIDE DEF new, D
<1>4. Cardinality(new \cup D) = Cardinality(new) + Cardinality(D)
  <2>1. Cardinality(new \cup D) = Cardinality(new) + Cardinality(D) - Cardinality(new \cap D) BY <1>1, FS_Union
  <2>2. Cardinality(new \cap D) = 0 BY <1>3, FS_EmptySet
  <2>3. QED BY <2>1, <2>2, <1>2
<1>5. Cardinality(new \cup D) <= Cardinality(N) BY <1>3, FS_Subset
<1>6. ASSUME NEW m \in new PROVE Cardinality({k \in new : k < m}) < MAX_GRAPH_NODES - Cardinality(D)
  <2> DEFINE L == {k \in new : k < m}
  <2>1. m \in Nat BY <1>3
  <2>2. L \in SUBSET (new \ {m}) BY <2>1
  <2>3. IsFiniteSet(new \ {m}) /\ Cardinality(new \ {m}) = Cardinality(new) - 1
    <3>1. m \in new OBVIOUS
    <3>2. QED BY <3>1, <1>1, FS_RemoveElement
  <2> HIDE DEF L
  <2>4. Cardinality(L) <= Cardinality(new \ {m}) /\ Cardinality(L) \in Nat
    BY <2>2, <2>3, FS_Subset, FS_CardinalityType
  <2>5. Cardinality(L) < MAX_GRAPH_NODES - Cardinality(D) BY <2>3, <2>4, <1>2, <1>4, <1>5
  <2>6. QED BY <2>5 DEF L
<1>7. QED BY <1>6 DEF Fitting, new, D

(* Dijkstra's invariant after k rounds, when the ids fit the table: what    *)
(* was visited is not dearer than what was not, we are visited last, and    *)
(* whoever was visited and passes has been relaxed.                         *)
Visited(tab) == {n \in DOMAIN tab : tab[n].done}
Relaxed(s, now_, u, tab, n) ==
  \A m \in BackFrom(s, n, u) :
    m \in DOMAIN tab /\ tab[m].cost <= Plus(tab[n].cost, HopBack(s, n, m, now_, u))
Dijkstra(s, d, now_, role, excluded, u, N, k, tab) ==
  /\ TableOk(tab) /\ DOMAIN tab \subseteq N
  /\ d \in DOMAIN tab /\ tab[d].cost = 0
  /\ \A x \in Visited(tab), y \in Unvisited(tab) : tab[x].cost <= tab[y].cost
  /\ Me \in Visited(tab) => \A x \in Visited(tab) : tab[x].cost <= tab[Me].cost
  /\ \A n \in Visited(tab) : n # Me /\ Passes(s, d, n, role, excluded) => Relaxed(s, now_, u, tab, n)
  /\ Stopped(tab) \/ Cardinality(Visited(tab)) >= k

LEMMA DijkstraStep ==
  ASSUME NEW s, NEW d \in Ids, NEW now_, NEW role, NEW excluded, NEW u,
         HopsOk(s, now_, u), NEW N, IsFiniteSet(N), Cardinality(N) <= MAX_GRAPH_NODES, N \subseteq Nat,
         \A n \in Ids : BackFrom(s, n, u) \subseteq N,
         NEW k \in Nat, NEW tab, Dijkstra(s, d, now_, role, excluded, u, N, k, tab),
         ~Stopped(tab), NEW t, t = SearchStep(s, d, now_, role, excluded, u, tab)
  PROVE  Dijkstra(s, d, now_, role, excluded, u, N, k + 1, t)
<1> DEFINE n == Nearest(tab)
           Hop(m) == HopBack(s, n, m, now_, u)
<1>1. TableOk(tab) /\ DOMAIN tab \subseteq N /\ d \in DOMAIN tab /\ tab[d].cost = 0 BY DEF Dijkstra
<1>2. TableOk(t) /\ Moved(s, d, now_, role, excluded, u, tab, t, n) BY <1>1, StepMoves
<1>3. n \in Unvisited(tab) /\ \A y \in Unvisited(tab) : tab[n].cost <= tab[y].cost
  BY <1>1, NearestIs DEF Stopped
<1>4. n \in DOMAIN tab /\ n \in Ids BY <1>1, <1>3 DEF Unvisited, TableOk
<1> HIDE DEF n
<1>5. \A m \in BackFrom(s, n, u) : Hop(m) \in Nat BY <1>4 DEF HopsOk
<1>6. \A m \in DOMAIN tab : tab[m].cost \in Nat /\ tab[m].cost \in 0 .. NoPrice BY <1>1, TableCosts
<1>7. \A m \in DOMAIN t : t[m].cost \in Nat BY <1>2, TableCosts
<1>9. DOMAIN t \subseteq N
  <2> SUFFICES ASSUME NEW m \in DOMAIN t PROVE m \in N OBVIOUS
  <2>1. m \in DOMAIN tab \/ m \in BackFrom(s, n, u) BY <1>2 DEF Moved
  <2>2. QED BY <2>1, <1>1, <1>4
<1>10. d \in DOMAIN t /\ t[d].cost = 0
  <2>1. d \in DOMAIN t /\ t[d].cost <= tab[d].cost BY <1>1, <1>2 DEF Moved
  <2>2. QED BY <2>1, <1>1, <1>7
<1>12. \A x \in Visited(t) : x \in DOMAIN tab /\ t[x].cost = tab[x].cost /\ tab[x].cost <= tab[n].cost
  <2> TAKE x \in Visited(t)
  <2>1. x = n \/ (x \in DOMAIN tab /\ tab[x].done) BY <1>2 DEF Moved, Visited
  <2>2. CASE x = n BY <2>2, <1>2, <1>4, <1>6 DEF Moved
  <2>3. CASE x \in DOMAIN tab /\ tab[x].done
    <3>1. x \in Visited(tab) BY <2>3 DEF Visited
    <3>2. tab[x].cost <= tab[n].cost BY <3>1, <1>3 DEF Dijkstra
    <3>3. QED BY <2>3, <3>2, <1>2 DEF Moved
  <2>4. QED BY <2>1, <2>2, <2>3
<1>13. \A y \in Unvisited(t) : tab[n].cost <= t[y].cost
  <2> TAKE y \in Unvisited(t)
  <2>1. y \in DOMAIN t /\ y # n /\ ~(y \in DOMAIN tab /\ tab[y].done) BY <1>2 DEF Moved, Unvisited
  <2>2. CASE y \in DOMAIN tab /\ t[y].cost = tab[y].cost
    <3>1. y \in Unvisited(tab) BY <2>1, <2>2 DEF Unvisited
    <3>2. QED BY <2>2, <3>1, <1>3
  <2>3. CASE y \in BackFrom(s, n, u) /\ t[y].cost = Plus(tab[n].cost, Hop(y))
    <3>1. Hop(y) \in Nat BY <2>3, <1>5
    <3>2. QED BY <2>3, <3>1, <1>4, <1>6, PlusFacts
  <2>4. QED BY <1>2, <2>1, <2>2, <2>3 DEF Moved
<1>14. \A x \in Visited(t), y \in Unvisited(t) : t[x].cost <= t[y].cost
  <2> TAKE x \in Visited(t), y \in Unvisited(t)
  <2>1. y \in DOMAIN t BY DEF Unvisited
  <2>2. t[x].cost = tab[x].cost /\ tab[x].cost <= tab[n].cost /\ tab[n].cost <= t[y].cost /\ x \in DOMAIN tab
    BY <1>12, <1>13
  <2>3. QED BY <2>1, <2>2, <1>4, <1>6, <1>7
<1>15. Me \in Visited(t) => \A x \in Visited(t) : t[x].cost <= t[Me].cost
  <2> SUFFICES ASSUME Me \in Visited(t) PROVE Me = n BY <1>12, <1>2 DEF Moved
  <2>1. Me = n \/ (Me \in DOMAIN tab /\ tab[Me].done) BY <1>2 DEF Moved, Visited
  <2>2. QED BY <2>1 DEF Stopped
<1>16. ASSUME NEW x \in Visited(t), x # Me, Passes(s, d, x, role, excluded)
       PROVE  Relaxed(s, now_, u, t, x)
  <2> SUFFICES ASSUME NEW m \in BackFrom(s, x, u)
               PROVE  m \in DOMAIN t /\ t[m].cost <= Plus(t[x].cost, HopBack(s, x, m, now_, u))
    BY DEF Relaxed
  <2> DEFINE h == HopBack(s, x, m, now_, u)
  <2>1. x = n \/ (x \in DOMAIN tab /\ tab[x].done) BY <1>2 DEF Moved, Visited
  <2>2. x \in DOMAIN tab /\ t[x].cost = tab[x].cost /\ x \in Ids BY <1>12, <1>1 DEF TableOk
  <2>3. h \in Nat BY <2>2 DEF HopsOk
  <2>4. CASE x = n
    <3>1. Fitting(tab, BackFrom(s, n, u) \ DOMAIN tab) = BackFrom(s, n, u) \ DOMAIN tab
      BY <1>1, <1>4, AllFit
    <3>2. m \in DOMAIN t /\ (t[m].done \/ t[m].cost <= Plus(tab[n].cost, h))
      BY <1>2, <1>16, <2>4, <3>1 DEF Moved
    <3>3. CASE t[m].done
      <4>1. m \in Visited(t) BY <3>2, <3>3 DEF Visited
      <4>2. t[m].cost <= tab[n].cost BY <4>1, <1>12
      <4> HIDE DEF h
      <4>3. tab[n].cost <= Plus(tab[n].cost, h) /\ Plus(tab[n].cost, h) \in 0 .. NoPrice
        BY <2>3, <2>4, <1>4, <1>6, PlusFacts
      <4>5. t[m].cost <= Plus(t[x].cost, h) BY <4>2, <4>3, <2>2, <2>4, <3>2, <1>4, <1>6, <1>7
      <4>6. QED BY <4>5, <3>2 DEF h
    <3>4. CASE ~t[m].done BY <3>2, <3>4, <2>2, <2>4
    <3>5. QED BY <3>3, <3>4
  <2>5. CASE x \in DOMAIN tab /\ tab[x].done
    <3>1. Relaxed(s, now_, u, tab, x) BY <2>5, <1>16 DEF Dijkstra, Visited
    <3>2. m \in DOMAIN tab /\ tab[m].cost <= Plus(tab[x].cost, h) BY <3>1 DEF Relaxed
    <3> HIDE DEF h
    <3>3. m \in DOMAIN t /\ t[m].cost <= tab[m].cost BY <3>2, <1>2 DEF Moved
    <3>4. Plus(tab[x].cost, h) \in 0 .. NoPrice BY <2>2, <2>3, <1>6, PlusFacts
    <3>5. t[m].cost <= Plus(t[x].cost, h) BY <3>2, <3>3, <3>4, <2>2, <1>6, <1>7
    <3>6. QED BY <3>3, <3>5 DEF h
  <2>6. QED BY <2>1, <2>4, <2>5
<1>17. Cardinality(Visited(t)) >= k + 1
  <2>1. Visited(t) = Visited(tab) \cup {n} BY <1>2, <1>4 DEF Moved, Visited
  <2>2. n \notin Visited(tab) BY <1>3 DEF Visited, Unvisited
  <2>3. IsFiniteSet(Visited(tab)) BY <1>1, FS_Subset DEF Visited
  <2>4. Cardinality(Visited(t)) = Cardinality(Visited(tab)) + 1 BY <2>1, <2>2, <2>3, FS_AddElement
  <2>5. Cardinality(Visited(tab)) >= k /\ Cardinality(Visited(tab)) \in Nat
    BY <2>3, FS_CardinalityType DEF Dijkstra
  <2>6. QED BY <2>4, <2>5
<1>18. QED BY <1>2, <1>9, <1>10, <1>14, <1>15, <1>16, <1>17 DEF Dijkstra

(* After as many rounds as there are ids the search has stopped. *)
LEMMA DijkstraEnds ==
  ASSUME NEW s, NEW d \in Ids, NEW now_, NEW role, NEW excluded, NEW u,
         HopsOk(s, now_, u), NEW N, IsFiniteSet(N), Cardinality(N) <= MAX_GRAPH_NODES, N \subseteq Nat,
         d \in N, \A n \in Ids : BackFrom(s, n, u) \subseteq N,
         NEW f, IsSearchRun(s, d, now_, role, excluded, u, f, Cardinality(Ids))
  PROVE  /\ Dijkstra(s, d, now_, role, excluded, u, N, Cardinality(Ids), f[Cardinality(Ids)])
         /\ Stopped(f[Cardinality(Ids)])
<1> DEFINE K == Cardinality(Ids)
           S == {k \in 0..K : Dijkstra(s, d, now_, role, excluded, u, N, k, f[k])}
<1>1. K \in Nat BY GraphSizes, FS_CardinalityType
<1>2. \A k \in 0..K : TableOk(f[k]) BY <1>1, SearchTraced
<1> HIDE DEF K
<1>4. 0 \in S
  <2> DEFINE row == [cost |-> 0, prev |-> NoNode, done |-> FALSE]
             tab == f[0]
  <2>1. tab = SearchStart(d) BY DEF IsSearchRun
  <2>2. DOMAIN tab = {d} /\ tab[d] = row BY <2>1 DEF SearchStart
  <2>3. row.cost = 0 /\ row.done = FALSE OBVIOUS
  <2>4. TableOk(tab) BY <1>1, <1>2
  <2> HIDE DEF row, tab
  <2>5. Visited(tab) = {} BY <2>2, <2>3 DEF Visited
  <2>6. Cardinality(Visited(tab)) >= 0 BY <2>5, FS_EmptySet
  <2>9. Dijkstra(s, d, now_, role, excluded, u, N, 0, tab)
    BY <2>2, <2>3, <2>4, <2>5, <2>6 DEF Dijkstra
  <2>10. QED BY <2>9, <1>1 DEF tab
<1>5. ASSUME NEW k \in 0 .. K - 1, k \in S PROVE k + 1 \in S
  <2> DEFINE tab == f[k]
             t == f[k + 1]
  <2>1. k \in Nat /\ Dijkstra(s, d, now_, role, excluded, u, N, k, tab) BY <1>5
  <2>2. t = SearchStep(s, d, now_, role, excluded, u, tab)
    <3>1. k + 1 \in 1..K /\ (k + 1) - 1 = k BY <1>1
    <3>2. QED BY <3>1 DEF IsSearchRun, K
  <2> HIDE DEF tab, t
  <2>3. CASE Stopped(tab)
    <3>1. t = tab BY <2>2, <2>3 DEF SearchStep, Stopped
    <3>6. Dijkstra(s, d, now_, role, excluded, u, N, k + 1, t)
      BY <3>1, <2>1, <2>3 DEF Dijkstra
    <3>7. QED BY <3>6, <1>1 DEF t
  <2>4. CASE ~Stopped(tab)
    <3>1. Dijkstra(s, d, now_, role, excluded, u, N, k + 1, t) BY <2>1, <2>2, <2>4, DijkstraStep
    <3>2. QED BY <3>1, <1>1 DEF t
  <2>5. QED BY <2>3, <2>4
<1> HIDE DEF S
<1>6. K \in S BY <1>1, <1>4, <1>5, UpTo
<1> DEFINE tab == f[K]
<1>7. Dijkstra(s, d, now_, role, excluded, u, N, K, tab) BY <1>6 DEF S
<1> HIDE DEF tab
<1>8. Stopped(tab)
  <2> SUFFICES ASSUME ~Stopped(tab) PROVE FALSE OBVIOUS
  <2>1. Cardinality(Visited(tab)) >= K /\ Visited(tab) \in SUBSET Ids /\ TableOk(tab)
    BY <1>7 DEF Dijkstra, TableOk, Visited
  <2>2. Cardinality(Visited(tab)) <= K /\ (K = Cardinality(Visited(tab)) => Ids = Visited(tab))
    BY <2>1, GraphSizes, FS_Subset DEF K
  <2>3. Cardinality(Visited(tab)) \in Nat BY <2>1, GraphSizes, FS_Subset, FS_CardinalityType
  <2>4. Ids = Visited(tab) BY <2>1, <2>2, <2>3, <1>1
  <2>5. QED BY <2>1, <2>4 DEF Stopped, Unvisited, Visited, TableOk
<1>9. QED BY <1>7, <1>8 DEF tab, K

-----------------------------------------------------------------------------
(* The reference. *)

LEMMA LeastIs ==
  ASSUME NEW S \in SUBSET Nat, S # {}
  PROVE  Least(S) \in S /\ \A y \in S : Least(S) <= y
BY LeastNumber DEF Least

RefStart(d) == [n \in Ids |-> IF n = d THEN 0 ELSE NoPrice]
IsReference(f, d, K) == f[0] = RefStart(d) /\ \A k \in 1..K : f[k] = OneHopMore(f[k - 1], d)

LEMMA ReferenceRun ==
  ASSUME NEW d
  PROVE  \E f : /\ IsReference(f, d, Cardinality(Ids))
                /\ CheapestPath(d) = f[Cardinality(Ids)][Me]
<1> DEFINE Step(known) == OneHopMore(known, d)
           A0 == RefStart(d)
           Is(f, n) == f = [k \in 0..n |-> IF k = 0 THEN A0 ELSE Step(f[k - 1])]
           Good == {n \in Nat : \E f : Is(f, n)}
           K == Cardinality(Ids)
<1>1. K \in Nat BY GraphSizes, FS_CardinalityType
<1> HIDE DEF K
<1>2. 0 \in Good
  <2> DEFINE f == [k \in 0..0 |-> A0]
  <2>1. Is(f, 0) OBVIOUS
  <2>2. QED BY <2>1
<1>3. ASSUME NEW n \in Nat, n \in Good PROVE n + 1 \in Good
  <2>1. PICK f : Is(f, n) BY <1>3
  <2> DEFINE h == [k \in 0..n+1 |-> IF k = 0 THEN A0 ELSE Step(f[k - 1])]
             j == [k \in 0..n+1 |-> IF k = 0 THEN A0 ELSE Step(h[k - 1])]
  <2>2. \A k \in 0..n : h[k] = f[k]
    <3>1. \A k \in 0..n : f[k] = IF k = 0 THEN A0 ELSE Step(f[k - 1]) BY <2>1
    <3>2. QED BY <3>1
  <2>3. \A k \in 0..n+1 : h[k] = j[k]
    <3> TAKE k \in 0..n+1
    <3>1. CASE k = 0 BY <3>1
    <3>2. CASE k # 0
      <4>1. k - 1 \in 0..n BY <3>2
      <4>2. QED BY <4>1, <3>2, <2>2
    <3>3. QED BY <3>1, <3>2
  <2>4. h = j BY <2>3
  <2> HIDE DEF h
  <2>5. Is(h, n + 1) BY <2>4
  <2>6. QED BY <2>5
<1> HIDE DEF Good
<1>4. K \in Good BY <1>1, <1>2, <1>3, NumberInduction
<1>5. \E f : Is(f, K) BY <1>4 DEF Good
<1> DEFINE r == CHOOSE f : Is(f, K)
<1>6. Is(r, K) BY <1>5
<1>7. CheapestPath(d) = r[K][Me] BY DEF CheapestPath, K, RefStart
<1> HIDE DEF r
<1>8. \A k \in 0..K : r[k] = IF k = 0 THEN A0 ELSE Step(r[k - 1]) BY <1>6
<1>9. IsReference(r, d, K)
  <2>1. r[0] = A0 BY <1>1, <1>8
  <2>2. \A k \in 1..K : r[k] = Step(r[k - 1]) BY <1>1, <1>8
  <2>3. QED BY <2>1, <2>2 DEF IsReference
<1>10. QED BY <1>7, <1>9 DEF K

VBack(n) == BackFrom(g, n, FALSE)
VHop(n, m) == HopBack(g, n, m, now, FALSE)
Better(known, t, d) ==
  /\ t \in [Ids -> 0 .. NoPrice]
  /\ \A m \in Ids : t[m] <= known[m]
  /\ \A n \in MayPass(d) : \A m \in VBack(n) : t[m] <= Plus(known[n], VHop(n, m))
  /\ \A m \in Ids : t[m] = known[m] \/ \E n \in MayPass(d) : m \in VBack(n) /\ t[m] = Plus(known[n], VHop(n, m))
VHopsOk == \A n \in Ids : VBack(n) \subseteq Ids /\ \A m \in VBack(n) : VHop(n, m) \in Nat

LEMMA OneHopMoreIs ==
  ASSUME NEW d, NEW known \in [Ids -> 0 .. NoPrice], VHopsOk
  PROVE  Better(known, OneHopMore(known, d), d)
<1> DEFINE P == MayPass(d)
           From(m) == {n \in P : m \in VBack(n)}
           C(m) == {known[m]} \cup {Plus(known[n], VHop(n, m)) : n \in From(m)}
           t == OneHopMore(known, d)
<1>1. t = [m \in Ids |-> Least(C(m))] BY DEF OneHopMore, VBack, VHop
<1>2. P \subseteq Ids BY DEF MayPass
<1>3. \A n \in P : \A m \in VBack(n) : VHop(n, m) \in Nat /\ m \in Ids /\ Plus(known[n], VHop(n, m)) \in 0 .. NoPrice
  <2>1. \A n \in P : \A m \in VBack(n) : VHop(n, m) \in Nat BY <1>2 DEF VHopsOk
  <2>2. QED BY <1>2, <2>1, PlusFacts DEF VHopsOk
<1> HIDE DEF P, t
<1>4. \A m \in Ids : C(m) \in SUBSET Nat /\ C(m) \in SUBSET (0 .. NoPrice) /\ C(m) # {} BY <1>3
<1>5. \A m \in Ids : Least(C(m)) \in C(m) /\ \A y \in C(m) : Least(C(m)) <= y
  <2> TAKE m \in Ids
  <2> HIDE DEF C
  <2>1. QED BY <1>4, LeastIs
<1>6. \A m \in Ids : t[m] \in C(m) /\ \A y \in C(m) : t[m] <= y
  <2> HIDE DEF C
  <2>1. QED BY <1>1, <1>5
<1>7. t \in [Ids -> 0 .. NoPrice]
  <2> HIDE DEF C
  <2>1. QED BY <1>1, <1>4, <1>5
<1>8. \A m \in Ids : t[m] <= known[m] BY <1>6
<1>9. \A n \in P : \A m \in VBack(n) : t[m] <= Plus(known[n], VHop(n, m))
  <2> TAKE n \in P
  <2> TAKE m \in VBack(n)
  <2>1. m \in Ids /\ n \in From(m) BY <1>3
  <2>2. Plus(known[n], VHop(n, m)) \in C(m) BY <2>1
  <2> HIDE DEF C
  <2>3. QED BY <2>1, <2>2, <1>6
<1>10. \A m \in Ids : t[m] = known[m] \/ \E n \in P : m \in VBack(n) /\ t[m] = Plus(known[n], VHop(n, m))
  <2> TAKE m \in Ids
  <2>1. t[m] \in C(m) BY <1>6
  <2>2. QED BY <2>1
<1>11. QED BY <1>7, <1>8, <1>9, <1>10 DEF Better, P, t

VStep(d, tab) == SearchStep(g, d, now, MyRole, {}, FALSE, tab)
VPasses(d, n) == Passes(g, d, n, MyRole, {})
VDijkstra(d, N, k, tab) == Dijkstra(g, d, now, MyRole, {}, FALSE, N, k, tab)
VRun(d, f) == IsSearchRun(g, d, now, MyRole, {}, FALSE, f, Cardinality(Ids))

(* The reference is never dearer than the table of the search ... *)
LEMMA ReferenceBelow ==
  ASSUME NEW d \in Ids, VHopsOk, NEW f, VRun(d, f),
         NEW r, IsReference(r, d, Cardinality(Ids))
  PROVE  \A k \in 0..Cardinality(Ids) :
           r[k] \in [Ids -> 0 .. NoPrice] /\ \A m \in DOMAIN f[k] : m \in Ids /\ r[k][m] <= f[k][m].cost
<1> DEFINE K == Cardinality(Ids)
           Below(k) == r[k] \in [Ids -> 0 .. NoPrice] /\ \A m \in DOMAIN f[k] : m \in Ids /\ r[k][m] <= f[k][m].cost
           S == {k \in 0..K : Below(k)}
<1>1. K \in Nat BY GraphSizes, FS_CardinalityType
<1>0. HopsOk(g, now, FALSE) BY DEF VHopsOk, HopsOk, VBack, VHop
<1>2. \A k \in 0..K : TableOk(f[k]) BY <1>1, <1>0, SearchTraced DEF VRun
<1> HIDE DEF K
<1>4. 0 \in S
  <2>1. r[0] = RefStart(d) BY DEF IsReference
  <2>2. r[0] \in [Ids -> 0 .. NoPrice] /\ r[0][d] = 0 BY <2>1, PlusFacts DEF RefStart
  <2>3. f[0] = SearchStart(d) BY DEF VRun, IsSearchRun
  <2>4. DOMAIN f[0] = {d} /\ f[0][d].cost = 0 BY <2>3 DEF SearchStart
  <2>5. Below(0) BY <2>2, <2>4
  <2>6. QED BY <2>5, <1>1
<1>5. ASSUME NEW k \in 0 .. K - 1, k \in S PROVE k + 1 \in S
  <2> DEFINE tab == f[k]
             t == f[k + 1]
             known == r[k]
             more == r[k + 1]
  <2>1. k \in 0..K /\ k + 1 \in 0..K /\ k + 1 \in 1..K /\ (k + 1) - 1 = k BY <1>1
  <2>2. /\ t = VStep(d, tab) /\ TableOk(tab) /\ TableOk(t)
        /\ more = OneHopMore(known, d)
    BY <2>1, <1>2 DEF VRun, IsSearchRun, IsReference, K, VStep
  <2>3. known \in [Ids -> 0 .. NoPrice] /\ \A m \in DOMAIN tab : m \in Ids /\ known[m] <= tab[m].cost BY <1>5
  <2> HIDE DEF tab, t, known, more
  <2>4. Better(known, more, d) BY <2>2, <2>3, OneHopMoreIs
  <2>5. more \in [Ids -> 0 .. NoPrice] /\ \A m \in Ids : more[m] <= known[m] BY <2>4 DEF Better
  <2>6. \A m \in DOMAIN t : m \in Ids /\ t[m].cost \in Nat BY <2>2, TableCosts DEF TableOk
  <2>7. \A m \in DOMAIN tab : m \in Ids /\ tab[m].cost \in Nat /\ tab[m].cost \in 0 .. NoPrice
    BY <2>2, TableCosts DEF TableOk
  <2>8. \A m \in DOMAIN t : more[m] <= t[m].cost
    <3>1. CASE Stopped(tab)
      <4>1. t = tab BY <2>2, <3>1 DEF SearchStep, Stopped, VStep
      <4>2. QED BY <4>1, <2>3, <2>5, <2>6
    <3>2. CASE ~Stopped(tab)
      <4> DEFINE n == Nearest(tab)
      <4>1. Moved(g, d, now, MyRole, {}, FALSE, tab, t, n) BY <1>0, <2>2, <3>2, StepMoves DEF VStep
      <4>2. n \in DOMAIN tab BY <2>2, <3>2, NearestIs DEF Stopped, Unvisited
      <4> HIDE DEF n
      <4> TAKE m \in DOMAIN t
      <4>3. CASE m \in DOMAIN tab /\ t[m].cost = tab[m].cost BY <4>3, <2>3, <2>5, <2>7
      <4>4. CASE VPasses(d, n) /\ m \in VBack(n) /\ t[m].cost = Plus(tab[n].cost, VHop(n, m))
        <5>1. n \in MayPass(d) BY <4>2, <4>4, <2>7 DEF MayPass, VPasses, Passes
        <5>2. more[m] <= Plus(known[n], VHop(n, m)) BY <5>1, <4>4, <2>4 DEF Better
        <5>3. known[n] <= tab[n].cost /\ known[n] \in 0 .. NoPrice /\ tab[n].cost \in 0 .. NoPrice
          BY <4>2, <2>3, <2>7
        <5>4. VHop(n, m) \in Nat BY <4>2, <4>4, <2>7 DEF VHopsOk
        <5>5. more[m] \in 0 .. NoPrice BY <2>5, <2>6
        <5>6. /\ Plus(known[n], VHop(n, m)) <= Plus(tab[n].cost, VHop(n, m))
              /\ Plus(known[n], VHop(n, m)) \in 0 .. NoPrice /\ Plus(tab[n].cost, VHop(n, m)) \in 0 .. NoPrice
          BY <5>3, <5>4, PlusFacts
        <5>7. QED BY <5>2, <5>5, <5>6, <4>4
      <4>5. QED BY <4>1, <4>3, <4>4 DEF Moved, VPasses, VBack, VHop
    <3>3. QED BY <3>1, <3>2
  <2>9. Below(k + 1) BY <2>5, <2>6, <2>8 DEF t, more
  <2>10. QED BY <2>1, <2>9
<1> HIDE DEF S
<1>6. \A k \in 0..K : k \in S BY <1>1, <1>4, <1>5, UpTo
<1>7. QED BY <1>6 DEF S, K

(* ... and never cheaper than what was visited, or than our own price. *)
OurPrice(tab) == IF Me \in DOMAIN tab THEN tab[Me].cost ELSE NoPrice
NotBelow(tab, known) ==
  \A m \in Ids : known[m] >= IF m \in Visited(tab) THEN tab[m].cost ELSE OurPrice(tab)

LEMMA FinalTable ==
  ASSUME NEW d \in Ids, d # Me, NEW N, NEW tab,
         VDijkstra(d, N, Cardinality(Ids), tab), Stopped(tab)
  PROVE  /\ TableOk(tab) /\ \A m \in DOMAIN tab : tab[m].cost \in Nat /\ tab[m].cost <= NoPrice
         /\ OurPrice(tab) \in Nat /\ OurPrice(tab) <= NoPrice
         /\ \A m \in Visited(tab) : tab[m].cost <= OurPrice(tab)
         /\ \A m \in Unvisited(tab) : OurPrice(tab) <= tab[m].cost
         /\ d \in DOMAIN tab /\ tab[d].cost = 0
<1>1. TableOk(tab) /\ d \in DOMAIN tab /\ tab[d].cost = 0
  BY DEF VDijkstra, Dijkstra
<1>2. \A m \in DOMAIN tab : tab[m].cost \in Nat BY <1>1, TableCosts
<1>3. \A m \in DOMAIN tab : tab[m].cost <= NoPrice
  <2>1. \A m \in DOMAIN tab : tab[m].cost <= MaxPrice BY <1>1, TableCosts
  <2>2. NoPrice \in Nat /\ MaxPrice \in Nat /\ MaxPrice < NoPrice BY PlusFacts
  <2>3. QED BY <1>2, <2>1, <2>2
<1>4. OurPrice(tab) \in Nat /\ OurPrice(tab) <= NoPrice
  <2>1. NoPrice \in Nat BY PlusFacts
  <2>2. QED BY <1>2, <1>3, <2>1 DEF OurPrice
<1>5. CASE Me \in Visited(tab)
  <2>1. OurPrice(tab) = tab[Me].cost BY <1>5 DEF OurPrice, Visited
  <2>2. \A m \in Visited(tab) : tab[m].cost <= tab[Me].cost BY <1>5 DEF VDijkstra, Dijkstra
  <2>3. \A m \in Unvisited(tab) : tab[Me].cost <= tab[m].cost BY <1>5 DEF VDijkstra, Dijkstra
  <2>4. QED BY <1>1, <1>2, <1>3, <1>4, <2>1, <2>2, <2>3
<1>6. CASE Me \notin Visited(tab)
  <2>1. Unvisited(tab) = {} BY <1>6 DEF Stopped, Visited
  <2>2. Me \notin DOMAIN tab BY <2>1, <1>6 DEF Unvisited, Visited
  <2>3. OurPrice(tab) = NoPrice BY <2>2 DEF OurPrice
  <2>4. QED BY <1>1, <1>2, <1>3, <1>4, <2>1, <2>3 DEF Visited
<1>7. QED BY <1>5, <1>6

LEMMA ReferenceAbove ==
  ASSUME NEW d \in Ids, d # Me, VHopsOk, NEW N, NEW tab,
         VDijkstra(d, N, Cardinality(Ids), tab), Stopped(tab),
         NEW r, IsReference(r, d, Cardinality(Ids))
  PROVE  \A k \in 0..Cardinality(Ids) : r[k] \in [Ids -> 0 .. NoPrice] /\ NotBelow(tab, r[k])
<1> DEFINE K == Cardinality(Ids)
           S == {k \in 0..K : r[k] \in [Ids -> 0 .. NoPrice] /\ NotBelow(tab, r[k])}
           C == OurPrice(tab)
<1>1. K \in Nat BY GraphSizes, FS_CardinalityType
<1>2. /\ \A m \in DOMAIN tab : tab[m].cost \in Nat /\ tab[m].cost <= NoPrice
      /\ C \in Nat /\ C <= NoPrice
      /\ \A m \in Visited(tab) : tab[m].cost <= C
      /\ \A m \in Unvisited(tab) : C <= tab[m].cost
      /\ d \in DOMAIN tab /\ tab[d].cost = 0
  BY FinalTable
<1> HIDE DEF K, C
<1>3. \A m \in DOMAIN tab : m \in Visited(tab) \/ m \in Unvisited(tab) BY DEF Visited, Unvisited
<1>4. \A m \in Visited(tab) : m \in DOMAIN tab BY DEF Visited
<1>9. \A m \in DOMAIN tab : tab[m].cost \in 0 .. NoPrice
  <2>1. TableOk(tab) BY DEF VDijkstra, Dijkstra
  <2>2. QED BY <2>1, TableCosts
<1>5. 0 \in S
  <2>1. r[0] = RefStart(d) BY DEF IsReference
  <2>2. r[0] \in [Ids -> 0 .. NoPrice] BY <2>1, PlusFacts DEF RefStart
  <2>3. ASSUME NEW m \in Ids PROVE r[0][m] >= IF m \in Visited(tab) THEN tab[m].cost ELSE C
    <3>1. CASE m = d
      <4>1. r[0][m] = 0 BY <2>1, <3>1 DEF RefStart
      <4>2. CASE d \in Visited(tab) BY <4>1, <4>2, <3>1, <1>2
      <4>3. CASE d \notin Visited(tab)
        <5>1. C <= 0 BY <4>3, <1>2, <1>3
        <5>2. QED BY <4>1, <4>3, <5>1, <3>1, <1>2
      <4>4. QED BY <4>2, <4>3
    <3>2. CASE m # d
      <4>1. r[0][m] = NoPrice BY <2>1, <3>2 DEF RefStart
      <4>2. QED BY <4>1, <1>2, <1>4, PlusFacts
    <3>3. QED BY <3>1, <3>2
  <2>4. NotBelow(tab, r[0]) BY <2>3 DEF NotBelow, C
  <2>5. QED BY <2>2, <2>4, <1>1
<1>6. ASSUME NEW k \in 0 .. K - 1, k \in S PROVE k + 1 \in S
  <2> DEFINE known == r[k]
             more == r[k + 1]
  <2>1. k \in 0..K /\ k + 1 \in 0..K /\ k + 1 \in 1..K /\ (k + 1) - 1 = k BY <1>1
  <2>2. more = OneHopMore(known, d) BY <2>1 DEF IsReference, K
  <2>3. known \in [Ids -> 0 .. NoPrice] /\ NotBelow(tab, known) BY <1>6
  <2> HIDE DEF known, more
  <2>4. Better(known, more, d) BY <2>2, <2>3, OneHopMoreIs
  <2>5. more \in [Ids -> 0 .. NoPrice] BY <2>4 DEF Better
  <2>6. ASSUME NEW m \in Ids PROVE more[m] >= IF m \in Visited(tab) THEN tab[m].cost ELSE C
    <3>1. CASE more[m] = known[m] BY <3>1, <2>3 DEF NotBelow, C
    <3>2. CASE \E n \in MayPass(d) : m \in VBack(n) /\ more[m] = Plus(known[n], VHop(n, m))
      <4>1. PICK n \in MayPass(d) : m \in VBack(n) /\ more[m] = Plus(known[n], VHop(n, m)) BY <3>2
      <4>2. n \in Ids /\ VPasses(d, n) /\ n # Me BY <4>1 DEF MayPass, VPasses, Passes
      <4>3. VHop(n, m) \in Nat BY <4>1, <4>2 DEF VHopsOk
      <4>4. known[n] \in 0 .. NoPrice /\ more[m] \in 0 .. NoPrice BY <4>2, <2>3, <2>5
      <4>5. CASE n \in Visited(tab)
        <5>1. Relaxed(g, now, FALSE, tab, n) BY <4>2, <4>5 DEF VDijkstra, Dijkstra, VPasses
        <5>2. m \in DOMAIN tab /\ tab[m].cost <= Plus(tab[n].cost, VHop(n, m))
          BY <5>1, <4>1 DEF Relaxed, VBack, VHop
        <5>3. known[n] >= tab[n].cost BY <4>2, <4>5, <2>3 DEF NotBelow
        <5>4. tab[n].cost \in Nat /\ tab[m].cost \in Nat /\ tab[n].cost \in 0 .. NoPrice
          BY <4>5, <5>2, <1>2, <1>4, <1>9
        <5>8. /\ Plus(tab[n].cost, VHop(n, m)) <= Plus(known[n], VHop(n, m))
              /\ Plus(tab[n].cost, VHop(n, m)) \in 0 .. NoPrice
          BY <5>3, <5>4, <4>3, <4>4, PlusFacts
        <5>5. more[m] >= tab[m].cost BY <5>2, <5>4, <5>8, <4>1, <4>4
        <5>6. m \notin Visited(tab) => C <= tab[m].cost BY <5>2, <1>2, <1>3
        <5>7. QED BY <5>4, <5>5, <5>6, <4>4, <1>2
      <4>6. CASE n \notin Visited(tab)
        <5>1. known[n] >= C BY <4>2, <4>6, <2>3 DEF NotBelow, C
        <5>2. more[m] >= known[n] BY <4>1, <4>3, <4>4, PlusFacts
        <5>5. more[m] >= C BY <5>1, <5>2, <4>4, <1>2
        <5>3. m \in Visited(tab) => tab[m].cost <= C /\ tab[m].cost \in Nat BY <1>2, <1>4
        <5>4. QED BY <5>5, <5>3, <4>4, <1>2
      <4>7. QED BY <4>5, <4>6
    <3>3. QED BY <2>4, <3>1, <3>2 DEF Better
  <2>7. NotBelow(tab, more) BY <2>6 DEF NotBelow, C
  <2>8. QED BY <2>1, <2>5, <2>7 DEF more
<1> HIDE DEF S
<1>7. \A k \in 0..K : k \in S BY <1>1, <1>5, <1>6, UpTo
<1>8. QED BY <1>7 DEF S, K

(* The search finds the cheapest path, of every graph whose ids fit. *)
Names == Real \cup Present(g) \cup UNION {Out(g, n) : n \in Present(g)}

LEMMA SearchOptimal ==
  ASSUME NEW d \in Real, VHopsOk, Names \subseteq Ids, Cardinality(Names) <= MAX_GRAPH_NODES,
         \A n \in Ids : VBack(n) \subseteq Names
  PROVE  BackwardSearch(g, d, now, MyRole, {}, FALSE).cost = CheapestPath(d)
<1> DEFINE K == Cardinality(Ids)
<1>1. d \in Ids /\ d # Me /\ Me \in Ids /\ d \in Names BY GraphSizes DEF Ids, Names
<1>2. IsFiniteSet(Names) /\ Names \subseteq Nat BY GraphSizes, FS_Subset
<1>0. HopsOk(g, now, FALSE) BY DEF VHopsOk, HopsOk, VBack, VHop
<1>3. K \in Nat BY GraphSizes, FS_CardinalityType
<1>4. PICK f : VRun(d, f) /\ SearchTable(g, d, now, MyRole, {}, FALSE) = f[K]
  <2> DEFINE u == FALSE
             none == {}
  <2> HIDE DEF u, none
  <2>1. PICK f : /\ IsSearchRun(g, d, now, MyRole, none, u, f, K)
                 /\ SearchTable(g, d, now, MyRole, none, u) = f[K]
    BY SearchRun
  <2>2. QED BY <2>1 DEF VRun, u, none
<1>5. PICK r : IsReference(r, d, K) /\ CheapestPath(d) = r[K][Me] BY ReferenceRun
<1>6. VDijkstra(d, Names, K, f[K]) /\ Stopped(f[K])
  BY <1>0, <1>1, <1>2, <1>4, DijkstraEnds DEF VRun, VDijkstra, VBack
<1> DEFINE tab == f[K]
           low == r[K]
<1>7. low \in [Ids -> 0 .. NoPrice] /\ \A m \in DOMAIN tab : low[m] <= tab[m].cost
  BY <1>1, <1>3, <1>4, <1>5, ReferenceBelow
<1>8. NotBelow(tab, low) BY <1>1, <1>3, <1>5, <1>6, ReferenceAbove
<1>9. /\ \A m \in DOMAIN tab : tab[m].cost \in Nat /\ tab[m].cost <= NoPrice
      /\ OurPrice(tab) \in Nat /\ OurPrice(tab) <= NoPrice
      /\ \A m \in Visited(tab) : tab[m].cost <= OurPrice(tab)
  BY <1>1, <1>6, FinalTable
<1> HIDE DEF tab, low, K
<1>10. BackwardSearch(g, d, now, MyRole, {}, FALSE).cost = OurPrice(tab)
  <2>1. SearchTable(g, d, now, MyRole, {}, FALSE) = tab BY <1>4 DEF tab
  <2>2. PathTo(d, tab).cost = OurPrice(tab) BY <1>1 DEF PathTo, NoPath, OurPrice
  <2>3. QED BY <2>1, <2>2 DEF BackwardSearch
<1>11. low[Me] >= OurPrice(tab)
  <2>1. CASE Me \in Visited(tab) BY <2>1, <1>1, <1>8 DEF NotBelow, OurPrice, Visited
  <2>2. CASE Me \notin Visited(tab) BY <2>2, <1>1, <1>8 DEF NotBelow
  <2>3. QED BY <2>1, <2>2
<1>12. low[Me] = OurPrice(tab)
  <2>1. low[Me] \in 0 .. NoPrice BY <1>1, <1>7
  <2>2. CASE Me \in DOMAIN tab
    <3>1. low[Me] <= OurPrice(tab) BY <2>2, <1>7 DEF OurPrice
    <3>2. QED BY <3>1, <2>1, <1>9, <1>11
  <2>3. CASE Me \notin DOMAIN tab
    <3>1. OurPrice(tab) = NoPrice BY <2>3 DEF OurPrice
    <3>2. NoPrice \in Nat BY PlusFacts
    <3>3. QED BY <3>1, <3>2, <2>1, <1>11
  <2>4. QED BY <2>2, <2>3
<1>13. QED BY <1>5, <1>10, <1>12 DEF low, K

-----------------------------------------------------------------------------
(* The tables of the graph.                                                *)

GraphFields == {"node", "pend", "ds", "caps"}
NodeFields == {"class", "hint", "full", "out"}
EdgeFields == {"etx", "at", "src", "hears", "heard"}
EdgeOk(e) ==
  /\ DOMAIN e = EdgeFields
  /\ e.etx \in Nat /\ e.at \in Int /\ e.src \in Sources /\ e.heard \in Int
OutOk(n, out) ==
  /\ DOMAIN out \subseteq Ids \ {n} /\ Cardinality(DOMAIN out) <= MAX_EDGES_PER_NODE
  /\ \A m \in DOMAIN out : EdgeOk(out[m])
NodeOk(n, v) == DOMAIN v = NodeFields /\ v.class \in Classes /\ v.full \in Int /\ OutOk(n, v.out)
Typed(s) ==
  /\ DOMAIN s = GraphFields
  /\ DOMAIN s.node \subseteq Ids /\ Cardinality(DOMAIN s.node) <= MAX_GRAPH_NODES
  /\ \A n \in DOMAIN s.node : NodeOk(n, s.node[n])

L1At(s, n) == n \in Present(s) /\ s.node[n].class = "L1"

(* Who is heard is a real node, and while it is in the graph its class is L1. *)
HeardOk(s, X) ==
  \A n \in Ids : Reported(s, Me, n) => n \in Real /\ (n \in Present(s) /\ n \notin X => L1At(s, n))
GInv(s) == Typed(s) /\ HeardOk(s, {})

(* From s to t: the nodes of class L1 stay; only those of N are newly heard. *)
KeepsL1(s, t) == \A n \in Ids : L1At(s, n) => L1At(t, n)
HeardIn(s, t, N) == \A n \in Ids : Reported(t, Me, n) => Reported(s, Me, n) \/ n \in N
Stuck(s) == Full(s) /\ Victims(s) = {}

LEMMA IdFacts ==
  /\ IsFiniteSet(Ids) /\ Me \in Ids /\ Me # NoNode /\ NoNode \notin Ids
  /\ Real \subseteq Ids /\ Placeholders \subseteq Ids /\ Me \notin Real /\ Me \notin Placeholders
  /\ Real \cap Placeholders = {} /\ \A n \in Ids : n \in Nat
BY GraphSizes DEF Ids, NoNode

LEMMA SizeFacts ==
  /\ MAX_GRAPH_NODES \in Nat /\ MAX_GRAPH_NODES > 0
  /\ MAX_EDGES_PER_NODE \in Nat /\ MAX_EDGES_PER_NODE > 0
  /\ AgeEtx \in Nat /\ Clock \in Nat /\ Clock > 0
BY GraphSizes

LEMMA AgeInt == ASSUME NEW a \in Int, NEW b \in Int PROVE Age(a, b) \in Int
BY SizeFacts DEF Age

LEMMA CardIds == ASSUME NEW S \in SUBSET Ids PROVE IsFiniteSet(S) /\ Cardinality(S) \in Nat
BY IdFacts, FS_Subset, FS_CardinalityType

(* The victim of an eviction is one of the candidates. *)
LEMMA VictimIs ==
  ASSUME NEW s, Typed(s), NEW now_ \in Int, Victims(s) # {}
  PROVE  Victim(s, now_) \in Victims(s)
<1> DEFINE S == Victims(s)
           a(n) == EvictionRank(s.node[n].class)
           b(n) == Cardinality(Out(s, n))
           c(n) == Age(now_, s.node[n].full)
           Worse(x, y) == \/ a(x) > a(y)
                          \/ a(x) = a(y) /\ b(x) < b(y)
                          \/ a(x) = a(y) /\ b(x) = b(y) /\ c(x) > c(y)
           First(x, y) == Worse(x, y) \/ (~Worse(y, x) /\ x < y)
           B == {p \in S \X S : First(p[1], p[2])}
<1>1. S \subseteq Ids /\ S \subseteq Present(s) BY DEF Victims, Present, Typed
<1>2. \A x \in S : a(x) \in Int
  <2> SUFFICES ASSUME NEW x \in S PROVE a(x) \in Int OBVIOUS
  <2>1. s.node[x].class \in Classes BY <1>1 DEF Typed, NodeOk, Present
  <2> DEFINE k == s.node[x].class
  <2> HIDE DEF k
  <2>2. EvictionRank(k) \in {0, 1, 2, 3}
    <3>1. k = "Unknown" \/ k = "L3" \/ k = "L2" \/ k = "L1" BY <2>1 DEF Classes, k
    <3>2. QED BY <3>1, Zenon DEF EvictionRank
  <2>3. EvictionRank(k) \in Int BY <2>2
  <2>4. QED BY <2>3 DEF k
<1>3. \A x \in S : b(x) \in Int
  <2> TAKE x \in S
  <2>1. Out(s, x) \in SUBSET Ids BY <1>1 DEF Typed, NodeOk, OutOk, Present, Out
  <2>2. QED BY <2>1, CardIds
<1>4. \A x \in S : c(x) \in Int
  <2> TAKE x \in S
  <2>1. s.node[x].full \in Int BY <1>1 DEF Typed, NodeOk, Present
  <2>2. QED BY <2>1, AgeInt
<1>5. \A x \in S : x \in Nat BY <1>1, IdFacts
<1>6. \A x, y \in S : <<x, y>> \in B <=> First(x, y) OBVIOUS
<1>7. Victim(s, now_) = CHOOSE x \in S : \A y \in S \ {x} : First(x, y) BY DEF Victim, Best
<1> HIDE DEF S, a, b, c
<1>8. \A x, y \in S : x # y => First(x, y) \/ First(y, x) BY <1>2, <1>3, <1>4, <1>5
<1>9. \A x, y, z \in S : First(x, y) /\ First(y, z) => First(x, z) BY <1>2, <1>3, <1>4, <1>5
<1>10. \E x \in S : \A y \in S \ {x} : <<x, y>> \in B
  <2>1. S # {} BY DEF S
  <2>2. \A x, y \in S : x # y => <<x, y>> \in B \/ <<y, x>> \in B BY <1>8, <1>6
  <2>3. \A x, y, z \in S : <<x, y>> \in B /\ <<y, z>> \in B => <<x, z>> \in B BY <1>9, <1>6
  <2>4. IsFiniteSet(S) BY <1>1, CardIds
  <2> HIDE DEF B
  <2>5. QED BY <2>1, <2>2, <2>3, <2>4, Champion
<1>11. \E x \in S : \A y \in S \ {x} : First(x, y) BY <1>6, <1>10
<1> HIDE DEF First
<1>12. QED BY <1>7, <1>11 DEF S

(* Of the edges that may be replaced the worst is one. *)
LEMMA WorstIs ==
  ASSUME NEW s, Typed(s), NEW a \in Present(s), NEW now_ \in Int, NEW R, R \subseteq Out(s, a), R # {}
  PROVE  LET WorseEdge(x, y) == Score(s, a, x, now_) > Score(s, a, y, now_)
         IN Best(R, WorseEdge) \in R
<1> DEFINE k(x) == Score(s, a, x, now_)
           Worse(x, y) == k(x) > k(y)
           First(x, y) == Worse(x, y) \/ (~Worse(y, x) /\ x < y)
           B == {p \in R \X R : First(p[1], p[2])}
<1>1. R \subseteq Ids
  BY DEF Typed, NodeOk, OutOk, Present, Out
<1>2. \A x \in R : k(x) \in Int /\ x \in Nat
  <2> TAKE x \in R
  <2>1. EdgeOk(s.node[a].out[x]) BY DEF Typed, NodeOk, OutOk, Present, Out
  <2> DEFINE e == s.node[a].out[x]
  <2>2. e.etx \in Nat /\ e.at \in Int BY <2>1 DEF EdgeOk
  <2> HIDE DEF e
  <2>3. Age(now_, e.at) \in Int BY <2>2, AgeInt
  <2> DEFINE g1 == Age(now_, e.at)
  <2> HIDE DEF g1
  <2>5. e.etx \in Int BY <2>2
  <2>6. AgeEtx * g1 \in Int BY <2>3, SizeFacts DEF g1
  <2>4. e.etx + AgeEtx * g1 \in Int BY <2>5, <2>6
  <2>7. k(x) = e.etx + AgeEtx * g1 BY DEF Score, EdgeOf, e, g1
  <2>8. QED BY <2>4, <2>7, <1>1, IdFacts
<1>6. \A x, y \in R : <<x, y>> \in B <=> First(x, y) OBVIOUS
<1> HIDE DEF k
<1>8. \A x, y \in R : x # y => First(x, y) \/ First(y, x) BY <1>2
<1>9. \A x, y, z \in R : First(x, y) /\ First(y, z) => First(x, z) BY <1>2
<1>10. \E x \in R : \A y \in R \ {x} : <<x, y>> \in B
  <2>2. \A x, y \in R : x # y => <<x, y>> \in B \/ <<y, x>> \in B BY <1>8, <1>6
  <2>3. \A x, y, z \in R : <<x, y>> \in B /\ <<y, z>> \in B => <<x, z>> \in B BY <1>9, <1>6
  <2>4. IsFiniteSet(R) BY <1>1, CardIds
  <2> HIDE DEF B
  <2>5. QED BY <2>2, <2>3, <2>4, Champion
<1>11. \E x \in R : \A y \in R \ {x} : First(x, y) BY <1>6, <1>10
<1>12. (CHOOSE x \in R : \A y \in R \ {x} : First(x, y)) \in R
  <2> HIDE DEF First
  <2>1. QED BY <1>11
<1>13. QED BY <1>12 DEF Best, k

(* t has no node, edge or heard neighbor that s has not. *)
Shrink(s, t) ==
  /\ Typed(t) /\ Present(t) \subseteq Present(s)
  /\ \A n \in Present(t) :
       /\ s.node[n].class = "L1" => t.node[n].class = "L1"
       /\ \A m \in DOMAIN t.node[n].out :
            m \in DOMAIN s.node[n].out /\ t.node[n].out[m].src = s.node[n].out[m].src

LEMMA ShrinkTrans == ASSUME NEW s, NEW u, NEW t, Shrink(s, u), Shrink(u, t) PROVE Shrink(s, t)
BY DEF Shrink

LEMMA ShrinkHeard ==
  ASSUME NEW s, NEW t, Shrink(s, t), NEW n, Reported(t, Me, n)
  PROVE  Reported(s, Me, n)
BY DEF Shrink, Reported, HasEdge, EdgeOf, Out, Present

LEMMA ShrinkInv ==
  ASSUME NEW s, NEW t, NEW X, HeardOk(s, X), Shrink(s, t)
  PROVE  Typed(t) /\ HeardOk(t, X) /\ HeardIn(s, t, {})
<1>1. Typed(t) BY DEF Shrink
<1>2. \A n \in Ids : Reported(t, Me, n) => Reported(s, Me, n) BY ShrinkHeard
<1>3. \A n \in Ids : n \in Present(t) /\ L1At(s, n) => L1At(t, n) BY DEF Shrink, L1At
<1>4. HeardOk(t, X) BY <1>2, <1>3 DEF HeardOk, Shrink, L1At
<1>5. QED BY <1>1, <1>2, <1>4 DEF HeardIn

(* The nodes and the edges stay; what is known of them may change. *)
Touch(s, t) ==
  /\ DOMAIN t = GraphFields /\ DOMAIN t.node = DOMAIN s.node
  /\ \A n \in DOMAIN s.node :
       /\ DOMAIN t.node[n] = NodeFields /\ t.node[n].class \in Classes /\ t.node[n].full \in Int
       /\ s.node[n].class = "L1" => t.node[n].class = "L1"
       /\ DOMAIN t.node[n].out = DOMAIN s.node[n].out
       /\ \A m \in DOMAIN s.node[n].out :
            EdgeOk(t.node[n].out[m]) /\ t.node[n].out[m].src = s.node[n].out[m].src

LEMMA TouchShrink == ASSUME NEW s, Typed(s), NEW t, Touch(s, t) PROVE Shrink(s, t)
<1>1. \A n \in DOMAIN t.node : NodeOk(n, t.node[n]) BY DEF Typed, Touch, NodeOk, OutOk
<1>2. Typed(t) BY <1>1 DEF Typed, Touch
<1>3. QED BY <1>2 DEF Shrink, Touch, Present

LEMMA TouchSame ==
  ASSUME NEW s, NEW t, Touch(s, t)
  PROVE  /\ Present(t) = Present(s) /\ KeepsL1(s, t)
         /\ \A a, b : HasEdge(t, a, b) <=> HasEdge(s, a, b)
         /\ \A a : Out(t, a) = Out(s, a)
         /\ \A a, b : Reported(t, a, b) <=> Reported(s, a, b)
         /\ Full(t) <=> Full(s)
         /\ Stuck(s) => Stuck(t)
<1>1. Present(t) = Present(s) /\ KeepsL1(s, t) BY DEF Touch, Present, KeepsL1, L1At
<1>2. \A a : Out(t, a) = Out(s, a) BY DEF Touch, Present, Out
<1>3. \A a, b : HasEdge(t, a, b) <=> HasEdge(s, a, b) BY <1>2 DEF HasEdge
<1>4. \A a, b : Reported(t, a, b) <=> Reported(s, a, b)
  BY <1>3 DEF Reported, HasEdge, EdgeOf, Touch, Out, Present
<1>5. Full(t) <=> Full(s) BY <1>1 DEF Full
<1>6. Stuck(s) => Stuck(t) BY <1>1, <1>5 DEF Stuck, Victims, Touch, Present
<1>7. QED BY <1>1, <1>2, <1>3, <1>4, <1>5, <1>6

LEMMA TouchTrans == ASSUME NEW s, NEW u, NEW t, Touch(s, u), Touch(u, t) PROVE Touch(s, t)
BY DEF Touch

LEMMA TouchNode ==
  ASSUME NEW s, Typed(s), NEW t, DOMAIN t = GraphFields, t.node = s.node
  PROVE  Touch(s, t)
BY DEF Touch, Typed, NodeOk, OutOk

(* One node, or one edge, is written over. *)
LEMMA TouchOneNode ==
  ASSUME NEW s, Typed(s), NEW n \in Present(s), NEW v, NEW t,
         DOMAIN t = GraphFields, t.node = [s.node EXCEPT ![n] = v],
         DOMAIN v = NodeFields, v.class \in Classes, v.full \in Int,
         s.node[n].class = "L1" => v.class = "L1",
         DOMAIN v.out = DOMAIN s.node[n].out,
         \A m \in DOMAIN s.node[n].out : EdgeOk(v.out[m]) /\ v.out[m].src = s.node[n].out[m].src
  PROVE  Touch(s, t)
<1>1. DOMAIN t.node = DOMAIN s.node /\ t.node[n] = v /\ \A m \in DOMAIN s.node : m # n => t.node[m] = s.node[m]
  BY DEF Present
<1>2. \A m \in DOMAIN s.node : NodeOk(m, s.node[m]) BY DEF Typed
<1> HIDE DEF Present
<1>3. QED BY <1>1, <1>2 DEF Touch, NodeOk, OutOk

LEMMA NodeIs ==
  ASSUME NEW s, Typed(s), NEW n \in Present(s)
  PROVE  /\ n \in Ids /\ DOMAIN s = GraphFields /\ DOMAIN s.node[n] = NodeFields
         /\ s.node[n].class \in Classes /\ s.node[n].full \in Int
         /\ DOMAIN s.node[n].out \subseteq Ids \ {n}
         /\ Cardinality(DOMAIN s.node[n].out) <= MAX_EDGES_PER_NODE
         /\ \A m \in DOMAIN s.node[n].out : EdgeOk(s.node[n].out[m])
BY DEF Typed, NodeOk, OutOk, Present

LEMMA SetHearsTouch ==
  ASSUME NEW s, Typed(s), NEW a, NEW b, NEW h
  PROVE  Touch(s, SetHears(s, a, b, h))
<1>1. CASE ~HasEdge(s, a, b) BY <1>1, TouchNode DEF SetHears, Typed
<1>2. CASE HasEdge(s, a, b)
  <2> DEFINE v == s.node[a]
             e == v.out[b]
             f == [e EXCEPT !.hears = h]
             w == [v EXCEPT !.out = [v.out EXCEPT ![b] = f]]
             t == [s EXCEPT !.node = [s.node EXCEPT ![a] = w]]
  <2>1. SetHears(s, a, b, h) = t BY <1>2 DEF SetHears
  <2>2. a \in Present(s) /\ b \in DOMAIN v.out BY <1>2 DEF HasEdge, Out
  <2>3. /\ DOMAIN s = GraphFields /\ DOMAIN v = NodeFields /\ v.class \in Classes /\ v.full \in Int
        /\ \A m \in DOMAIN v.out : EdgeOk(v.out[m])
    BY <2>2, NodeIs
  <2>4. EdgeOk(e) BY <2>2, <2>3
  <2> HIDE DEF e
  <2>5. EdgeOk(f) /\ f.src = e.src BY <2>4 DEF EdgeOk, EdgeFields
  <2> HIDE DEF f, v
  <2>6. /\ DOMAIN w = NodeFields /\ w.class = v.class /\ w.full = v.full
        /\ w.out = [v.out EXCEPT ![b] = f]
    BY <2>3 DEF NodeFields
  <2>7. /\ DOMAIN w.out = DOMAIN v.out /\ w.out[b] = f /\ \A m \in DOMAIN v.out : m # b => w.out[m] = v.out[m]
    BY <2>2, <2>6
  <2>8. \A m \in DOMAIN v.out : EdgeOk(w.out[m]) /\ w.out[m].src = v.out[m].src
    BY <2>3, <2>5, <2>7 DEF e
  <2> HIDE DEF w
  <2>9. DOMAIN t = GraphFields /\ t.node = [s.node EXCEPT ![a] = w] BY <2>3 DEF GraphFields
  <2> HIDE DEF t
  <2>10. Touch(s, t) BY <2>2, <2>3, <2>6, <2>7, <2>8, <2>9, TouchOneNode DEF v
  <2>11. QED BY <2>1, <2>10
<1>3. QED BY <1>1, <1>2

LEMMA HeardNowTouch ==
  ASSUME NEW s, Typed(s), NEW b, now \in Int
  PROVE  Touch(s, HeardNow(s, b))
<1>1. CASE ~HasEdge(s, Me, b) BY <1>1, TouchNode DEF HeardNow, Typed
<1>2. CASE HasEdge(s, Me, b)
  <2> DEFINE v == s.node[Me]
             e == v.out[b]
             f == [e EXCEPT !.heard = now]
             w == [v EXCEPT !.out = [v.out EXCEPT ![b] = f]]
             t == [s EXCEPT !.node = [s.node EXCEPT ![Me] = w]]
  <2>1. HeardNow(s, b) = t BY <1>2 DEF HeardNow
  <2>2. Me \in Present(s) /\ b \in DOMAIN v.out BY <1>2 DEF HasEdge, Out
  <2>3. /\ DOMAIN s = GraphFields /\ DOMAIN v = NodeFields /\ v.class \in Classes /\ v.full \in Int
        /\ \A m \in DOMAIN v.out : EdgeOk(v.out[m])
    BY <2>2, NodeIs
  <2>4. EdgeOk(e) BY <2>2, <2>3
  <2> HIDE DEF e
  <2>5. EdgeOk(f) /\ f.src = e.src BY <2>4 DEF EdgeOk, EdgeFields
  <2> HIDE DEF f, v
  <2>6. /\ DOMAIN w = NodeFields /\ w.class = v.class /\ w.full = v.full
        /\ w.out = [v.out EXCEPT ![b] = f]
    BY <2>3 DEF NodeFields
  <2>7. /\ DOMAIN w.out = DOMAIN v.out /\ w.out[b] = f /\ \A m \in DOMAIN v.out : m # b => w.out[m] = v.out[m]
    BY <2>2, <2>6
  <2>8. \A m \in DOMAIN v.out : EdgeOk(w.out[m]) /\ w.out[m].src = v.out[m].src
    BY <2>3, <2>5, <2>7 DEF e
  <2> HIDE DEF w
  <2>9. DOMAIN t = GraphFields /\ t.node = [s.node EXCEPT ![Me] = w] BY <2>3 DEF GraphFields
  <2> HIDE DEF t
  <2>10. Touch(s, t) BY <2>2, <2>3, <2>6, <2>7, <2>8, <2>9, TouchOneNode DEF v
  <2>11. QED BY <2>1, <2>10
<1>3. QED BY <1>1, <1>2

LEMMA SetNodeClassTouch ==
  ASSUME NEW s, Typed(s), NEW n, NEW class \in Classes, NEW hint
  PROVE  /\ Touch(s, SetNodeClass(s, n, class, hint))
         /\ class = "L1" /\ n \in Present(s) => L1At(SetNodeClass(s, n, class, hint), n)
<1>1. CASE n \notin Present(s) BY <1>1, TouchNode DEF SetNodeClass, Typed
<1>2. CASE n \in Present(s)
  <2> DEFINE v == s.node[n]
             k == IF v.class = "L1" THEN v.class ELSE class
             w == [[v EXCEPT !.class = k] EXCEPT !.hint = IF hint # NoNode THEN hint ELSE v.hint]
             t == SetNodeClass(s, n, class, hint)
  <2>3. /\ DOMAIN s = GraphFields /\ DOMAIN v = NodeFields /\ v.class \in Classes /\ v.full \in Int
        /\ \A m \in DOMAIN v.out : EdgeOk(v.out[m])
    BY <1>2, NodeIs
  <2>4. DOMAIN t = GraphFields /\ t.node = [s.node EXCEPT ![n] = w]
    BY <1>2, <2>3 DEF SetNodeClass, GraphFields, NodeFields, Present
  <2> HIDE DEF v, t
  <2>5. DOMAIN w = NodeFields /\ w.class = k /\ w.full = v.full /\ w.out = v.out BY <2>3 DEF NodeFields
  <2> HIDE DEF w
  <2>6. Touch(s, t) BY <1>2, <2>3, <2>4, <2>5, TouchOneNode DEF v
  <2>7. class = "L1" => L1At(t, n) BY <1>2, <2>4, <2>5 DEF L1At, Present
  <2>8. QED BY <2>6, <2>7 DEF t
<1>3. QED BY <1>1, <1>2

LEMMA SetL1Touch ==
  ASSUME NEW s, Typed(s), NEW n
  PROVE  Touch(s, SetL1(s, n)) /\ (n \in Present(s) => L1At(SetL1(s, n), n))
<1>1. CASE n \notin Present(s) BY <1>1, TouchNode DEF SetL1, Typed
<1>2. CASE n \in Present(s)
  <2> DEFINE v == s.node[n]
             w == [[v EXCEPT !.class = "L1"] EXCEPT !.hint = NoNode]
             t == SetL1(s, n)
  <2>3. /\ DOMAIN s = GraphFields /\ DOMAIN v = NodeFields /\ v.class \in Classes /\ v.full \in Int
        /\ \A m \in DOMAIN v.out : EdgeOk(v.out[m])
    BY <1>2, NodeIs
  <2>4. DOMAIN t = GraphFields /\ t.node = [s.node EXCEPT ![n] = w]
    BY <1>2, <2>3 DEF SetL1, GraphFields, NodeFields, Present
  <2> HIDE DEF v, t
  <2>5. DOMAIN w = NodeFields /\ w.class = "L1" /\ w.full = v.full /\ w.out = v.out BY <2>3 DEF NodeFields
  <2> HIDE DEF w
  <2>6. Touch(s, t) BY <1>2, <2>3, <2>4, <2>5, TouchOneNode DEF v, Classes
  <2>7. L1At(t, n) BY <1>2, <2>4, <2>5 DEF L1At, Present
  <2>8. QED BY <2>6, <2>7 DEF t
<1>3. QED BY <1>1, <1>2

(* What is known of a node as a whole is refreshed. *)
LEMMA FullTouch ==
  ASSUME NEW s, Typed(s), NEW n \in Present(s), NEW now_ \in Int
  PROVE  Touch(s, [s EXCEPT !.node[n].full = now_])
<1> DEFINE v == s.node[n]
           w == [v EXCEPT !.full = now_]
           t == [s EXCEPT !.node[n].full = now_]
<1>3. /\ DOMAIN s = GraphFields /\ DOMAIN v = NodeFields /\ v.class \in Classes /\ v.full \in Int
      /\ \A m \in DOMAIN v.out : EdgeOk(v.out[m])
  BY NodeIs
<1>4. DOMAIN t = GraphFields /\ t.node = [s.node EXCEPT ![n] = w] BY <1>3 DEF GraphFields
<1> HIDE DEF v, t
<1>5. DOMAIN w = NodeFields /\ w.class = v.class /\ w.full = now_ /\ w.out = v.out BY <1>3 DEF NodeFields
<1> HIDE DEF w
<1>6. Touch(s, t) BY <1>3, <1>4, <1>5, TouchOneNode DEF v
<1>7. QED BY <1>6 DEF t

LEMMA ActivityTouch ==
  ASSUME NEW s, Typed(s), NEW N, now \in Int
  PROVE  Touch(s, Activity(s, N))
<1> DEFINE t == Activity(s, N)
           w(n) == IF n \in N \ {Me} THEN [s.node[n] EXCEPT !.full = now] ELSE s.node[n]
<1>1. DOMAIN t = GraphFields /\ t.node = [n \in DOMAIN s.node |-> w(n)] BY DEF Activity, Typed, GraphFields
<1>2. \A n \in DOMAIN s.node :
        /\ DOMAIN s.node[n] = NodeFields /\ s.node[n].class \in Classes /\ s.node[n].full \in Int
        /\ \A m \in DOMAIN s.node[n].out : EdgeOk(s.node[n].out[m])
  BY NodeIs DEF Present
<1>3. \A n \in DOMAIN s.node :
        DOMAIN w(n) = NodeFields /\ w(n).class = s.node[n].class /\ w(n).full \in Int /\ w(n).out = s.node[n].out
  BY <1>2 DEF NodeFields
<1> HIDE DEF t, w
<1>4. DOMAIN t.node = DOMAIN s.node /\ \A n \in DOMAIN s.node : t.node[n] = w(n) BY <1>1
<1>5. Touch(s, t) BY <1>1, <1>2, <1>3, <1>4 DEF Touch
<1>6. QED BY <1>5 DEF t

(* t is s with the node n, for which another one may have made room. *)
Added(s, t, n, rec) ==
  /\ Typed(t) /\ n \in Present(t) /\ t.node[n] = rec
  /\ \A m \in Present(t) : m # n => m \in Present(s) /\ t.node[m] = s.node[m]
  /\ \A m \in Present(s) : m \in Present(t) \/ (Full(s) /\ m # Me /\ ~L1At(s, m))
  /\ Cardinality(Present(s)) <= Cardinality(Present(t))

LEMMA DemotedNode ==
  ASSUME NEW s, Typed(s), NEW d, NEW now_, NEW w
  PROVE  DOMAIN Demoted(s, d, now_, w) = GraphFields /\ Demoted(s, d, now_, w).node = s.node
BY DEF Demoted, ApplyDemotion, Typed, GraphFields

LEMMA WithoutFacts ==
  ASSUME NEW f, NEW k
  PROVE  /\ DOMAIN Without(f, k) = DOMAIN f \ {k}
         /\ \A x \in DOMAIN f : x # k => Without(f, k)[x] = f[x]
BY DEF Without

LEMMA RoomMade ==
  ASSUME NEW s, Typed(s), NEW now_ \in Int, NEW w, NEW n \in Ids, n \notin Present(s),
         Full(s) => Victims(s) # {}, NEW rec, NodeOk(n, rec)
  PROVE  Added(s, AddNode(MadeRoom(s, now_, w), n, rec), n, rec)
<1> DEFINE t == AddNode(MadeRoom(s, now_, w), n, rec)
           P == Present(s)
<1>1. P \in SUBSET Ids /\ IsFiniteSet(P) /\ Cardinality(P) \in Nat /\ Cardinality(P) <= MAX_GRAPH_NODES
  BY CardIds DEF Typed, Present
<1>2. \A m \in P : NodeOk(m, s.node[m]) BY DEF Typed, Present
<1>3. CASE ~Full(s)
  <2>1. t = [s EXCEPT !.node = With(@, n, rec)] BY <1>3 DEF AddNode, MadeRoom
  <2>2. DOMAIN t = GraphFields /\ t.node = With(s.node, n, rec) BY <2>1 DEF Typed, GraphFields
  <2>3. Present(t) = {n} \cup P /\ t.node[n] = rec /\ \A m \in P : t.node[m] = s.node[m]
    <3> DEFINE f == s.node
    <3>1. n \notin DOMAIN f /\ P = DOMAIN f BY DEF Present
    <3> HIDE DEF f, P
    <3>2. t.node = With(f, n, rec) BY <2>2 DEF f
    <3> HIDE DEF t
    <3>3. DOMAIN t.node = {n} \cup DOMAIN f /\ t.node[n] = rec BY <3>2 DEF With
    <3>4. \A m \in DOMAIN f : m # n => t.node[m] = f[m] BY <3>2 DEF With
    <3>5. \A m \in P : t.node[m] = f[m] BY <3>1, <3>4
    <3>6. Present(t) = {n} \cup P BY <3>1, <3>3 DEF Present
    <3>7. QED BY <3>3, <3>5, <3>6 DEF f
  <2>4. Cardinality(P \cup {n}) = Cardinality(P) + 1 BY <1>1, FS_AddElement
  <2>5. {n} \cup P = P \cup {n} OBVIOUS
  <2>6. Cardinality(Present(t)) = Cardinality(P) + 1 BY <2>3, <2>4, <2>5
  <2>7. Cardinality(P) + 1 <= MAX_GRAPH_NODES BY <1>1, <1>3, SizeFacts DEF Full
  <2> HIDE DEF t, P
  <2>8. Typed(t) BY <1>1, <1>2, <2>2, <2>3, <2>6, <2>7 DEF Typed, Present
  <2>9. QED BY <1>1, <2>3, <2>6, <2>8 DEF Added, P, t
<1>4. CASE Full(s)
  <2> DEFINE v == Victim(s, now_)
             u == Demoted(s, DemotionOf(s, v), now_, w)
             Q == P \ {v}
  <2>1. v \in Victims(s) BY <1>4, VictimIs
  <2>2. v \in P /\ v # Me /\ ~L1At(s, v) BY <2>1 DEF Victims, L1At
  <2>3. DOMAIN u = GraphFields /\ u.node = s.node BY DemotedNode
  <2>4. t = AddNode(DropNode(u, v), n, rec) BY <1>4 DEF MadeRoom, Evict, EvictNode
  <2> HIDE DEF v, u, t
  <2>5. t.node = With(Without(s.node, v), n, rec) /\ DOMAIN t = GraphFields
    BY <2>3, <2>4 DEF AddNode, DropNode, GraphFields
  <2>6. /\ Present(t) = {n} \cup Q /\ t.node[n] = rec
        /\ \A m \in Q : t.node[m] = s.node[m]
    <3> DEFINE f == Without(s.node, v)
    <3>1. DOMAIN f = Q /\ \A m \in Q : f[m] = s.node[m] BY WithoutFacts DEF Present
    <3> HIDE DEF f
    <3>2. t.node = With(f, n, rec) BY <2>5 DEF f
    <3>3. n \notin Q BY DEF Present
    <3> HIDE DEF Q
    <3>4. DOMAIN t.node = {n} \cup DOMAIN f /\ t.node[n] = rec BY <3>2 DEF With
    <3>5. \A m \in DOMAIN f : m # n => t.node[m] = f[m] BY <3>2 DEF With
    <3>6. \A m \in Q : t.node[m] = s.node[m] BY <3>1, <3>3, <3>5
    <3>7. Present(t) = {n} \cup Q BY <3>1, <3>4 DEF Present
    <3>8. QED BY <3>4, <3>6, <3>7
  <2>7. IsFiniteSet(Q) /\ Cardinality(Q) = Cardinality(P) - 1 BY <1>1, <2>2, FS_RemoveElement
  <2>8. n \notin Q OBVIOUS
  <2>9. Cardinality(Q \cup {n}) = Cardinality(Q) + 1
    <3> HIDE DEF Q
    <3>1. QED BY <2>7, <2>8, FS_AddElement
  <2>10. {n} \cup Q = Q \cup {n} OBVIOUS
  <2>11. Cardinality(Present(t)) = Cardinality(P)
    <3>1. Cardinality(Present(t)) = Cardinality(Q) + 1 BY <2>6, <2>9, <2>10
    <3> HIDE DEF P, Q
    <3>2. QED BY <3>1, <2>7, <1>1
  <2> HIDE DEF P
  <2>12. Typed(t) BY <1>1, <1>2, <2>5, <2>6, <2>11 DEF Typed, Present
  <2>13. QED BY <1>1, <1>4, <2>2, <2>6, <2>11, <2>12 DEF Added, P, t
<1>5. QED BY <1>3, <1>4

LEMMA NewNodeOk ==
  ASSUME NEW n, NEW now_ \in Int, NEW class \in Classes, NEW hint
  PROVE  /\ NodeOk(n, NewNode(now_, class, hint)) /\ DOMAIN NewNode(now_, class, hint).out = {}
         /\ NewNode(now_, class, hint).class = class
<1> DEFINE r == NewNode(now_, class, hint)
<1>1. DOMAIN r = NodeFields /\ r.class = class /\ r.full = now_ /\ r.out = << >> BY DEF NewNode, NodeFields
<1>2. DOMAIN r.out = {} BY <1>1
<1>3. Cardinality(DOMAIN r.out) = 0 BY <1>2, FS_EmptySet
<1> HIDE DEF r
<1>4. OutOk(n, r.out) BY <1>2, <1>3, SizeFacts DEF OutOk
<1>5. QED BY <1>1, <1>2, <1>4 DEF NodeOk, r

(* A node more: nobody is heard that was not. *)
LEMMA AddedHeard ==
  ASSUME NEW s, Typed(s), NEW t, NEW n \in Ids, NEW rec, Added(s, t, n, rec), DOMAIN rec.out = {},
         n \notin Present(s)
  PROVE  /\ \A a, b : a # Me => (HasEdge(t, a, b) => HasEdge(s, a, b))
         /\ \A b : Reported(t, Me, b) <=> Reported(s, Me, b)
         /\ Out(t, Me) = Out(s, Me)
         /\ \A a \in Present(t) : Out(t, a) = Out(s, a)
         /\ KeepsL1(s, t) /\ HeardIn(s, t, {})
         /\ Full(s) => Full(t)
<1>0. Me \in Present(s) => Me \in Present(t) /\ t.node[Me] = s.node[Me] BY DEF Added
<1>0a. \A a \in Present(t) : a # n => a \in Present(s) /\ t.node[a] = s.node[a] BY DEF Added
<1>0b. n \in Present(t) /\ t.node[n] = rec BY DEF Added
<1>1. \A a \in Present(t) : Out(t, a) = Out(s, a) BY <1>0a, <1>0b DEF Out
<1>2. Out(t, Me) = Out(s, Me) BY <1>0, <1>1 DEF Out
<1>3. \A a, b : a # Me => (HasEdge(t, a, b) => HasEdge(s, a, b)) BY <1>1 DEF HasEdge, Out
<1>4. \A b : Reported(t, Me, b) <=> Reported(s, Me, b)
  <2>1. CASE Me \in Present(s) BY <2>1, <1>0, <1>2 DEF Reported, HasEdge, EdgeOf
  <2>2. CASE Me \notin Present(s)
    <3>1. Out(s, Me) = {} BY <2>2 DEF Out
    <3>2. QED BY <3>1, <1>2 DEF Reported, HasEdge
  <2>3. QED BY <2>1, <2>2
<1>5. KeepsL1(s, t) BY DEF KeepsL1, L1At, Added
<1>6. Full(s) => Full(t)
  <2>1. Cardinality(Present(t)) \in Nat /\ Cardinality(Present(s)) \in Nat BY CardIds DEF Added, Typed, Present
  <2>2. Cardinality(Present(s)) <= Cardinality(Present(t)) BY DEF Added
  <2> SUFFICES ASSUME Full(s) PROVE Full(t) OBVIOUS
  <2>3. Cardinality(Present(s)) >= MAX_GRAPH_NODES BY DEF Full
  <2>5. QED BY <2>1, <2>2, <2>3, SizeFacts DEF Full
<1>7. QED BY <1>1, <1>2, <1>3, <1>4, <1>5, <1>6 DEF HeardIn

(* find_or_create_node. *)
Lk(s, t, X) ==
  /\ Crowded(s) => Crowded(t)
  /\ \A x \in Ids \ X : Linked(s, x) => Linked(t, x) \/ Crowded(t)
Found(s, t, n) ==
  /\ Typed(t) /\ KeepsL1(s, t) /\ HeardIn(s, t, {})
  /\ \A b : Reported(t, Me, b) <=> Reported(s, Me, b)
  /\ n \in Present(t) \/ (t = s /\ Stuck(s))
  /\ n \in Present(s) \/ Stuck(s) => t = s
  /\ \A m \in Present(t) : m # n => m \in Present(s) /\ t.node[m] = s.node[m]
  /\ Me \in Present(s) => Me \in Present(t)
  /\ Lk(s, t, {})

LEMMA LkRefl == ASSUME NEW s, NEW X PROVE Lk(s, s, X)
BY DEF Lk

LEMMA LkTrans == ASSUME NEW s, NEW u, NEW t, NEW X, Lk(s, u, X), Lk(u, t, X) PROVE Lk(s, t, X)
BY DEF Lk

LEMMA LkTouch == ASSUME NEW s, NEW t, NEW X, Touch(s, t) PROVE Lk(s, t, X)
<1>1. /\ \A a, b : HasEdge(t, a, b) <=> HasEdge(s, a, b)
      /\ \A a : Out(t, a) = Out(s, a) /\ (Full(t) <=> Full(s))
  BY TouchSame
<1>2. QED BY <1>1 DEF Lk, Crowded, Linked

LEMMA FoundIs ==
  ASSUME NEW s, Typed(s), NEW n \in Ids, NEW now_ \in Int
  PROVE  Found(s, FindOrCreate(s, n, now_), n)
<1> DEFINE t == FindOrCreate(s, n, now_)
           rec == NewNode(now_, IF n = Me THEN "L1" ELSE "Unknown", NoNode)
<1>1. CanEvict(s, now_, FALSE) <=> Victims(s) # {} BY DEF CanEvict
<1>2. CASE n \in Present(s) \/ Stuck(s)
  <2>1. t = s BY <1>1, <1>2 DEF FindOrCreate, Stuck
  <2> HIDE DEF t
  <2>2. Found(s, t, n) BY <1>2, <2>1, LkRefl DEF Found, KeepsL1, HeardIn
  <2>3. QED BY <2>2 DEF t
<1>3. CASE ~(n \in Present(s) \/ Stuck(s))
  <2>1. t = AddNode(MadeRoom(s, now_, FALSE), n, rec) BY <1>1, <1>3 DEF FindOrCreate, Stuck
  <2>2. NodeOk(n, rec) /\ DOMAIN rec.out = {}
    <3> DEFINE k == IF n = Me THEN "L1" ELSE "Unknown"
    <3>1. k \in Classes BY DEF Classes
    <3> HIDE DEF k
    <3>2. QED BY <3>1, NewNodeOk DEF k
  <2> HIDE DEF rec
  <2>3. Added(s, t, n, rec) BY <1>3, <2>1, <2>2, RoomMade DEF Stuck
  <2> HIDE DEF t
  <2>4. /\ \A b : Reported(t, Me, b) <=> Reported(s, Me, b)
        /\ Out(t, Me) = Out(s, Me)
        /\ \A a \in Present(t) : Out(t, a) = Out(s, a)
        /\ KeepsL1(s, t) /\ HeardIn(s, t, {})
        /\ Full(s) => Full(t)
    BY <1>3, <2>2, <2>3, AddedHeard
  <2>5. Crowded(s) => Crowded(t) BY <2>4 DEF Crowded
  <2>6. \A x \in Ids : Linked(s, x) => Linked(t, x) \/ Crowded(t)
    <3> SUFFICES ASSUME NEW x \in Ids, Linked(s, x) PROVE Linked(t, x) \/ Crowded(t) OBVIOUS
    <3>1. CASE HasEdge(s, Me, x) BY <3>1, <2>4 DEF HasEdge, Linked
    <3>2. CASE HasEdge(s, x, Me)
      <4>1. x \in Present(s) BY <3>2 DEF HasEdge, Out
      <4>2. x \in Present(t) \/ Full(s) BY <4>1, <2>3 DEF Added
      <4>3. CASE x \in Present(t) BY <4>3, <3>2, <2>4 DEF HasEdge, Linked
      <4>4. CASE Full(s) BY <4>4, <2>4 DEF Crowded
      <4>5. QED BY <4>2, <4>3, <4>4
    <3>3. QED BY <3>1, <3>2 DEF Linked
  <2>7. Lk(s, t, {}) BY <2>5, <2>6 DEF Lk
  <2>8. Found(s, t, n) BY <1>3, <2>3, <2>4, <2>7 DEF Found, Added
  <2>9. QED BY <2>8 DEF t
<1>4. QED BY <1>2, <1>3

LEMMA FoundInv ==
  ASSUME NEW s, GInv(s), NEW n \in Ids, NEW t, Found(s, t, n),
         n \in Present(s) \/ ~Reported(s, Me, n) \/ Stuck(s)
  PROVE  GInv(t)
<1>1. CASE n \in Present(s) \/ Stuck(s) BY <1>1 DEF Found
<1>2. CASE ~Reported(s, Me, n)
  <2>1. \A m \in Ids : Reported(t, Me, m) => Reported(s, Me, m) /\ m # n BY <1>2 DEF Found
  <2>2. \A m \in Ids : m # n /\ m \in Present(t) => m \in Present(s) /\ t.node[m] = s.node[m] BY DEF Found
  <2>3. QED BY <2>1, <2>2 DEF GInv, HeardOk, L1At, Found
<1>3. QED BY <1>1, <1>2

(* update_edge writes one edge, which may replace another. *)
RankLess == Rank("Inferred") = 0 /\ Rank("Mirrored") = 1 /\ Rank("Reported") = 2
LEMMA Ranks == RankLess
BY Zenon DEF Rank, RankLess

PutOut(old, new, b, src) ==
  /\ \A m \in DOMAIN new : m # b => m \in DOMAIN old /\ new[m] = old[m]
  /\ b \in DOMAIN new /\ new[b].src = "Reported" /\ src # "Reported" =>
       b \in DOMAIN old /\ old[b].src = "Reported"
  /\ Cardinality(DOMAIN old) <= Cardinality(DOMAIN new)
  /\ \A m \in DOMAIN old :
       \/ m \in DOMAIN new
       \/ Cardinality(DOMAIN new) >= MAX_EDGES_PER_NODE /\ b \in DOMAIN new /\ b \notin DOMAIN old
Put(s, t, a, b, src) ==
  /\ DOMAIN t = GraphFields /\ DOMAIN t.node = DOMAIN s.node
  /\ \A m \in DOMAIN s.node : m # a => t.node[m] = s.node[m]
  /\ DOMAIN t.node[a] = NodeFields /\ t.node[a].class = s.node[a].class /\ t.node[a].full = s.node[a].full
  /\ OutOk(a, t.node[a].out) /\ PutOut(s.node[a].out, t.node[a].out, b, src)

LEMMA OutWritten ==
  ASSUME NEW s, Typed(s), NEW a \in Present(s), NEW new, NEW b, NEW src,
         OutOk(a, new), PutOut(s.node[a].out, new, b, src),
         NEW t, t = [s EXCEPT !.node = [s.node EXCEPT ![a] = [s.node[a] EXCEPT !.out = new]]]
  PROVE  Put(s, t, a, b, src)
<1> DEFINE v == s.node[a]
           w == [v EXCEPT !.out = new]
<1>1. DOMAIN s = GraphFields /\ DOMAIN v = NodeFields BY NodeIs
<1> HIDE DEF v
<1>2. DOMAIN w = NodeFields /\ w.class = v.class /\ w.full = v.full /\ w.out = new BY <1>1 DEF NodeFields
<1> HIDE DEF w
<1>3. DOMAIN t = GraphFields /\ t.node = [s.node EXCEPT ![a] = w] BY <1>1 DEF GraphFields, w, v
<1>4. DOMAIN t.node = DOMAIN s.node /\ t.node[a] = w /\ \A m \in DOMAIN s.node : m # a => t.node[m] = s.node[m]
  BY <1>3 DEF Present
<1>5. QED BY <1>2, <1>3, <1>4 DEF Put, v

LEMMA PutSame ==
  ASSUME NEW s, Typed(s), NEW a \in Present(s), NEW b, NEW src
  PROVE  Put(s, s, a, b, src)
<1> DEFINE old == s.node[a].out
<1>1. DOMAIN s = GraphFields /\ DOMAIN s.node[a] = NodeFields /\ DOMAIN old \subseteq Ids BY NodeIs
<1>2. OutOk(a, old) BY DEF Typed, NodeOk, Present
<1>3. Cardinality(DOMAIN old) \in Nat BY <1>1, CardIds
<1> HIDE DEF old
<1>4. PutOut(old, old, b, src) BY <1>3 DEF PutOut
<1>5. QED BY <1>1, <1>2, <1>4 DEF Put, old

LEMMA NewEdgeOk ==
  ASSUME NEW etx \in Nat, NEW now_ \in Int, NEW src \in Sources
  PROVE  EdgeOk(NewEdge(etx, now_, src)) /\ NewEdge(etx, now_, src).src = src
BY DEF EdgeOk, NewEdge, EdgeFields, Never

LEMMA PutEdgeIs ==
  ASSUME NEW s, Typed(s), NEW a \in Present(s), NEW b \in Ids \ {a}, NEW etx \in Nat,
         NEW now_ \in Int, NEW src \in Sources
  PROVE  Put(s, PutEdge(s, a, b, etx, now_, src), a, b, src)
<1> DEFINE t == PutEdge(s, a, b, etx, now_, src)
           old == s.node[a].out
           D == DOMAIN old
           e == NewEdge(etx, now_, src)
           R == Replaceable(s, a, src)
           WorseEdge(x, y) == Score(s, a, x, now_) > Score(s, a, y, now_)
           worst == Best(R, WorseEdge)
<1>1. D \in SUBSET (Ids \ {a}) /\ Cardinality(D) <= MAX_EDGES_PER_NODE /\ \A m \in D : EdgeOk(old[m])
  BY NodeIs
<1>2. IsFiniteSet(D) /\ Cardinality(D) \in Nat BY <1>1, CardIds
<1>3. EdgeOk(e) /\ e.src = src BY NewEdgeOk
<1>4. HasEdge(s, a, b) <=> b \in D BY DEF HasEdge, Out
<1>5. CASE t = s BY <1>5, PutSame
<1>6. CASE HasEdge(s, a, b) /\ ~(Rank(src) < Rank(EdgeOf(s, a, b).src))
  <2> DEFINE f == [[[old[b] EXCEPT !.etx = etx] EXCEPT !.at = now_] EXCEPT !.src = src]
             new == [old EXCEPT ![b] = f]
  <2>1. b \in D /\ EdgeOk(old[b]) BY <1>1, <1>4, <1>6
  <2>2. t = [s EXCEPT !.node = [s.node EXCEPT ![a] = [s.node[a] EXCEPT !.out = new]]]
    BY <1>6 DEF PutEdge
  <2>3. EdgeOk(f) /\ f.src = src BY <2>1 DEF EdgeOk, EdgeFields
  <2>4. ~(Rank(src) < Rank(old[b].src)) BY <1>6 DEF EdgeOf
  <2>5. old[b].src = "Reported" => src = "Reported"
    <3>1. src = "Inferred" \/ src = "Mirrored" \/ src = "Reported" BY DEF Sources
    <3>2. QED BY <2>4, <3>1, Ranks DEF RankLess
  <2> HIDE DEF f, t
  <2>6. DOMAIN new = D /\ new[b] = f /\ \A m \in D : m # b => new[m] = old[m] BY <2>1
  <2> HIDE DEF new, old
  <2>7. OutOk(a, new) BY <2>3, <2>6, <1>1 DEF OutOk
  <2>8. PutOut(old, new, b, src) BY <2>3, <2>6, <1>2 DEF PutOut
  <2>9. QED BY <2>2, <2>7, <2>8, OutWritten DEF old, t
<1>7. CASE ~HasEdge(s, a, b) /\ Cardinality(D) < MAX_EDGES_PER_NODE
  <2> DEFINE new == With(old, b, e)
  <2>1. t = [s EXCEPT !.node = [s.node EXCEPT ![a] = [s.node[a] EXCEPT !.out = new]]]
    BY <1>7 DEF PutEdge, Out
  <2> HIDE DEF e, t, old
  <2>2. DOMAIN new = {b} \cup D /\ new[b] = e /\ \A m \in D : m # b => new[m] = old[m] BY DEF With
  <2>3. b \notin D BY <1>4, <1>7
  <2>4. Cardinality(D \cup {b}) = Cardinality(D) + 1 BY <1>2, <2>3, FS_AddElement
  <2>5. {b} \cup D = D \cup {b} OBVIOUS
  <2>6. Cardinality(DOMAIN new) = Cardinality(D) + 1 BY <2>2, <2>4, <2>5
  <2>7. Cardinality(D) + 1 <= MAX_EDGES_PER_NODE BY <1>2, <1>7, SizeFacts
  <2> HIDE DEF new
  <2>8. OutOk(a, new) BY <2>2, <2>6, <2>7, <1>1, <1>3 DEF OutOk
  <2>9. PutOut(old, new, b, src) BY <2>2, <2>6, <1>2, <1>3 DEF PutOut
  <2>10. QED BY <2>1, <2>8, <2>9, OutWritten DEF old, t
<1>8. CASE /\ ~HasEdge(s, a, b) /\ ~(Cardinality(D) < MAX_EDGES_PER_NODE)
           /\ ~(R = {} \/ etx >= Score(s, a, worst, now_))
  <2> DEFINE mid == Without(old, worst)
             new == With(mid, b, e)
  <2>1. t = [s EXCEPT !.node = [s.node EXCEPT ![a] = [s.node[a] EXCEPT !.out = new]]]
    BY <1>8 DEF PutEdge, Out
  <2>2. worst \in R
    <3>1. R \subseteq Out(s, a) /\ R # {} BY <1>8 DEF Replaceable
    <3> HIDE DEF R
    <3>2. QED BY <3>1, WorstIs
  <2>3. worst \in D BY <2>2 DEF Replaceable, Out
  <2> HIDE DEF e, t, old, worst
  <2>4. DOMAIN mid = D \ {worst} /\ \A m \in D : m # worst => mid[m] = old[m] BY DEF Without
  <2> HIDE DEF mid
  <2>5. DOMAIN new = {b} \cup (D \ {worst}) /\ new[b] = e /\ \A m \in D \ {worst} : m # b => new[m] = old[m]
    BY <2>4 DEF With
  <2>6. b \notin D BY <1>4, <1>8
  <2> DEFINE Q == D \ {worst}
  <2>7. IsFiniteSet(Q) /\ Cardinality(Q) = Cardinality(D) - 1 BY <1>2, <2>3, FS_RemoveElement
  <2>8. b \notin Q BY <2>6
  <2>9. Cardinality(Q \cup {b}) = Cardinality(Q) + 1
    <3> HIDE DEF Q
    <3>1. QED BY <2>7, <2>8, FS_AddElement
  <2>10. {b} \cup Q = Q \cup {b} OBVIOUS
  <2>11. Cardinality(DOMAIN new) = Cardinality(D)
    <3>1. Cardinality(DOMAIN new) = Cardinality(Q) + 1 BY <2>5, <2>9, <2>10
    <3> HIDE DEF Q, D
    <3>2. QED BY <3>1, <2>7, <1>2
  <2> HIDE DEF new, D
  <2>12. OutOk(a, new) BY <2>5, <2>11, <1>1, <1>3 DEF OutOk
  <2>13. Cardinality(DOMAIN new) >= MAX_EDGES_PER_NODE BY <2>11, <1>2, <1>8, SizeFacts
  <2>14. PutOut(old, new, b, src) BY <2>5, <2>6, <2>11, <2>13, <1>2, <1>3 DEF PutOut, D
  <2>15. QED BY <2>1, <2>12, <2>14, OutWritten DEF old, t
<1>9. QED BY <1>5, <1>6, <1>7, <1>8 DEF PutEdge, Out

LEMMA FoundBut ==
  ASSUME NEW s, GInv(s), NEW n \in Ids, NEW t, Found(s, t, n)
  PROVE  Typed(t) /\ HeardOk(t, {n})
<1>1. \A m \in Ids : Reported(t, Me, m) => Reported(s, Me, m) BY DEF Found
<1>2. \A m \in Ids : m # n /\ m \in Present(t) => m \in Present(s) /\ t.node[m] = s.node[m] BY DEF Found
<1>3. QED BY <1>1, <1>2 DEF GInv, HeardOk, L1At, Found

(* The node and its class are in place before the edge is written. *)
Placing(s, u, a, b, src) ==
  /\ GInv(u) /\ KeepsL1(s, u) /\ HeardIn(s, u, {}) /\ (Stuck(s) => Stuck(u)) /\ Lk(s, u, {})
  /\ a \in Present(u) \/ (u = s /\ Stuck(s))
  /\ a \in Present(u) /\ src = "Reported" => L1At(u, b) \/ Stuck(u)
  /\ HasEdge(s, a, b) => HasEdge(u, a, b)

LEMMA ClassifyIn == ASSUME NEW s, NEW n PROVE Classify(s, n) \in Classes
BY DEF Classify, ClassifyCandidate, Classes

LEMMA StuckFound == ASSUME NEW s, NEW t, NEW n, Found(s, t, n), Stuck(s) PROVE Stuck(t)
BY DEF Found

LEMMA PlacingIs ==
  ASSUME NEW s, GInv(s), NEW a \in Ids, NEW b \in Ids \ {a}, NEW now_ \in Int, NEW src,
         src = "Reported" => a = Me,
         a = Me /\ src # "Reported" /\ Reported(s, Me, b) => b \in Present(s) \/ Stuck(s)
  PROVE  Placing(s, Located(s, a, b, src, now_), a, b, src)
<1> DEFINE t1 == FindOrCreate(s, a, now_)
           u == Located(s, a, b, src, now_)
<1>1. Found(s, t1, a) BY FoundIs DEF GInv
<1>2. u = LocatedIn(t1, a, b, src, now_) BY DEF Located
<1> HIDE DEF t1, u
<1>3. CASE a \notin Present(t1)
  <2>1. u = t1 /\ t1 = s /\ Stuck(s) BY <1>1, <1>2, <1>3 DEF LocatedIn, Found
  <2>2. Placing(s, u, a, b, src) BY <1>3, <2>1, LkRefl DEF Placing, KeepsL1, HeardIn
  <2>3. QED BY <2>2 DEF u
<1>4. CASE a \in Present(t1) /\ a = Me
  <2> DEFINE t2 == FindOrCreate(t1, b, now_)
  <2>1. u = MarkedL1(t2, b, src = "Reported") BY <1>2, <1>4 DEF LocatedIn
  <2>2. Typed(t1) BY <1>1 DEF Found
  <2>3. Found(t1, t2, b) BY <2>2, FoundIs
  <2>4. GInv(t1)
    <3>1. ~Reported(s, Me, Me)
      <4>1. Me \notin Out(s, Me) BY NodeIs DEF Out, GInv
      <4>2. QED BY <4>1 DEF Reported, HasEdge
    <3>2. QED BY <3>1, <1>1, <1>4, FoundInv
  <2>5. Me \in Present(t2) BY <1>4, <2>3 DEF Found
  <2>6. Typed(t2) /\ HeardOk(t2, {b}) BY <2>3, <2>4, FoundBut
  <2>7. KeepsL1(s, t2) /\ HeardIn(s, t2, {}) BY <1>1, <2>3 DEF Found, KeepsL1, HeardIn
  <2>8. Lk(s, t2, {}) BY <1>1, <2>3, LkTrans DEF Found
  <2>9. Stuck(s) => Stuck(t2) BY <1>1, <2>3, StuckFound
  <2>10. HasEdge(s, a, b) => HasEdge(t2, a, b)
    <3> SUFFICES ASSUME HasEdge(s, a, b) PROVE HasEdge(t2, a, b) OBVIOUS
    <3>1. a \in Present(s) /\ t1 = s BY <1>1 DEF HasEdge, Out, Found
    <3>2. t2.node[Me] = s.node[Me] BY <3>1, <2>3, <2>5, <1>4 DEF Found
    <3>3. QED BY <3>1, <3>2, <2>5, <1>4 DEF HasEdge, Out
  <2> HIDE DEF t2
  <2>11. CASE src = "Reported"
    <3>1. u = SetL1(t2, b) BY <2>1, <2>11 DEF MarkedL1
    <3>2. Touch(t2, u) /\ (b \in Present(t2) => L1At(u, b)) BY <3>1, <2>6, SetL1Touch
    <3>3. Shrink(t2, u) BY <3>2, <2>6, TouchShrink
    <3>4. Typed(u) /\ HeardOk(u, {b}) /\ HeardIn(t2, u, {}) BY <3>3, <2>6, ShrinkInv
    <3>5. Present(u) = Present(t2) /\ KeepsL1(t2, u) /\ (Stuck(t2) => Stuck(u)) BY <3>2, TouchSame
    <3>6. GInv(u) BY <3>2, <3>4, <3>5 DEF GInv, HeardOk
    <3>7. L1At(u, b) \/ Stuck(u)
      <4>1. b \in Present(t2) \/ Stuck(t2) BY <2>3 DEF Found
      <4>2. QED BY <4>1, <3>2, <3>5
    <3>8. Lk(s, u, {}) BY <2>8, <3>2, LkTouch, LkTrans
    <3>9. HasEdge(s, a, b) => HasEdge(u, a, b) BY <2>10, <3>2, TouchSame
    <3>10. KeepsL1(s, u) /\ HeardIn(s, u, {}) BY <2>7, <3>4, <3>5 DEF KeepsL1, HeardIn
    <3>11. Placing(s, u, a, b, src) BY <1>4, <2>5, <2>9, <3>5, <3>6, <3>7, <3>8, <3>9, <3>10 DEF Placing
    <3>12. QED BY <3>11 DEF u
  <2>12. CASE src # "Reported"
    <3>1. u = t2 BY <2>1, <2>12 DEF MarkedL1
    <3>2. b \in Present(t1) \/ ~Reported(t1, Me, b) \/ Stuck(t1)
      <4> SUFFICES ASSUME Reported(t1, Me, b) PROVE b \in Present(t1) \/ Stuck(t1) OBVIOUS
      <4>1. Reported(s, Me, b) BY <1>1 DEF Found
      <4>2. Me \in Present(s) BY <4>1 DEF Reported, HasEdge, Out
      <4>3. t1 = s BY <4>2, <1>1, <1>4 DEF Found
      <4>4. QED BY <4>1, <4>3, <1>4, <2>12
    <3>3. GInv(t2) BY <3>2, <2>3, <2>4, FoundInv
    <3>4. Placing(s, u, a, b, src) BY <1>4, <2>5, <2>7, <2>8, <2>9, <2>10, <2>12, <3>1, <3>3 DEF Placing
    <3>5. QED BY <3>4 DEF u
  <2>13. QED BY <2>11, <2>12
<1>5. CASE a \in Present(t1) /\ a # Me
  <2> DEFINE class == Classify(t1, a)
  <2>1. u = Reclassify(t1, a, class) BY <1>2, <1>5 DEF LocatedIn
  <2>2. class \in Classes BY ClassifyIn
  <2>3. Typed(t1) /\ HeardOk(t1, {a}) BY <1>1, FoundBut
  <2>4. Touch(t1, u) /\ (class = "L1" => L1At(u, a))
    <3>1. CASE class = "Unknown"
      <4>1. u = t1 BY <2>1, <3>1 DEF Reclassify
      <4>2. QED BY <4>1, <3>1, <2>3, TouchNode DEF Typed
    <3>2. CASE class # "Unknown"
      <4>1. u = SetNodeClass(t1, a, class, HintOf(t1, a)) BY <2>1, <3>2 DEF Reclassify
      <4> HIDE DEF class
      <4>2. QED BY <4>1, <1>5, <2>2, <2>3, SetNodeClassTouch
    <3>3. QED BY <3>1, <3>2
  <2>5. Reported(t1, Me, a) => class = "L1" BY DEF Classify, ClassifyCandidate
  <2> HIDE DEF class
  <2>6. Shrink(t1, u) BY <2>3, <2>4, TouchShrink
  <2>7. Typed(u) /\ HeardOk(u, {a}) /\ HeardIn(t1, u, {}) BY <2>3, <2>6, ShrinkInv
  <2>8. /\ Present(u) = Present(t1) /\ KeepsL1(t1, u) /\ (Stuck(t1) => Stuck(u))
        /\ \A x, y : HasEdge(u, x, y) <=> HasEdge(t1, x, y)
        /\ \A x, y : Reported(u, x, y) <=> Reported(t1, x, y)
    BY <2>4, TouchSame
  <2>9. GInv(u) BY <2>4, <2>5, <2>7, <2>8 DEF GInv, HeardOk
  <2>10. KeepsL1(s, u) /\ HeardIn(s, u, {}) BY <1>1, <2>7, <2>8 DEF KeepsL1, HeardIn, Found
  <2>11. Stuck(s) => Stuck(u) BY <1>1, <2>8, StuckFound
  <2>12. Lk(s, u, {}) BY <1>1, <2>4, LkTouch, LkTrans DEF Found
  <2>13. HasEdge(s, a, b) => HasEdge(u, a, b)
    <3> SUFFICES ASSUME HasEdge(s, a, b) PROVE HasEdge(u, a, b) OBVIOUS
    <3>1. a \in Present(s) /\ t1 = s BY <1>1 DEF HasEdge, Out, Found
    <3>2. QED BY <3>1, <2>8
  <2>14. Placing(s, u, a, b, src) BY <1>5, <2>8, <2>9, <2>10, <2>11, <2>12, <2>13 DEF Placing
  <2>15. QED BY <2>14 DEF u
<1>6. QED BY <1>3, <1>4, <1>5

(* update_edge as a whole. *)
Updated(s, t, a, b, src) ==
  /\ GInv(t) /\ KeepsL1(s, t) /\ HeardIn(s, t, IF src = "Reported" THEN {b} ELSE {})
  /\ Stuck(s) => Stuck(t)
  /\ src = "Reported" => L1At(t, b) \/ Stuck(t)
  /\ Lk(s, t, {}) \/ (Me \notin {a, b} /\ EdgeNew(s, t, a, b))

LEMMA PutInv ==
  ASSUME NEW u, GInv(u), NEW a \in Present(u), NEW b \in Ids \ {a}, NEW src, NEW t, Put(u, t, a, b, src),
         src = "Reported" => a = Me /\ b \in Real /\ (L1At(u, b) \/ Stuck(u))
  PROVE  /\ GInv(t) /\ KeepsL1(u, t) /\ HeardIn(u, t, IF src = "Reported" THEN {b} ELSE {})
         /\ Stuck(u) => Stuck(t)
         /\ src = "Reported" => L1At(t, b) \/ Stuck(t)
         /\ Lk(u, t, {}) \/ (Me \notin {a, b} /\ EdgeNew(u, t, a, b))
<1> DEFINE old == u.node[a].out
           new == t.node[a].out
<1>1. DOMAIN t.node = DOMAIN u.node /\ \A m \in DOMAIN u.node : t.node[m].class = u.node[m].class
  BY DEF Put
<1>2. Typed(t)
  <2>1. \A m \in DOMAIN u.node : NodeOk(m, u.node[m]) BY DEF GInv, Typed
  <2>2. \A m \in DOMAIN t.node : NodeOk(m, t.node[m]) BY <2>1 DEF Put, NodeOk, Present
  <2>3. QED BY <1>1, <2>2 DEF GInv, Typed, Put
<1>3. \A n : L1At(t, n) <=> L1At(u, n) BY <1>1 DEF L1At, Present
<1>4. KeepsL1(u, t) BY <1>3 DEF KeepsL1
<1>5. Present(t) = Present(u) BY <1>1 DEF Present
<1>6. PutOut(old, new, b, src) BY DEF Put
<1>7. \A x : x # a => Out(t, x) = Out(u, x) BY <1>1 DEF Out, Put, Present
<1>8. Out(t, a) = DOMAIN new /\ Out(u, a) = DOMAIN old BY <1>5 DEF Out
<1>9. ASSUME NEW n \in Ids, Reported(t, Me, n) PROVE Reported(u, Me, n) \/ (src = "Reported" /\ n = b)
  <2>1. CASE a = Me
    <3>1. n \in DOMAIN new /\ new[n].src = "Reported" BY <1>9, <2>1, <1>8 DEF Reported, HasEdge, EdgeOf
    <3>2. CASE n # b
      <4>1. n \in DOMAIN old /\ old[n].src = "Reported" BY <3>1, <3>2, <1>6 DEF PutOut
      <4>2. QED BY <4>1, <2>1, <1>8 DEF Reported, HasEdge, EdgeOf
    <3>3. CASE n = b /\ src # "Reported"
      <4>1. n \in DOMAIN old /\ old[n].src = "Reported" BY <3>1, <3>3, <1>6 DEF PutOut
      <4>2. QED BY <4>1, <2>1, <1>8 DEF Reported, HasEdge, EdgeOf
    <3>4. QED BY <3>2, <3>3
  <2>2. CASE a # Me
    <3>1. n \in Out(u, Me) /\ Me \in Present(u) BY <1>9, <2>2, <1>5, <1>7 DEF Reported, HasEdge, Out
    <3>2. t.node[Me] = u.node[Me] BY <3>1, <2>2 DEF Put, Present
    <3>3. QED BY <1>9, <3>1, <3>2 DEF Reported, HasEdge, EdgeOf
  <2>3. QED BY <2>1, <2>2
<1>10. HeardIn(u, t, IF src = "Reported" THEN {b} ELSE {}) BY <1>9 DEF HeardIn
<1>11. Victims(t) = Victims(u) BY <1>1 DEF Victims, Present
<1>12. Full(t) <=> Full(u) BY <1>5 DEF Full
<1>13. Stuck(u) => Stuck(t) BY <1>11, <1>12 DEF Stuck
<1>14. src = "Reported" => L1At(t, b) \/ Stuck(t) BY <1>3, <1>13
<1>15. GInv(t)
  <2> SUFFICES ASSUME NEW n \in Ids, Reported(t, Me, n)
               PROVE  n \in Real /\ (n \in Present(t) => L1At(t, n))
    BY <1>2 DEF GInv, HeardOk
  <2>1. CASE Reported(u, Me, n) BY <2>1, <1>3, <1>5 DEF GInv, HeardOk
  <2>2. CASE src = "Reported" /\ n = b
    <3>1. b \in Real /\ (L1At(u, b) \/ Stuck(u)) BY <2>2
    <3>2. Stuck(u) /\ b \in Present(u) => L1At(u, b)
      BY <3>1, IdFacts DEF Stuck, Victims, L1At
    <3>3. QED BY <3>1, <3>2, <2>2, <1>3, <1>5
  <2>3. QED BY <1>9, <2>1, <2>2
<1>16. Lk(u, t, {}) \/ (Me \notin {a, b} /\ EdgeNew(u, t, a, b))
  <2> SUFFICES ASSUME ~(Me \notin {a, b} /\ EdgeNew(u, t, a, b)) PROVE Lk(u, t, {}) OBVIOUS
  <2>1. Cardinality(DOMAIN old) <= Cardinality(DOMAIN new) BY <1>6 DEF PutOut
  <2>2. Cardinality(DOMAIN old) \in Nat /\ Cardinality(DOMAIN new) \in Nat
    <3>1. DOMAIN old \subseteq Ids /\ DOMAIN new \subseteq Ids BY <1>2, <1>5, NodeIs DEF GInv
    <3>2. QED BY <3>1, CardIds
  <2>3. Crowded(u) => Crowded(t)
    <3>1. CASE a = Me
      <4>1. Out(t, Me) = DOMAIN new /\ Out(u, Me) = DOMAIN old BY <3>1, <1>8
      <4> HIDE DEF old, new
      <4>2. Cardinality(DOMAIN old) >= MAX_EDGES_PER_NODE => Cardinality(DOMAIN new) >= MAX_EDGES_PER_NODE
        BY <2>1, <2>2, SizeFacts
      <4>3. QED BY <4>1, <4>2, <1>12 DEF Crowded
    <3>2. CASE a # Me
      <4>1. Out(t, Me) = Out(u, Me) BY <3>2, <1>7
      <4>2. QED BY <4>1, <1>12 DEF Crowded
    <3>3. QED BY <3>1, <3>2
  <2>4. ASSUME NEW x \in Ids, Linked(u, x) PROVE Linked(t, x) \/ Crowded(t)
    <3>1. CASE HasEdge(u, Me, x) /\ a = Me
      <4>1. x \in DOMAIN old BY <3>1, <1>8 DEF HasEdge
      <4>2. x \in DOMAIN new \/ Cardinality(DOMAIN new) >= MAX_EDGES_PER_NODE BY <4>1, <1>6 DEF PutOut
      <4>3. QED BY <4>2, <3>1, <1>8 DEF Linked, HasEdge, Crowded
    <3>2. CASE HasEdge(u, Me, x) /\ a # Me BY <3>2, <1>7 DEF HasEdge, Linked
    <3>3. CASE HasEdge(u, x, Me) /\ x # a BY <3>3, <1>7 DEF HasEdge, Linked
    <3>4. CASE HasEdge(u, x, Me) /\ x = a
      <4>1. Me \in DOMAIN old BY <3>4, <1>8 DEF HasEdge
      <4>2. a # Me BY <4>1, NodeIs DEF GInv
      <4>3. b = Me \/ ~(b \in DOMAIN new /\ b \notin DOMAIN old) BY <4>2, <1>8 DEF EdgeNew, HasEdge
      <4>4. Me \in DOMAIN new BY <4>1, <4>3, <1>6 DEF PutOut
      <4>5. QED BY <4>4, <3>4, <1>8 DEF HasEdge, Linked
    <3>5. QED BY <2>4, <3>1, <3>2, <3>3, <3>4 DEF Linked
  <2>5. QED BY <2>3, <2>4 DEF Lk
<1>17. QED BY <1>4, <1>10, <1>13, <1>14, <1>15, <1>16

LEMMA UpdateEdgeIs ==
  ASSUME NEW s, GInv(s), NEW a \in Ids, NEW b \in Ids \ {a}, NEW etx \in Nat,
         NEW now_ \in Int, NEW src \in Sources,
         src = "Reported" => a = Me /\ b \in Real,
         a = Me /\ src # "Reported" /\ Reported(s, Me, b) => b \in Present(s) \/ Stuck(s)
  PROVE  Updated(s, UpdateEdge(s, a, b, etx, now_, src), a, b, src)
<1> DEFINE t == UpdateEdge(s, a, b, etx, now_, src)
           u == Located(s, a, b, src, now_)
<1>1. a # NoNode /\ b # NoNode /\ a # b BY IdFacts
<1>2. CASE ~MayHaveEdges(s, a)
  <2>1. t = s BY <1>2 DEF UpdateEdge
  <2>2. src # "Reported" BY <1>2 DEF MayHaveEdges
  <2> HIDE DEF t
  <2>3. Updated(s, t, a, b, src) BY <2>1, <2>2, LkRefl DEF Updated, KeepsL1, HeardIn
  <2>4. QED BY <2>3 DEF t
<1>3. CASE MayHaveEdges(s, a)
  <2>1. t = PutEdgeOf(u, a, b, etx, now_, src) BY <1>1, <1>3 DEF UpdateEdge
  <2>2. Placing(s, u, a, b, src) BY PlacingIs
  <2> HIDE DEF t, u
  <2>3. CASE a \notin Present(u)
    <3>1. t = u /\ u = s /\ Stuck(s) BY <2>1, <2>2, <2>3 DEF PutEdgeOf, Placing
    <3>2. Updated(s, t, a, b, src) BY <3>1, LkRefl DEF Updated, KeepsL1, HeardIn
    <3>3. QED BY <3>2 DEF t
  <2>4. CASE a \in Present(u)
    <3> DEFINE w == [u EXCEPT !.node[a].full = now_]
    <3>1. t = PutEdge(w, a, b, etx, now_, src) BY <2>1, <2>4 DEF PutEdgeOf
    <3>2. GInv(u) BY <2>2 DEF Placing
    <3>3. Touch(u, w) BY <2>4, <3>2, FullTouch DEF GInv
    <3> HIDE DEF w
    <3>4. Shrink(u, w) BY <3>2, <3>3, TouchShrink DEF GInv
    <3>5. GInv(w) /\ HeardIn(u, w, {}) BY <3>2, <3>4, ShrinkInv DEF GInv
    <3>6. /\ Present(w) = Present(u) /\ KeepsL1(u, w) /\ (Stuck(u) => Stuck(w))
          /\ \A x, y : HasEdge(w, x, y) <=> HasEdge(u, x, y)
      BY <3>3, TouchSame
    <3>7. Put(w, t, a, b, src) BY <2>4, <3>1, <3>5, <3>6, PutEdgeIs DEF GInv
    <3>8. src = "Reported" => L1At(w, b) \/ Stuck(w)
      BY <2>2, <2>4, <3>6 DEF Placing, KeepsL1
    <3>9. /\ GInv(t) /\ KeepsL1(w, t) /\ HeardIn(w, t, IF src = "Reported" THEN {b} ELSE {})
          /\ Stuck(w) => Stuck(t)
          /\ src = "Reported" => L1At(t, b) \/ Stuck(t)
          /\ Lk(w, t, {}) \/ (Me \notin {a, b} /\ EdgeNew(w, t, a, b))
      BY <2>4, <3>5, <3>6, <3>7, <3>8, PutInv
    <3>10. KeepsL1(s, t) /\ HeardIn(s, t, IF src = "Reported" THEN {b} ELSE {}) /\ (Stuck(s) => Stuck(t))
      BY <2>2, <3>5, <3>6, <3>9 DEF Placing, KeepsL1, HeardIn
    <3>11. Lk(s, w, {}) BY <2>2, <3>3, LkTouch, LkTrans DEF Placing
    <3>12. Lk(s, t, {}) \/ (Me \notin {a, b} /\ EdgeNew(s, t, a, b))
      <4>1. CASE Lk(w, t, {}) BY <4>1, <3>11, LkTrans
      <4>2. CASE Me \notin {a, b} /\ EdgeNew(w, t, a, b)
        <5>1. ~HasEdge(s, a, b) BY <4>2, <2>2, <3>6 DEF Placing, EdgeNew
        <5>2. QED BY <4>2, <5>1 DEF EdgeNew
      <4>3. QED BY <3>9, <4>1, <4>2
    <3>13. Updated(s, t, a, b, src) BY <3>9, <3>10, <3>12 DEF Updated
    <3>14. QED BY <3>13 DEF t
  <2>5. QED BY <2>3, <2>4
<1>4. QED BY <1>2, <1>3

(* What a graph says about prices. *)
LEMMA EtxIn == ASSUME NEW x \in Signals \ {"none"} PROVE CalculateEtx(x) \in Nat
<1>1. x = "strong" \/ x = "fair" \/ x = "weak" BY DEF Signals
<1>2. CalculateEtx(x) = 1 \/ CalculateEtx(x) = 3 \/ CalculateEtx(x) = COVERAGE_ETX_CEILING + 1
  BY <1>1, Zenon DEF CalculateEtx
<1>3. QED BY <1>2, PriceTypes

LEMMA EdgeIs ==
  ASSUME NEW s, Typed(s), NEW a, NEW b, HasEdge(s, a, b)
  PROVE  EdgeOk(EdgeOf(s, a, b)) /\ a \in Present(s) /\ a \in Ids /\ b \in Ids /\ a # b
<1>1. a \in Present(s) /\ b \in DOMAIN s.node[a].out BY DEF HasEdge, Out
<1>2. QED BY <1>1, NodeIs DEF EdgeOf

LEMMA PricedIn ==
  ASSUME NEW s, Typed(s), NEW a, NEW b, HasEdge(s, a, b), NEW now_, NEW u \in BOOLEAN
  PROVE  Priced(s, a, b, now_, u) \in Nat
<1> DEFINE e == EdgeOf(s, a, b)
           F == UNVERIFIED_HOP_COST_FACTOR
           etx == IF u THEN e.etx * F ELSE e.etx
           ours == a = Me /\ e.src = "Reported" /\ e.heard # Never
           more == IF ours THEN SilencePrice(Age(now_, e.heard)) ELSE 0
<1>1. e.etx \in Nat BY EdgeIs DEF EdgeOk
<1>2. Priced(s, a, b, now_, u) = AtMost(etx + more, MaxPrice) BY DEF Priced
<1>3. more \in 0 .. 24 BY DEF SilencePrice
<1> DEFINE x == e.etx
<1> HIDE DEF e, more
<1>4. x \in Nat BY <1>1 DEF x
<1> HIDE DEF x
<1>5. x * F \in Nat BY <1>4, PriceTypes
<1> DEFINE y == x * F
<1>6. etx = y \/ etx = x BY DEF x
<1> HIDE DEF y, etx
<1>7. etx + more \in Nat BY <1>3, <1>4, <1>5, <1>6 DEF y
<1>8. QED BY <1>2, <1>7, PlusFacts DEF AtMost

LEMMA GraphHopsOk ==
  ASSUME NEW s, Typed(s), NEW now_, NEW u
  PROVE  /\ HopsOk(s, now_, u)
         /\ \A n : BackFrom(s, n, u) \subseteq Present(s) \cup UNION {Out(s, k) : k \in Present(s)}
<1>1. \A n, m : m \in BackFrom(s, n, u) => HasEdge(s, n, m) \/ (m \in Present(s) /\ HasEdge(s, m, n))
  BY DEF BackFrom, HasEdge
<1>2. ASSUME NEW n, NEW m \in BackFrom(s, n, u) PROVE m \in Ids /\ HopBack(s, n, m, now_, u) \in Nat
  <2> DEFINE P == Publishes(s, n)
             price == IF HasEdge(s, n, m) THEN Priced(s, n, m, now_, FALSE) ELSE Priced(s, m, n, now_, P)
             rx == IF Reported(s, Me, n) /\ EdgeOf(s, Me, n).heard # Never
                   THEN Priced(s, Me, n, now_, FALSE) ELSE 0
  <2>1. P \in BOOLEAN BY DEF Publishes
  <2> HIDE DEF P
  <2>2. price \in Nat BY <1>1, <2>1, PricedIn
  <2>3. rx \in Nat
    <3>0. 0 \in Nat OBVIOUS
    <3>1. CASE Reported(s, Me, n) /\ EdgeOf(s, Me, n).heard # Never
      <4>1. HasEdge(s, Me, n) BY <3>1 DEF Reported
      <4>2. Priced(s, Me, n, now_, FALSE) \in Nat BY <4>1, PricedIn
      <4>3. QED BY <3>1, <4>2
    <3>2. CASE ~(Reported(s, Me, n) /\ EdgeOf(s, Me, n).heard # Never)
      <4>1. rx = 0 BY <3>2
      <4> HIDE DEF rx
      <4>2. QED BY <3>0, <4>1
    <3>3. QED BY <3>1, <3>2
  <2>4. HopBack(s, n, m, now_, u) = IF m = Me /\ rx > price THEN rx ELSE price BY DEF HopBack, P
  <2> HIDE DEF rx, price
  <2>5. HopBack(s, n, m, now_, u) \in Nat BY <2>2, <2>3, <2>4
  <2>6. m \in Ids BY <1>1, EdgeIs
  <2>7. QED BY <2>5, <2>6
<1>3. ASSUME NEW n, NEW m \in BackFrom(s, n, u)
      PROVE  m \in Present(s) \cup UNION {Out(s, k) : k \in Present(s)}
  <2>1. CASE HasEdge(s, n, m) BY <2>1 DEF HasEdge, Out
  <2>2. QED BY <1>1, <2>1
<1>4. QED BY <1>2, <1>3 DEF HopsOk

LEMMA SearchOfGraph ==
  ASSUME Typed(g)
  PROVE  SearchIsCheapest
<1> SUFFICES ASSUME Cardinality(Names) <= MAX_GRAPH_NODES, NEW d \in Real
             PROVE  BackwardSearch(g, d, now, MyRole, {}, FALSE).cost = CheapestPath(d)
  BY DEF SearchIsCheapest, Names
<1>1. HopsOk(g, now, FALSE) /\ \A n : VBack(n) \subseteq Present(g) \cup UNION {Out(g, k) : k \in Present(g)}
  BY GraphHopsOk DEF VBack
<1>2. VHopsOk BY <1>1 DEF VHopsOk, HopsOk, VBack, VHop
<1>3. Names \subseteq Ids
  <2>1. \A n \in Present(g) : n \in Ids /\ Out(g, n) \subseteq Ids BY NodeIs DEF Out
  <2>2. QED BY <2>1, IdFacts DEF Names
<1>4. \A n \in Ids : VBack(n) \subseteq Names BY <1>1 DEF Names
<1>5. QED BY <1>2, <1>3, <1>4, SearchOptimal

(* Nobody is newly heard, and who is still heard is still in the graph. *)
Kept(s, t) ==
  \A n \in Ids : Reported(t, Me, n) => Reported(s, Me, n) /\ (L1At(s, n) => L1At(t, n))
Good(s, t) == GInv(t) /\ Kept(s, t)

LEMMA GoodRefl == ASSUME NEW s, GInv(s) PROVE Good(s, s)
BY DEF Good, Kept

LEMMA GoodTrans == ASSUME NEW s, NEW u, NEW t, Good(s, u), Good(u, t) PROVE Good(s, t)
BY DEF Good, Kept

LEMMA GoodShrink ==
  ASSUME NEW s, GInv(s), NEW t, Shrink(s, t),
         \A n \in Ids : Reported(t, Me, n) /\ n \in Present(s) => n \in Present(t)
  PROVE  Good(s, t)
<1>1. Typed(t) /\ HeardOk(t, {}) /\ HeardIn(s, t, {}) BY ShrinkInv DEF GInv
<1>2. \A n \in Ids : n \in Present(t) /\ L1At(s, n) => L1At(t, n) BY DEF Shrink, L1At
<1>3. \A n \in Ids : L1At(s, n) => n \in Present(s) BY DEF L1At
<1>4. Kept(s, t) BY <1>1, <1>2, <1>3 DEF Kept, HeardIn
<1>5. QED BY <1>1, <1>4 DEF Good, GInv

LEMMA GoodTouch == ASSUME NEW s, GInv(s), NEW t, Touch(s, t) PROVE Good(s, t)
<1>1. Shrink(s, t) BY TouchShrink DEF GInv
<1>2. Present(t) = Present(s) BY TouchSame
<1>3. QED BY <1>1, <1>2, GoodShrink

LEMMA GoodNode ==
  ASSUME NEW s, GInv(s), NEW t, DOMAIN t = GraphFields, t.node = s.node
  PROVE  Good(s, t) /\ Touch(s, t)
BY TouchNode, GoodTouch DEF GInv

LEMMA GoodGrown == ASSUME NEW s, NEW t, GInv(t), KeepsL1(s, t), HeardIn(s, t, {}) PROVE Good(s, t)
BY DEF Good, Kept, KeepsL1, HeardIn

LEMMA GoodUpdated ==
  ASSUME NEW s, NEW t, NEW a, NEW b, NEW src, src # "Reported", Updated(s, t, a, b, src)
  PROVE  Good(s, t)
<1>1. GInv(t) /\ KeepsL1(s, t) /\ HeardIn(s, t, {}) BY DEF Updated
<1>2. QED BY <1>1, GoodGrown

LEMMA GoodFound ==
  ASSUME NEW s, GInv(s), NEW now_ \in Int
  PROVE  Good(s, FindOrCreate(s, Me, now_)) /\ Found(s, FindOrCreate(s, Me, now_), Me)
<1> DEFINE t == FindOrCreate(s, Me, now_)
<1>1. Found(s, t, Me) BY FoundIs, IdFacts DEF GInv
<1> HIDE DEF t
<1>2. ~Reported(s, Me, Me) BY IdFacts DEF GInv, HeardOk
<1>3. GInv(t) BY <1>1, <1>2, FoundInv, IdFacts
<1>4. Good(s, t) BY <1>1, <1>3, GoodGrown DEF Found
<1>5. QED BY <1>1, <1>4 DEF t

(* ensure_publisher, of a node that we do not hear. *)
LEMMA PublisherIs ==
  ASSUME NEW s, GInv(s), NEW n \in Ids, ~Reported(s, Me, n), NEW class \in Classes, NEW hint,
         NEW now_ \in Int
  PROVE  Good(s, EnsurePublisher(s, n, class, hint, now_).s)
<1> DEFINE t == EnsurePublisher(s, n, class, hint, now_).s
<1>1. CASE t = s BY <1>1, GoodRefl
<1>2. CASE n \in Present(s) /\ t = [SetNodeClass(s, n, class, hint) EXCEPT !.node[n].full = now_]
  <2> DEFINE u == SetNodeClass(s, n, class, hint)
  <2>1. Touch(s, u) BY SetNodeClassTouch DEF GInv
  <2>2. Good(s, u) /\ Present(u) = Present(s) BY <2>1, GoodTouch, TouchSame
  <2> HIDE DEF u
  <2>3. Touch(u, [u EXCEPT !.node[n].full = now_]) BY <1>2, <2>2, FullTouch DEF Good, GInv
  <2>4. Good(u, [u EXCEPT !.node[n].full = now_]) BY <2>2, <2>3, GoodTouch DEF Good
  <2>5. QED BY <1>2, <2>2, <2>4, GoodTrans DEF u
<1>3. CASE /\ n \notin Present(s) /\ ~(Full(s) /\ ~CanEvict(s, now_, TRUE))
           /\ t = AddNode(MadeRoom(s, now_, TRUE), n, NewNode(now_, class, hint))
  <2> DEFINE rec == NewNode(now_, class, hint)
  <2>1. NodeOk(n, rec) /\ DOMAIN rec.out = {} BY NewNodeOk
  <2>2. Full(s) => Victims(s) # {} BY <1>3 DEF CanEvict
  <2> HIDE DEF rec
  <2>3. Added(s, t, n, rec)
    <3>1. Added(s, AddNode(MadeRoom(s, now_, TRUE), n, rec), n, rec)
      BY <1>3, <2>1, <2>2, RoomMade DEF GInv
    <3>2. QED BY <1>3, <3>1 DEF rec
  <2> HIDE DEF t
  <2>4. /\ \A b : Reported(t, Me, b) <=> Reported(s, Me, b)
        /\ KeepsL1(s, t) /\ HeardIn(s, t, {})
    BY <1>3, <2>1, <2>3, AddedHeard DEF GInv
  <2>5. HeardOk(t, {})
    <3> SUFFICES ASSUME NEW m \in Ids, Reported(t, Me, m)
                 PROVE  m \in Real /\ (m \in Present(t) => L1At(t, m))
      BY DEF HeardOk
    <3>1. Reported(s, Me, m) /\ m # n BY <2>4
    <3>2. m \in Real /\ (m \in Present(s) => L1At(s, m)) BY <3>1 DEF GInv, HeardOk
    <3>3. m \in Present(t) => m \in Present(s) /\ t.node[m] = s.node[m] BY <2>3, <3>1 DEF Added
    <3>4. QED BY <3>2, <3>3 DEF L1At
  <2>6. GInv(t) BY <2>3, <2>5 DEF GInv, Added
  <2>7. Good(s, t) BY <2>4, <2>6, GoodGrown
  <2>8. QED BY <2>7 DEF t
<1>4. n # NoNode BY IdFacts
<1>5. QED BY <1>1, <1>2, <1>3, <1>4 DEF EnsurePublisher

(* Nodes and edges that go. *)
Less(s, t) ==
  /\ DOMAIN t = GraphFields /\ DOMAIN t.node \subseteq DOMAIN s.node
  /\ \A a \in DOMAIN t.node :
       /\ DOMAIN t.node[a] = NodeFields /\ t.node[a].class = s.node[a].class /\ t.node[a].full = s.node[a].full
       /\ DOMAIN t.node[a].out \subseteq DOMAIN s.node[a].out
       /\ \A m \in DOMAIN t.node[a].out : t.node[a].out[m] = s.node[a].out[m]

LEMMA LessTrans == ASSUME NEW s, NEW u, NEW t, Less(s, u), Less(u, t) PROVE Less(s, t)
BY DEF Less

LEMMA LessSame == ASSUME NEW s, Typed(s), NEW t, DOMAIN t = GraphFields, t.node = s.node PROVE Less(s, t)
BY DEF Less, Typed, NodeOk

LEMMA LessShrink == ASSUME NEW s, Typed(s), NEW t, Less(s, t) PROVE Shrink(s, t)
<1>1. DOMAIN s.node \in SUBSET Ids /\ Cardinality(DOMAIN s.node) <= MAX_GRAPH_NODES BY DEF Typed
<1>2. Cardinality(DOMAIN t.node) <= MAX_GRAPH_NODES
  <2> DEFINE P == DOMAIN s.node
             Q == DOMAIN t.node
  <2>1. Q \subseteq P BY DEF Less
  <2> HIDE DEF P, Q
  <2>2. IsFiniteSet(P) /\ Cardinality(P) \in Nat BY <1>1, CardIds DEF P
  <2>3. Cardinality(Q) \in Nat /\ Cardinality(Q) <= Cardinality(P) BY <2>1, <2>2, FS_Subset, FS_CardinalityType
  <2>4. QED BY <1>1, <2>2, <2>3, SizeFacts DEF P, Q
<1>3. ASSUME NEW n \in DOMAIN t.node PROVE NodeOk(n, t.node[n])
  <2> DEFINE P == DOMAIN s.node[n].out
             Q == DOMAIN t.node[n].out
  <2>1. NodeOk(n, s.node[n]) BY DEF Typed, Less
  <2>2. Q \subseteq P BY DEF Less
  <2>3. P \in SUBSET (Ids \ {n}) /\ Cardinality(P) <= MAX_EDGES_PER_NODE BY <2>1 DEF NodeOk, OutOk
  <2> HIDE DEF P, Q
  <2>4. IsFiniteSet(P) /\ Cardinality(P) \in Nat BY <2>3, CardIds
  <2>5. Cardinality(Q) \in Nat /\ Cardinality(Q) <= Cardinality(P) BY <2>2, <2>4, FS_Subset, FS_CardinalityType
  <2>6. Cardinality(Q) <= MAX_EDGES_PER_NODE BY <2>3, <2>4, <2>5, SizeFacts
  <2>7. \A m \in Q : EdgeOk(t.node[n].out[m])
    <3>1. \A m \in P : EdgeOk(s.node[n].out[m]) BY <2>1 DEF NodeOk, OutOk, P
    <3>2. \A m \in Q : t.node[n].out[m] = s.node[n].out[m] BY DEF Less, Q
    <3>3. QED BY <2>2, <3>1, <3>2
  <2>8. QED BY <2>1, <2>2, <2>3, <2>6, <2>7 DEF NodeOk, OutOk, Less, Q
<1>4. Typed(t) BY <1>1, <1>2, <1>3 DEF Typed, Less
<1>5. QED BY <1>4 DEF Shrink, Less, Present

LEMMA RemoveEdgeIs ==
  ASSUME NEW s, Typed(s), NEW a, NEW b
  PROVE  LET t == RemoveEdge(s, a, b)
         IN /\ Less(s, t) /\ Present(t) = Present(s) /\ ~HasEdge(t, a, b)
            /\ \A x, y : HasEdge(s, x, y) /\ ~(x = a /\ y = b) => HasEdge(t, x, y) /\ EdgeOf(t, x, y) = EdgeOf(s, x, y)
<1> DEFINE t == RemoveEdge(s, a, b)
<1>1. CASE ~HasEdge(s, a, b)
  <2>1. t = s BY <1>1 DEF RemoveEdge
  <2> HIDE DEF t
  <2>2. Less(s, t) BY <2>1, LessSame DEF Typed
  <2>3. QED BY <1>1, <2>1, <2>2 DEF t
<1>2. CASE HasEdge(s, a, b)
  <2> DEFINE v == s.node[a]
             o == Without(v.out, b)
             w == [v EXCEPT !.out = o]
  <2>1. a \in Present(s) BY <1>2 DEF HasEdge, Out
  <2>2. DOMAIN s = GraphFields /\ DOMAIN v = NodeFields BY <2>1, NodeIs
  <2>3. DOMAIN t = GraphFields /\ t.node = [s.node EXCEPT ![a] = w] BY <1>2, <2>2 DEF RemoveEdge, GraphFields
  <2> HIDE DEF t, v
  <2>4. DOMAIN o = DOMAIN v.out \ {b} /\ \A x \in DOMAIN v.out : x # b => o[x] = v.out[x] BY WithoutFacts
  <2> HIDE DEF o
  <2>5. DOMAIN w = NodeFields /\ w.class = v.class /\ w.full = v.full /\ w.out = o BY <2>2 DEF NodeFields
  <2> HIDE DEF w
  <2>6. DOMAIN t.node = DOMAIN s.node /\ t.node[a] = w /\ \A m \in DOMAIN s.node : m # a => t.node[m] = s.node[m]
    BY <2>1, <2>3 DEF Present
  <2>7. \A m \in DOMAIN s.node : DOMAIN s.node[m] = NodeFields BY NodeIs DEF Present
  <2>8. Less(s, t) BY <2>3, <2>4, <2>5, <2>6, <2>7 DEF Less, v
  <2>9. Present(t) = Present(s) BY <2>6 DEF Present
  <2>10. ~HasEdge(t, a, b) BY <2>4, <2>5, <2>6 DEF HasEdge, Out
  <2>11. ASSUME NEW x, NEW y, HasEdge(s, x, y), ~(x = a /\ y = b)
         PROVE  HasEdge(t, x, y) /\ EdgeOf(t, x, y) = EdgeOf(s, x, y)
    <3>1. x \in DOMAIN s.node /\ y \in DOMAIN s.node[x].out BY <2>11 DEF HasEdge, Out, Present
    <3>2. CASE x # a BY <3>1, <3>2, <2>6 DEF HasEdge, Out, Present, EdgeOf
    <3>3. CASE x = a
      <4>1. y # b /\ y \in DOMAIN v.out BY <3>1, <3>3, <2>11 DEF v
      <4>2. y \in DOMAIN w.out /\ w.out[y] = v.out[y] BY <4>1, <2>4, <2>5
      <4>3. QED BY <4>2, <3>1, <3>3, <2>6 DEF HasEdge, Out, Present, EdgeOf, v
    <3>4. QED BY <3>2, <3>3
  <2>12. QED BY <2>8, <2>9, <2>10, <2>11 DEF t
<1>3. QED BY <1>1, <1>2

(* A node leaves, and with it the edges to it. *)
Removed(s, t, V) ==
  /\ Less(s, t) /\ Present(t) = Present(s) \ V
  /\ \A b : Reported(s, Me, b) /\ b \notin V => Reported(t, Me, b)

LEMMA RemoveNodeIs ==
  ASSUME NEW s, Typed(s), NEW n, n # Me
  PROVE  Removed(s, RemoveNode(s, n), {n}) /\ ~HasEdge(RemoveNode(s, n), Me, n)
<1> DEFINE t == RemoveNode(s, n)
           w(a) == [s.node[a] EXCEPT !.out = Without(s.node[a].out, n)]
           u == RemoveEdgesTo(s, n)
<1>1. DOMAIN u = GraphFields /\ u.node = [a \in DOMAIN s.node |-> w(a)] BY DEF RemoveEdgesTo, Typed, GraphFields
<1>2. t = [u EXCEPT !.node = Without(u.node, n)] BY DEF RemoveNode, DropNode
<1> HIDE DEF u, t
<1>3. DOMAIN t = GraphFields /\ t.node = Without(u.node, n) BY <1>1, <1>2 DEF GraphFields
<1>4. DOMAIN t.node = DOMAIN s.node \ {n} /\ \A a \in DOMAIN t.node : t.node[a] = w(a)
  <2> HIDE DEF w
  <2>1. QED BY <1>1, <1>3 DEF Without
<1>5. \A a \in DOMAIN s.node : DOMAIN s.node[a] = NodeFields BY NodeIs DEF Present
<1>6. ASSUME NEW a \in DOMAIN s.node
      PROVE  /\ DOMAIN w(a) = NodeFields /\ w(a).class = s.node[a].class /\ w(a).full = s.node[a].full
             /\ DOMAIN w(a).out = DOMAIN s.node[a].out \ {n}
             /\ \A m \in DOMAIN w(a).out : w(a).out[m] = s.node[a].out[m]
  <2> DEFINE v == s.node[a]
             o == Without(v.out, n)
  <2>1. DOMAIN v = NodeFields BY <1>5
  <2>2. DOMAIN o = DOMAIN v.out \ {n} /\ \A x \in DOMAIN o : o[x] = v.out[x] BY DEF Without
  <2> HIDE DEF v, o
  <2>3. w(a) = [v EXCEPT !.out = o] BY DEF v, o
  <2> HIDE DEF w
  <2>4. DOMAIN w(a) = NodeFields /\ w(a).class = v.class /\ w(a).full = v.full /\ w(a).out = o
    BY <2>1, <2>3 DEF NodeFields
  <2>5. QED BY <2>2, <2>4 DEF v
<1> HIDE DEF w
<1>7. Less(s, t) BY <1>3, <1>4, <1>6 DEF Less
<1>8. Present(t) = Present(s) \ {n} BY <1>4 DEF Present
<1>9. ASSUME NEW b, Reported(s, Me, b), b # n PROVE Reported(t, Me, b)
  <2>1. Me \in DOMAIN s.node /\ b \in DOMAIN s.node[Me].out /\ s.node[Me].out[b].src = "Reported"
    BY <1>9 DEF Reported, HasEdge, Out, Present, EdgeOf
  <2>2. Me \in DOMAIN t.node BY <2>1, <1>4
  <2>3. b \in DOMAIN t.node[Me].out /\ t.node[Me].out[b] = s.node[Me].out[b] BY <2>1, <2>2, <1>4, <1>6, <1>9
  <2>4. QED BY <2>1, <2>2, <2>3 DEF Reported, HasEdge, Out, Present, EdgeOf
<1>10. ~HasEdge(t, Me, n) BY <1>4, <1>6 DEF HasEdge, Out, Present
<1>11. QED BY <1>7, <1>8, <1>9, <1>10 DEF Removed, t

(* The list of a node, cut to what it names. *)
LEMMA RetainListedIs ==
  ASSUME NEW s, Typed(s), NEW n, NEW L
  PROVE  LET t == RetainListed(s, n, L) IN Less(s, t) /\ Present(t) = Present(s)
<1> DEFINE t == RetainListed(s, n, L)
<1>1. CASE n \notin Present(s)
  <2>1. t = s BY <1>1 DEF RetainListed
  <2> HIDE DEF t
  <2>2. QED BY <2>1, LessSame DEF Typed, t
<1>2. CASE n \in Present(s)
  <2> DEFINE v == s.node[n]
             D == {m \in DOMAIN v.out : v.out[m].src = "Reported" \/ m \in Placeholders \/ m \in L}
             o == [m \in D |-> v.out[m]]
             w == [v EXCEPT !.out = o]
  <2>2. DOMAIN s = GraphFields /\ DOMAIN v = NodeFields BY <1>2, NodeIs
  <2>3. DOMAIN t = GraphFields /\ t.node = [s.node EXCEPT ![n] = w] BY <1>2, <2>2 DEF RetainListed, GraphFields
  <2> HIDE DEF t
  <2>4. DOMAIN o \subseteq DOMAIN v.out /\ \A x \in DOMAIN o : o[x] = v.out[x] OBVIOUS
  <2> HIDE DEF o, v
  <2>5. DOMAIN w = NodeFields /\ w.class = v.class /\ w.full = v.full /\ w.out = o BY <2>2 DEF NodeFields
  <2> HIDE DEF w
  <2>6. DOMAIN t.node = DOMAIN s.node /\ t.node[n] = w /\ \A m \in DOMAIN s.node : m # n => t.node[m] = s.node[m]
    BY <1>2, <2>3 DEF Present
  <2>7. \A m \in DOMAIN s.node : DOMAIN s.node[m] = NodeFields BY NodeIs DEF Present
  <2>8. Less(s, t) BY <2>3, <2>4, <2>5, <2>6, <2>7 DEF Less, v
  <2>9. Present(t) = Present(s) BY <2>6 DEF Present
  <2>10. QED BY <2>8, <2>9 DEF t
<1>3. QED BY <1>1, <1>2

(* The edges that are not too old. *)
AgedGraph(s, now_) ==
  [s EXCEPT !.node = [a \in DOMAIN @ |-> [@[a] EXCEPT !.out = Recent(s.node[a].out, now_)]]]

LEMMA AgedIs ==
  ASSUME NEW s, Typed(s), NEW now_
  PROVE  Less(s, AgedGraph(s, now_)) /\ Present(AgedGraph(s, now_)) = Present(s)
<1> DEFINE t == AgedGraph(s, now_)
           o(a) == Recent(s.node[a].out, now_)
           w(a) == [s.node[a] EXCEPT !.out = o(a)]
<1>1. DOMAIN t = GraphFields /\ t.node = [a \in DOMAIN s.node |-> w(a)] BY DEF AgedGraph, Typed, GraphFields
<1>2. \A a : DOMAIN o(a) \subseteq DOMAIN s.node[a].out /\ \A x \in DOMAIN o(a) : o(a)[x] = s.node[a].out[x] BY DEF Recent
<1> HIDE DEF t, o
<1>3. \A a \in DOMAIN s.node : DOMAIN s.node[a] = NodeFields BY NodeIs DEF Present
<1>4. \A a \in DOMAIN s.node : DOMAIN w(a) = NodeFields /\ w(a).class = s.node[a].class /\ w(a).full = s.node[a].full /\ w(a).out = o(a)
  BY <1>3 DEF NodeFields
<1> HIDE DEF w
<1>5. DOMAIN t.node = DOMAIN s.node /\ \A a \in DOMAIN s.node : t.node[a] = w(a) BY <1>1
<1>6. Less(s, t) BY <1>1, <1>2, <1>4, <1>5 DEF Less
<1>7. QED BY <1>5, <1>6 DEF t, Present

LEMMA ClearHearsTouch ==
  ASSUME NEW s, Typed(s), NEW n, NEW L
  PROVE  Touch(s, ClearHearsToUnlisted(s, n, L))
<1> DEFINE t == ClearHearsToUnlisted(s, n, L)
           skip(a) == a = n \/ a \in L \/ n \notin DOMAIN s.node[a].out
           f(a) == [s.node[a].out[n] EXCEPT !.hears = FALSE]
           w(a) == IF skip(a) THEN s.node[a] ELSE [s.node[a] EXCEPT !.out = [s.node[a].out EXCEPT ![n] = f(a)]]
<1>1. DOMAIN t = GraphFields /\ t.node = [a \in DOMAIN s.node |-> w(a)]
  BY DEF ClearHearsToUnlisted, Typed, GraphFields
<1>2. \A a \in DOMAIN s.node :
        /\ DOMAIN s.node[a] = NodeFields /\ s.node[a].class \in Classes /\ s.node[a].full \in Int
        /\ \A m \in DOMAIN s.node[a].out : EdgeOk(s.node[a].out[m])
  BY NodeIs DEF Present
<1> HIDE DEF t
<1>3. ASSUME NEW a \in DOMAIN s.node
      PROVE  /\ DOMAIN w(a) = NodeFields /\ w(a).class = s.node[a].class /\ w(a).full \in Int
             /\ DOMAIN w(a).out = DOMAIN s.node[a].out
             /\ \A m \in DOMAIN s.node[a].out : EdgeOk(w(a).out[m]) /\ w(a).out[m].src = s.node[a].out[m].src
  <2>1. CASE skip(a)
    <3>1. w(a) = s.node[a] BY <2>1
    <3> HIDE DEF w
    <3>2. QED BY <1>2, <3>1
  <2>2. CASE ~skip(a)
    <3> DEFINE v == s.node[a]
               e == v.out[n]
               x == f(a)
    <3>1. n \in DOMAIN v.out /\ DOMAIN v = NodeFields /\ v.full \in Int BY <2>2, <1>2
    <3>2. EdgeOk(e) BY <1>2, <3>1
    <3>3. x = [e EXCEPT !.hears = FALSE] OBVIOUS
    <3> HIDE DEF e, x
    <3>4. EdgeOk(x) /\ x.src = e.src BY <3>2, <3>3 DEF EdgeOk, EdgeFields
    <3> DEFINE q == [v.out EXCEPT ![n] = x]
    <3>5. w(a) = [v EXCEPT !.out = q] BY <2>2 DEF x
    <3> HIDE DEF w, f, v
    <3>6. DOMAIN q = DOMAIN v.out /\ q[n] = x /\ \A m \in DOMAIN v.out : m # n => q[m] = v.out[m] BY <3>1
    <3> HIDE DEF q
    <3>7. DOMAIN w(a) = NodeFields /\ w(a).class = v.class /\ w(a).full = v.full /\ w(a).out = q
      BY <3>1, <3>5 DEF NodeFields
    <3>8. \A m \in DOMAIN v.out : EdgeOk(v.out[m]) BY <1>2 DEF v
    <3>9. \A m \in DOMAIN v.out : EdgeOk(q[m]) /\ q[m].src = v.out[m].src BY <3>4, <3>6, <3>8 DEF e
    <3>10. QED BY <3>1, <3>6, <3>7, <3>9 DEF v
  <2>3. QED BY <2>1, <2>2
<1> HIDE DEF w
<1>4. DOMAIN t.node = DOMAIN s.node /\ \A a \in DOMAIN s.node : t.node[a] = w(a) BY <1>1
<1>5. Touch(s, t) BY <1>1, <1>2, <1>3, <1>4 DEF Touch
<1>6. QED BY <1>5 DEF t

LEMMA UnheardTouch ==
  ASSUME NEW s, Typed(s), NEW N
  PROVE  Touch(s, Unheard(s, N))
<1> DEFINE t == Unheard(s, N)
           f(a, m) == IF m \in N THEN [s.node[a].out[m] EXCEPT !.hears = FALSE] ELSE s.node[a].out[m]
           q(a) == [m \in DOMAIN s.node[a].out |-> f(a, m)]
           w(a) == IF a # Me THEN s.node[a] ELSE [s.node[a] EXCEPT !.out = q(a)]
<1>1. DOMAIN t = GraphFields /\ t.node = [a \in DOMAIN s.node |-> w(a)]
  <2> DEFINE z(a) == IF a # Me THEN s.node[a]
                     ELSE [s.node[a] EXCEPT !.out = [m \in Out(s, Me) |->
                        IF m \in N THEN [EdgeOf(s, Me, m) EXCEPT !.hears = FALSE] ELSE EdgeOf(s, Me, m)]]
  <2>1. DOMAIN t = GraphFields /\ t.node = [a \in DOMAIN s.node |-> z(a)] BY DEF Unheard, Typed, GraphFields
  <2>2. \A a \in DOMAIN s.node : z(a) = w(a) BY DEF Out, EdgeOf, Present
  <2> HIDE DEF z, w
  <2>3. QED BY <2>1, <2>2
<1>2. \A a \in DOMAIN s.node :
        /\ DOMAIN s.node[a] = NodeFields /\ s.node[a].class \in Classes /\ s.node[a].full \in Int
        /\ \A m \in DOMAIN s.node[a].out : EdgeOk(s.node[a].out[m])
  BY NodeIs DEF Present
<1>3. \A a \in DOMAIN s.node : \A m \in DOMAIN s.node[a].out :
        EdgeOk(f(a, m)) /\ f(a, m).src = s.node[a].out[m].src
  <2> TAKE a \in DOMAIN s.node
  <2> TAKE m \in DOMAIN s.node[a].out
  <2> DEFINE e == s.node[a].out[m]
  <2>1. EdgeOk(e) BY <1>2
  <2>2. f(a, m) = IF m \in N THEN [e EXCEPT !.hears = FALSE] ELSE e OBVIOUS
  <2> HIDE DEF e, f
  <2>3. EdgeOk(f(a, m)) /\ f(a, m).src = e.src BY <2>1, <2>2 DEF EdgeOk, EdgeFields
  <2>4. QED BY <2>3 DEF e
<1> HIDE DEF t, f
<1>4. \A a : DOMAIN q(a) = DOMAIN s.node[a].out /\ \A m \in DOMAIN s.node[a].out : q(a)[m] = f(a, m) OBVIOUS
<1> HIDE DEF q
<1>5. ASSUME NEW a \in DOMAIN s.node
      PROVE  /\ DOMAIN w(a) = NodeFields /\ w(a).class = s.node[a].class /\ w(a).full \in Int
             /\ DOMAIN w(a).out = DOMAIN s.node[a].out
             /\ \A m \in DOMAIN s.node[a].out : EdgeOk(w(a).out[m]) /\ w(a).out[m].src = s.node[a].out[m].src
  <2>1. CASE a # Me
    <3>1. w(a) = s.node[a] BY <2>1
    <3> HIDE DEF w
    <3>2. QED BY <1>2, <3>1
  <2>2. CASE a = Me
    <3>1. w(a) = [s.node[a] EXCEPT !.out = q(a)] BY <2>2
    <3> HIDE DEF w
    <3>2. DOMAIN w(a) = NodeFields /\ w(a).class = s.node[a].class /\ w(a).full = s.node[a].full /\ w(a).out = q(a)
      BY <1>2, <3>1 DEF NodeFields
    <3>3. QED BY <1>2, <1>3, <1>4, <3>2
  <2>3. QED BY <2>1, <2>2
<1> HIDE DEF w
<1>6. DOMAIN t.node = DOMAIN s.node /\ \A a \in DOMAIN s.node : t.node[a] = w(a) BY <1>1
<1>7. Touch(s, t) BY <1>1, <1>2, <1>5, <1>6 DEF Touch
<1>8. QED BY <1>7 DEF t

LEMMA Greatest == ASSUME NEW W \in SUBSET Ids, W # {} PROVE \E v \in W : \A w \in W : w <= v
<1> DEFINE B == {p \in W \X W : p[1] >= p[2]}
<1>1. IsFiniteSet(W) /\ \A x \in W : x \in Nat BY CardIds, IdFacts
<1>2. \A x, y \in W : <<x, y>> \in B <=> x >= y OBVIOUS
<1>3. \A x, y \in W : x # y => <<x, y>> \in B \/ <<y, x>> \in B BY <1>1, <1>2
<1>4. \A x, y, z \in W : <<x, y>> \in B /\ <<y, z>> \in B => <<x, z>> \in B BY <1>1, <1>2
<1> HIDE DEF B
<1>5. PICK x \in W : \A y \in W \ {x} : <<x, y>> \in B BY <1>1, <1>3, <1>4, Champion
<1>6. \A y \in W : y <= x
  <2> TAKE y \in W
  <2>1. CASE y = x BY <2>1, <1>1
  <2>2. CASE y # x
    <3>1. <<x, y>> \in B BY <2>2, <1>5
    <3>2. x >= y BY <3>1, <1>2
    <3>3. QED BY <3>2, <1>1
  <2>3. QED BY <2>1, <2>2
<1>7. QED BY <1>6

(* The nodes of a set are removed one after the other. *)
Removal(s, v, now_) == RemoveNode(DemoteOrClear(s, v, now_), v)
IsRemoval(f, s, V, now_) ==
  /\ f[{}] = s
  /\ \A W \in SUBSET V : W # {} => \E v \in W : f[W] = Removal(f[W \ {v}], v, now_)

LEMMA RemovalRun ==
  ASSUME NEW s, NEW V \in SUBSET Ids, NEW now_
  PROVE  \E f : IsRemoval(f, s, V, now_) /\ RemoveAll(s, V, now_) = f[V]
<1> DEFINE pick(W) == CHOOSE v \in W : \A w \in W : w <= v
           Step(W, u) == RemoveNode(DemoteOrClear(u, pick(W), now_), pick(W))
           Dm(n) == {W \in SUBSET V : Cardinality(W) <= n}
           Is(f, n) == f = [W \in Dm(n) |-> IF W = {} THEN s ELSE Step(W, f[W \ {pick(W)}])]
           Runs == {n \in Nat : \E f : Is(f, n)}
           K == Cardinality(V)
<1>1. \A W \in SUBSET V : IsFiniteSet(W) /\ Cardinality(W) \in Nat BY CardIds
<1>2. \A W \in SUBSET V : W # {} => pick(W) \in W
  <2> SUFFICES ASSUME NEW W \in SUBSET V, W # {} PROVE pick(W) \in W OBVIOUS
  <2>1. \E v \in W : \A w \in W : w <= v BY Greatest
  <2>2. QED BY <2>1
<1> HIDE DEF pick, Step
<1>3. \A W \in SUBSET V : W # {} => Cardinality(W \ {pick(W)}) = Cardinality(W) - 1
  BY <1>1, <1>2, FS_RemoveElement
<1>4. 0 \in Runs
  <2> DEFINE f == [W \in Dm(0) |-> s]
  <2>1. \A W \in Dm(0) : W = {} BY <1>1, FS_EmptySet
  <2>2. Is(f, 0) BY <2>1
  <2> HIDE DEF f
  <2>3. QED BY <2>2
<1>5. ASSUME NEW n \in Nat, n \in Runs PROVE n + 1 \in Runs
  <2>1. PICK f : Is(f, n) BY <1>5
  <2> DEFINE h == [W \in Dm(n + 1) |-> IF W = {} THEN s ELSE Step(W, f[W \ {pick(W)}])]
             j == [W \in Dm(n + 1) |-> IF W = {} THEN s ELSE Step(W, h[W \ {pick(W)}])]
  <2>2. \A W \in Dm(n) : W \in Dm(n + 1) BY <1>1
  <2>3. \A W \in Dm(n) : h[W] = f[W]
    <3>1. \A W \in Dm(n) : f[W] = IF W = {} THEN s ELSE Step(W, f[W \ {pick(W)}]) BY <2>1
    <3>2. QED BY <2>2, <3>1
  <2>4. \A W \in Dm(n + 1) : h[W] = j[W]
    <3> TAKE W \in Dm(n + 1)
    <3>1. CASE W = {} BY <3>1
    <3>2. CASE W # {}
      <4> DEFINE X == W \ {pick(W)}
      <4>1. X \in SUBSET V /\ Cardinality(X) = Cardinality(W) - 1 BY <1>3, <3>2
      <4>2. Cardinality(X) <= n BY <4>1, <1>1
      <4>3. X \in Dm(n) BY <4>1, <4>2
      <4>4. h[X] = f[X] BY <2>3, <4>3
      <4> HIDE DEF X, Dm
      <4>5. h[W] = Step(W, f[X]) /\ j[W] = Step(W, h[X]) BY <3>2 DEF X
      <4>6. QED BY <4>4, <4>5
    <3>3. QED BY <3>1, <3>2
  <2> HIDE DEF Dm
  <2>5. h = j BY <2>4
  <2> HIDE DEF h
  <2>6. Is(h, n + 1) BY <2>5
  <2>7. \E x : Is(x, n + 1) BY <2>6
  <2> HIDE DEF Is
  <2>8. QED BY <2>7
<1> HIDE DEF Runs
<1>6. K \in Nat BY <1>1
<1>7. K \in Runs BY <1>4, <1>5, <1>6, NumberInduction
<1>8. Dm(K) = SUBSET V
  <2>1. \A W \in SUBSET V : Cardinality(W) <= Cardinality(V)
    <3>1. IsFiniteSet(V) BY <1>1
    <3>2. QED BY <3>1, FS_Subset
  <2>2. QED BY <2>1
<1> DEFINE Fn(f) == f = [W \in SUBSET V |-> IF W = {} THEN s ELSE Step(W, f[W \ {pick(W)}])]
<1>9. \E f : Fn(f) BY <1>7, <1>8 DEF Runs
<1> DEFINE r == CHOOSE f : Fn(f)
<1>10. Fn(r) BY <1>9
<1>11. RemoveAll(s, V, now_) = r[V] BY DEF RemoveAll, Step, pick
<1> HIDE DEF r
<1>12. \A W \in SUBSET V : r[W] = IF W = {} THEN s ELSE Step(W, r[W \ {pick(W)}]) BY <1>10
<1>13. r[{}] = s BY <1>12
<1>14. ASSUME NEW W \in SUBSET V, W # {} PROVE \E v \in W : r[W] = Removal(r[W \ {v}], v, now_)
  <2>1. r[W] = Step(W, r[W \ {pick(W)}]) BY <1>12, <1>14
  <2>2. r[W] = Removal(r[W \ {pick(W)}], pick(W), now_) BY <2>1 DEF Step, Removal
  <2>3. QED BY <2>2, <1>2, <1>14
<1>15. IsRemoval(r, s, V, now_) BY <1>13, <1>14 DEF IsRemoval
<1>16. QED BY <1>11, <1>15

LEMMA DemoteOrClearNode ==
  ASSUME NEW s, Typed(s), NEW v, NEW now_
  PROVE  DOMAIN DemoteOrClear(s, v, now_) = GraphFields /\ DemoteOrClear(s, v, now_).node = s.node
BY DEF DemoteOrClear, ApplyDemotion, Typed, GraphFields

LEMMA RemovalIs ==
  ASSUME NEW s, Typed(s), NEW v, v # Me, NEW now_
  PROVE  Removed(s, Removal(s, v, now_), {v}) /\ Typed(Removal(s, v, now_))
<1> DEFINE u == DemoteOrClear(s, v, now_)
           t == RemoveNode(u, v)
<1>1. DOMAIN u = GraphFields /\ u.node = s.node BY DemoteOrClearNode
<1>2. t = Removal(s, v, now_) BY DEF Removal
<1> HIDE DEF u
<1>3. Less(s, u) BY <1>1, LessSame
<1>4. Typed(u) BY <1>3, LessShrink DEF Shrink
<1>5. Removed(u, t, {v}) BY <1>4, RemoveNodeIs
<1> HIDE DEF t
<1>6. Less(s, t) BY <1>3, <1>5, LessTrans DEF Removed
<1>7. Typed(t) BY <1>6, LessShrink DEF Shrink
<1>8. Present(u) = Present(s) /\ \A b : Reported(u, Me, b) <=> Reported(s, Me, b)
  BY <1>1 DEF Present, Reported, HasEdge, Out, EdgeOf
<1>9. Removed(s, t, {v}) BY <1>5, <1>6, <1>8 DEF Removed
<1>10. QED BY <1>2, <1>7, <1>9

LEMMA RemoveAllIs ==
  ASSUME NEW s, Typed(s), NEW V \in SUBSET (Ids \ {Me}), NEW now_
  PROVE  Removed(s, RemoveAll(s, V, now_), V) /\ Typed(RemoveAll(s, V, now_))
<1>0. V \in SUBSET Ids OBVIOUS
<1>1. PICK f : IsRemoval(f, s, V, now_) /\ RemoveAll(s, V, now_) = f[V] BY <1>0, RemovalRun
<1> DEFINE Ok(W) == Removed(s, f[W], W) /\ Typed(f[W])
           S == {n \in Nat : \A W \in SUBSET V : Cardinality(W) = n => Ok(W)}
<1>2. \A W \in SUBSET V : IsFiniteSet(W) /\ Cardinality(W) \in Nat BY CardIds
<1>3. 0 \in S
  <2>1. f[{}] = s BY <1>1 DEF IsRemoval
  <2>2. Removed(s, s, {}) BY LessSame DEF Removed, Typed
  <2>3. Ok({}) BY <2>1, <2>2
  <2>4. \A W \in SUBSET V : Cardinality(W) = 0 => W = {} BY <1>2, FS_EmptySet
  <2>5. QED BY <2>3, <2>4
<1>4. ASSUME NEW k \in Nat, k \in S PROVE k + 1 \in S
  <2> SUFFICES ASSUME NEW W \in SUBSET V, Cardinality(W) = k + 1 PROVE Ok(W) OBVIOUS
  <2>1. W # {} BY FS_EmptySet
  <2>2. PICK v \in W : f[W] = Removal(f[W \ {v}], v, now_) BY <1>1, <2>1 DEF IsRemoval
  <2> DEFINE X == W \ {v}
             u == f[X]
             t == f[W]
  <2>3. Cardinality(X) = k
    <3>1. IsFiniteSet(W) BY <1>2
    <3>2. Cardinality(X) = Cardinality(W) - 1 BY <3>1, FS_RemoveElement
    <3>3. QED BY <3>2
  <2>4. X \in SUBSET V OBVIOUS
  <2>5. Ok(X) BY <1>4, <2>3, <2>4
  <2>6. v # Me OBVIOUS
  <2>7. Removed(s, u, X) /\ Typed(u) BY <2>5
  <2>8. t = Removal(u, v, now_) BY <2>2
  <2> HIDE DEF u, t
  <2>9. Removed(u, t, {v}) /\ Typed(t) BY <2>6, <2>7, <2>8, RemovalIs
  <2>10. Less(s, t) BY <2>7, <2>9, LessTrans DEF Removed
  <2>11. Present(t) = Present(s) \ W BY <2>7, <2>9 DEF Removed
  <2>12. \A b : Reported(s, Me, b) /\ b \notin W => Reported(t, Me, b) BY <2>7, <2>9 DEF Removed
  <2>13. Removed(s, t, W) BY <2>10, <2>11, <2>12 DEF Removed
  <2>14. QED BY <2>9, <2>13 DEF t
<1> HIDE DEF S
<1>5. \A k \in Nat : k \in S BY <1>3, <1>4, NumberInduction
<1>6. Ok(V) BY <1>2, <1>5 DEF S
<1>7. QED BY <1>1, <1>6

(* We are reachable, and so is everybody we hear that is in the graph. *)
ReachStep(s, R) == R \cup {n \in Present(s) : \E m \in R : HasEdge(s, m, n) \/ HasEdge(s, n, m)}

LEMMA ReachRun ==
  ASSUME NEW s
  PROVE  \E f : /\ Reachable(s) = f[Cardinality(Ids)] /\ f[0] = {Me} \cap Present(s)
                /\ \A k \in 1..Cardinality(Ids) : f[k] = ReachStep(s, f[k - 1])
<1> DEFINE Step(R) == R \cup {n \in Present(s) : \E m \in R : HasEdge(s, m, n) \/ HasEdge(s, n, m)}
           A0 == {Me} \cap Present(s)
           Is(f, n) == f = [k \in 0..n |-> IF k = 0 THEN A0 ELSE Step(f[k - 1])]
           Runs == {n \in Nat : \E f : Is(f, n)}
           K == Cardinality(Ids)
<1>1. K \in Nat BY GraphSizes, FS_CardinalityType
<1> HIDE DEF K, Step, A0
<1>2. 0 \in Runs
  <2> DEFINE f == [k \in 0..0 |-> A0]
  <2>1. Is(f, 0) OBVIOUS
  <2>2. QED BY <2>1
<1>3. ASSUME NEW n \in Nat, n \in Runs PROVE n + 1 \in Runs
  <2>1. PICK f : Is(f, n) BY <1>3
  <2> DEFINE h == [k \in 0..n+1 |-> IF k = 0 THEN A0 ELSE Step(f[k - 1])]
             j == [k \in 0..n+1 |-> IF k = 0 THEN A0 ELSE Step(h[k - 1])]
  <2>2. \A k \in 0..n : h[k] = f[k]
    <3>1. \A k \in 0..n : f[k] = IF k = 0 THEN A0 ELSE Step(f[k - 1]) BY <2>1
    <3>2. QED BY <3>1
  <2>3. \A k \in 0..n+1 : h[k] = j[k]
    <3> TAKE k \in 0..n+1
    <3>1. CASE k = 0 BY <3>1
    <3>2. CASE k # 0
      <4>1. k - 1 \in 0..n BY <3>2
      <4>2. QED BY <4>1, <3>2, <2>2
    <3>3. QED BY <3>1, <3>2
  <2>4. h = j BY <2>3
  <2> HIDE DEF h
  <2>5. Is(h, n + 1) BY <2>4
  <2>6. QED BY <2>5
<1> HIDE DEF Runs
<1>4. K \in Runs BY <1>1, <1>2, <1>3, NumberInduction
<1>5. \E f : Is(f, K) BY <1>4 DEF Runs
<1> DEFINE r == CHOOSE f : Is(f, K)
<1>6. Is(r, K) BY <1>5
<1>7. Reachable(s) = r[K] BY DEF Reachable, K, Step, A0
<1> HIDE DEF r
<1>8. \A k \in 0..K : r[k] = IF k = 0 THEN A0 ELSE Step(r[k - 1]) BY <1>6
<1>9. r[0] = A0 BY <1>1, <1>8
<1>10. \A k \in 1..K : r[k] = Step(r[k - 1]) BY <1>1, <1>8
<1>11. \A k \in 1..K : r[k] = ReachStep(s, r[k - 1]) BY <1>10 DEF Step, ReachStep
<1>12. QED BY <1>7, <1>9, <1>11 DEF A0, K

LEMMA ReachableHas ==
  ASSUME NEW s, Me \in Present(s)
  PROVE  Me \in Reachable(s) /\ \A n \in Present(s) : HasEdge(s, Me, n) => n \in Reachable(s)
<1> DEFINE K == Cardinality(Ids)
<1>1. PICK f : /\ Reachable(s) = f[K] /\ f[0] = {Me} \cap Present(s)
               /\ \A k \in 1..K : f[k] = ReachStep(s, f[k - 1])
  BY ReachRun
<1>2. K \in Nat /\ K > 0
  <2>1. K \in Nat BY GraphSizes, FS_CardinalityType
  <2>2. K # 0 BY IdFacts, FS_EmptySet
  <2>3. QED BY <2>1, <2>2
<1> HIDE DEF K
<1> DEFINE S == {k \in 0..K : Me \in f[k] /\ (k > 0 => \A n \in Present(s) : HasEdge(s, Me, n) => n \in f[k])}
<1>3. 0 \in S BY <1>1, <1>2
<1>4. ASSUME NEW k \in 0 .. K - 1, k \in S PROVE k + 1 \in S
  <2>1. k + 1 \in 1..K /\ (k + 1) - 1 = k /\ k + 1 \in 0..K BY <1>2
  <2>2. f[k + 1] = ReachStep(s, f[k]) BY <1>1, <2>1
  <2>3. Me \in f[k] BY <1>4
  <2>4. Me \in f[k + 1] /\ \A n \in Present(s) : HasEdge(s, Me, n) => n \in f[k + 1] BY <2>2, <2>3 DEF ReachStep
  <2>5. QED BY <2>1, <2>4
<1> HIDE DEF S
<1>5. \A k \in 0..K : k \in S BY <1>2, <1>3, <1>4, UpTo
<1>6. K \in S BY <1>2, <1>5
<1>7. QED BY <1>1, <1>2, <1>6 DEF S

(* prune_unreachable_from_root keeps everybody we hear. *)
LEMMA PruneIs ==
  ASSUME NEW s, GInv(s), NEW now_
  PROVE  LET t == PruneUnreachable(s, now_)
         IN /\ Good(s, t) /\ Less(s, t)
            /\ \A n \in Ids : Reported(s, Me, n) /\ L1At(s, n) => Reported(t, Me, n) /\ L1At(t, n)
<1> DEFINE t == PruneUnreachable(s, now_)
           V == Present(s) \ Reachable(s)
<1>1. CASE Me \notin Present(s)
  <2>1. t = s BY <1>1 DEF PruneUnreachable
  <2> HIDE DEF t
  <2>2. QED BY <2>1, GoodRefl, LessSame DEF t, GInv, Typed
<1>2. CASE Me \in Present(s)
  <2>1. t = RemoveAll(s, V, now_) BY <1>2 DEF PruneUnreachable
  <2>2. Me \in Reachable(s) /\ \A n \in Present(s) : HasEdge(s, Me, n) => n \in Reachable(s) BY <1>2, ReachableHas
  <2>3. V \in SUBSET (Ids \ {Me}) BY <2>2 DEF GInv, Typed, Present
  <2>4. \A n \in Present(s) : Reported(s, Me, n) => n \notin V BY <2>2 DEF Reported
  <2> HIDE DEF t, V
  <2>5. Removed(s, t, V) BY <2>1, <2>3, RemoveAllIs DEF GInv
  <2>6. Less(s, t) /\ Present(t) = Present(s) \ V BY <2>5 DEF Removed
  <2>7. Shrink(s, t) BY <2>6, LessShrink DEF GInv
  <2>8. \A n \in Ids : Reported(t, Me, n) /\ n \in Present(s) => n \in Present(t) BY <2>4, <2>6, <2>7, ShrinkHeard
  <2>9. Good(s, t) BY <2>7, <2>8, GoodShrink
  <2>10. ASSUME NEW n \in Ids, Reported(s, Me, n), L1At(s, n) PROVE Reported(t, Me, n) /\ L1At(t, n)
    <3>1. n \in Present(s) BY <2>10 DEF L1At
    <3>2. n \notin V BY <3>1, <2>4, <2>10
    <3>3. Reported(t, Me, n) BY <3>2, <2>5, <2>10 DEF Removed
    <3>4. QED BY <3>3, <2>9, <2>10 DEF Good, Kept
  <2>11. QED BY <2>6, <2>9, <2>10 DEF t
<1>3. QED BY <1>1, <1>2

(* age_edges. *)
LEMMA AgeEdgesIs ==
  ASSUME NEW s, GInv(s), NEW now_
  PROVE  Good(s, AgeEdges(s, now_))
<1> DEFINE aged == AgedGraph(s, now_)
           gone == {n \in Present(aged) \ {Me} :
                      /\ ~Reported(aged, Me, n)
                      /\ \/ Age(now_, aged.node[n].full) > NEIGHBOR_TTL
                         \/ Out(aged, n) = {} /\ ~WithinDepth(aged.node[n].class)}
           left == RemoveAll(aged, gone, now_)
<1>1. AgeEdges(s, now_) = IF left.node = s.node THEN left ELSE PruneUnreachable(left, now_)
  BY DEF AgeEdges, AgedGraph
<1>2. Less(s, aged) /\ Present(aged) = Present(s) BY AgedIs DEF GInv
<1> HIDE DEF aged
<1>3. Shrink(s, aged) BY <1>2, LessShrink DEF GInv
<1>4. Good(s, aged) BY <1>2, <1>3, GoodShrink
<1>5. GInv(aged) BY <1>4 DEF Good
<1>6. gone \in SUBSET (Ids \ {Me}) BY <1>5 DEF GInv, Typed, Present
<1>7. \A n \in gone : ~Reported(aged, Me, n) OBVIOUS
<1> HIDE DEF gone
<1>8. Removed(aged, left, gone) BY <1>5, <1>6, RemoveAllIs DEF GInv
<1> HIDE DEF left
<1>9. Shrink(aged, left) BY <1>5, <1>8, LessShrink DEF Removed, GInv
<1>10. \A n \in Ids : Reported(left, Me, n) /\ n \in Present(aged) => n \in Present(left)
  BY <1>7, <1>8, <1>9, ShrinkHeard DEF Removed
<1>11. Good(aged, left) BY <1>5, <1>9, <1>10, GoodShrink
<1>12. Good(s, left) BY <1>4, <1>11, GoodTrans
<1>13. Good(left, PruneUnreachable(left, now_)) BY <1>11, PruneIs DEF Good
<1>14. Good(s, PruneUnreachable(left, now_)) BY <1>12, <1>13, GoodTrans
<1>15. QED BY <1>1, <1>12, <1>14

(* retract_direct_link: both directions go, the others stay. *)
LEMMA RetractIs ==
  ASSUME NEW s, GInv(s), NEW n \in Ids, NEW c \in BOOLEAN
  PROVE  LET t == Retract(s, n, c)
         IN /\ Good(s, t) /\ ~Reported(t, Me, n)
            /\ \A m \in Ids : m # n /\ Reported(s, Me, m) /\ L1At(s, m) => Reported(t, Me, m) /\ L1At(t, m)
<1> DEFINE t == Retract(s, n, c)
           u == RemoveEdge(s, Me, n)
           cut == RemoveEdge(u, n, Me)
<1>1. /\ Less(s, u) /\ Present(u) = Present(s) /\ ~HasEdge(u, Me, n)
      /\ \A x, y : HasEdge(s, x, y) /\ ~(x = Me /\ y = n) => HasEdge(u, x, y) /\ EdgeOf(u, x, y) = EdgeOf(s, x, y)
  BY RemoveEdgeIs DEF GInv
<1>2. t = IF c /\ HasEdge(s, Me, n) THEN PruneUnreachable(cut, 0) ELSE cut BY DEF Retract
<1> HIDE DEF u, t
<1>3. Shrink(s, u) BY <1>1, LessShrink DEF GInv
<1>4. /\ Less(u, cut) /\ Present(cut) = Present(u)
      /\ \A x, y : HasEdge(u, x, y) /\ ~(x = n /\ y = Me) => HasEdge(cut, x, y) /\ EdgeOf(cut, x, y) = EdgeOf(u, x, y)
  BY <1>3, RemoveEdgeIs DEF Shrink
<1> HIDE DEF cut
<1>5. Shrink(u, cut) BY <1>3, <1>4, LessShrink DEF Shrink
<1>6. Shrink(s, cut) BY <1>3, <1>5, ShrinkTrans
<1>7. Good(s, cut) BY <1>1, <1>4, <1>6, GoodShrink
<1>8. ~Reported(cut, Me, n)
  <2> SUFFICES ASSUME Reported(cut, Me, n) PROVE FALSE OBVIOUS
  <2>1. Reported(u, Me, n) BY <1>5, ShrinkHeard
  <2>2. QED BY <2>1, <1>1 DEF Reported
<1>9. ASSUME NEW m \in Ids, m # n, Reported(s, Me, m), L1At(s, m) PROVE Reported(cut, Me, m) /\ L1At(cut, m)
  <2>1. HasEdge(s, Me, m) /\ EdgeOf(s, Me, m).src = "Reported" BY <1>9 DEF Reported
  <2>2. m # Me BY <2>1, EdgeIs DEF GInv
  <2>3. HasEdge(u, Me, m) /\ EdgeOf(u, Me, m).src = "Reported" BY <2>1, <1>1, <1>9
  <2>4. HasEdge(cut, Me, m) /\ EdgeOf(cut, Me, m).src = "Reported" BY <2>2, <2>3, <1>4
  <2>5. Reported(cut, Me, m) BY <2>4 DEF Reported
  <2>6. QED BY <2>5, <1>7, <1>9 DEF Good, Kept
<1>10. CASE t = cut BY <1>7, <1>8, <1>9, <1>10 DEF t
<1>11. CASE t = PruneUnreachable(cut, 0)
  <2>1. /\ Good(cut, t)
        /\ \A m \in Ids : Reported(cut, Me, m) /\ L1At(cut, m) => Reported(t, Me, m) /\ L1At(t, m)
    BY <1>7, <1>11, PruneIs DEF Good
  <2>2. Good(s, t) BY <1>7, <2>1, GoodTrans
  <2>3. ~Reported(t, Me, n) BY <1>8, <2>1 DEF Good, Kept
  <2>4. QED BY <2>1, <2>2, <2>3, <1>9 DEF t
<1>12. QED BY <1>2, <1>10, <1>11

(* The links of silent publishers are retracted one after the other. *)
Retraction(s, n) == ClearDest(Retract(s, n, FALSE), n)
IsRetraction(f, s, V) ==
  /\ f[{}] = s
  /\ \A W \in SUBSET V : W # {} => \E v \in W : f[W] = Retraction(f[W \ {v}], v)

LEMMA RetractionRun ==
  ASSUME NEW s, NEW V \in SUBSET Ids, V = SilentPublishers(s)
  PROVE  \E f : IsRetraction(f, s, V) /\ RetractSilent(s) = f[V]
<1> DEFINE pick(W) == CHOOSE v \in W : TRUE
           Step(W, u) == ClearDest(Retract(u, pick(W), FALSE), pick(W))
           Dm(n) == {W \in SUBSET V : Cardinality(W) <= n}
           Is(f, n) == f = [W \in Dm(n) |-> IF W = {} THEN s ELSE Step(W, f[W \ {pick(W)}])]
           Runs == {n \in Nat : \E f : Is(f, n)}
           K == Cardinality(V)
<1>1. \A W \in SUBSET V : IsFiniteSet(W) /\ Cardinality(W) \in Nat BY CardIds
<1>2. \A W \in SUBSET V : W # {} => pick(W) \in W
  OBVIOUS
<1> HIDE DEF pick, Step
<1>3. \A W \in SUBSET V : W # {} => Cardinality(W \ {pick(W)}) = Cardinality(W) - 1
  BY <1>1, <1>2, FS_RemoveElement
<1>4. 0 \in Runs
  <2> DEFINE f == [W \in Dm(0) |-> s]
  <2>1. \A W \in Dm(0) : W = {} BY <1>1, FS_EmptySet
  <2>2. Is(f, 0) BY <2>1
  <2> HIDE DEF f
  <2>3. QED BY <2>2
<1>5. ASSUME NEW n \in Nat, n \in Runs PROVE n + 1 \in Runs
  <2>1. PICK f : Is(f, n) BY <1>5
  <2> DEFINE h == [W \in Dm(n + 1) |-> IF W = {} THEN s ELSE Step(W, f[W \ {pick(W)}])]
             j == [W \in Dm(n + 1) |-> IF W = {} THEN s ELSE Step(W, h[W \ {pick(W)}])]
  <2>2. \A W \in Dm(n) : W \in Dm(n + 1) BY <1>1
  <2>3. \A W \in Dm(n) : h[W] = f[W]
    <3>1. \A W \in Dm(n) : f[W] = IF W = {} THEN s ELSE Step(W, f[W \ {pick(W)}]) BY <2>1
    <3>2. QED BY <2>2, <3>1
  <2>4. \A W \in Dm(n + 1) : h[W] = j[W]
    <3> TAKE W \in Dm(n + 1)
    <3>1. CASE W = {} BY <3>1
    <3>2. CASE W # {}
      <4> DEFINE X == W \ {pick(W)}
      <4>1. X \in SUBSET V /\ Cardinality(X) = Cardinality(W) - 1 BY <1>3, <3>2
      <4>2. Cardinality(X) <= n BY <4>1, <1>1
      <4>3. X \in Dm(n) BY <4>1, <4>2
      <4>4. h[X] = f[X] BY <2>3, <4>3
      <4> HIDE DEF X, Dm
      <4>5. h[W] = Step(W, f[X]) /\ j[W] = Step(W, h[X]) BY <3>2 DEF X
      <4>6. QED BY <4>4, <4>5
    <3>3. QED BY <3>1, <3>2
  <2> HIDE DEF Dm
  <2>5. h = j BY <2>4
  <2> HIDE DEF h
  <2>6. Is(h, n + 1) BY <2>5
  <2>7. \E x : Is(x, n + 1) BY <2>6
  <2> HIDE DEF Is
  <2>8. QED BY <2>7
<1> HIDE DEF Runs
<1>6. K \in Nat BY <1>1
<1>7. K \in Runs BY <1>4, <1>5, <1>6, NumberInduction
<1>8. Dm(K) = SUBSET V
  <2>1. \A W \in SUBSET V : Cardinality(W) <= Cardinality(V)
    <3>1. IsFiniteSet(V) BY <1>1
    <3>2. QED BY <3>1, FS_Subset
  <2>2. QED BY <2>1
<1> DEFINE Fn(f) == f = [W \in SUBSET V |-> IF W = {} THEN s ELSE Step(W, f[W \ {pick(W)}])]
<1>9. \E f : Fn(f) BY <1>7, <1>8 DEF Runs
<1> DEFINE r == CHOOSE f : Fn(f)
<1>10. Fn(r) BY <1>9
<1>11. RetractSilent(s) = r[V] BY DEF RetractSilent, Step, pick
<1> HIDE DEF r
<1>12. \A W \in SUBSET V : r[W] = IF W = {} THEN s ELSE Step(W, r[W \ {pick(W)}]) BY <1>10
<1>13. r[{}] = s BY <1>12
<1>14. ASSUME NEW W \in SUBSET V, W # {} PROVE \E v \in W : r[W] = Retraction(r[W \ {v}], v)
  <2>1. r[W] = Step(W, r[W \ {pick(W)}]) BY <1>12, <1>14
  <2>2. r[W] = Retraction(r[W \ {pick(W)}], pick(W)) BY <2>1 DEF Step, Retraction
  <2>3. QED BY <2>2, <1>2, <1>14
<1>15. IsRetraction(r, s, V) BY <1>13, <1>14 DEF IsRetraction
<1>16. QED BY <1>11, <1>15


LEMMA RetractSilentIs ==
  ASSUME NEW s, GInv(s)
  PROVE  Good(s, RetractSilent(s))
<1> DEFINE V == SilentPublishers(s)
<1>0. V \in SUBSET Ids
  <2>1. \A n \in V : HasEdge(s, Me, n) BY DEF SilentPublishers, HasEdge
  <2>2. QED BY <2>1, EdgeIs DEF GInv
<1> HIDE DEF V
<1>1. PICK f : IsRetraction(f, s, V) /\ RetractSilent(s) = f[V] BY <1>0, RetractionRun DEF V
<1> DEFINE S == {n \in Nat : \A W \in SUBSET V : Cardinality(W) = n => Good(s, f[W])}
<1>2. \A W \in SUBSET V : IsFiniteSet(W) /\ Cardinality(W) \in Nat BY <1>0, CardIds
<1>3. 0 \in S
  <2>1. f[{}] = s BY <1>1 DEF IsRetraction
  <2>2. Good(s, f[{}]) BY <2>1, GoodRefl
  <2>4. \A W \in SUBSET V : Cardinality(W) = 0 => W = {} BY <1>2, FS_EmptySet
  <2>5. QED BY <2>2, <2>4
<1>4. ASSUME NEW k \in Nat, k \in S PROVE k + 1 \in S
  <2> SUFFICES ASSUME NEW W \in SUBSET V, Cardinality(W) = k + 1 PROVE Good(s, f[W]) OBVIOUS
  <2>1. W # {} BY FS_EmptySet
  <2>2. PICK v \in W : f[W] = Retraction(f[W \ {v}], v) BY <1>1, <2>1 DEF IsRetraction
  <2> DEFINE X == W \ {v}
             u == f[X]
             t == Retract(u, v, FALSE)
  <2>3. Cardinality(X) = k
    <3>1. IsFiniteSet(W) BY <1>2
    <3>2. Cardinality(X) = Cardinality(W) - 1 BY <3>1, FS_RemoveElement
    <3>3. QED BY <3>2
  <2>4. X \in SUBSET V OBVIOUS
  <2>5. Good(s, u) BY <1>4, <2>3, <2>4
  <2>6. v \in Ids BY <1>0
  <2>7. f[W] = ClearDest(t, v) BY <2>2 DEF Retraction
  <2> HIDE DEF u
  <2>8. Good(u, t) BY <2>5, <2>6, RetractIs DEF Good
  <2> HIDE DEF t
  <2>9. GInv(t) BY <2>8 DEF Good
  <2>10. DOMAIN f[W] = GraphFields /\ f[W].node = t.node BY <2>7, <2>9 DEF ClearDest, GInv, Typed, GraphFields
  <2> DEFINE z == f[W]
  <2> HIDE DEF z
  <2>11. Good(t, z) BY <2>9, <2>10, GoodNode DEF z
  <2>12. QED BY <2>5, <2>8, <2>11, GoodTrans DEF z
<1> HIDE DEF S
<1>5. \A k \in Nat : k \in S BY <1>3, <1>4, NumberInduction
<1>6. Good(s, f[V]) BY <1>2, <1>5 DEF S
<1>7. QED BY <1>1, <1>6

(* The entries of a list are merged one after the other. *)
IsMerging(f, s, h, V) ==
  /\ f[{}] = AdmitSender(s, h)
  /\ \A W \in SUBSET V : W # {} =>
       \E v \in W : f[W] = MergeEntry(f[W \ {v}], h.from, v, Reported(s, Me, h.from))

LEMMA MergingRun ==
  ASSUME NEW s, NEW h, NEW V, V = h.list, IsFiniteSet(V), \A e \in V : e.id \in Ids
  PROVE  \E f : IsMerging(f, s, h, V) /\ MergeEntries(s, h) = FlushPending(f[V], now)
<1> DEFINE A0 == AdmitSender(s, h)
           pick(W) == CHOOSE v \in W : \A w \in W : w.id <= v.id
           Step(W, u) == MergeEntry(u, h.from, pick(W), Reported(s, Me, h.from))
           Dm(n) == {W \in SUBSET V : Cardinality(W) <= n}
           Is(f, n) == f = [W \in Dm(n) |-> IF W = {} THEN A0 ELSE Step(W, f[W \ {pick(W)}])]
           Runs == {n \in Nat : \E f : Is(f, n)}
           K == Cardinality(V)
<1>1. \A W \in SUBSET V : IsFiniteSet(W) /\ Cardinality(W) \in Nat BY FS_Subset, FS_CardinalityType
<1>2. \A W \in SUBSET V : W # {} => pick(W) \in W
  <2> SUFFICES ASSUME NEW W \in SUBSET V, W # {} PROVE pick(W) \in W OBVIOUS
  <2>1. \E v \in W : \A w \in W : w.id <= v.id
    <3> DEFINE I == {e.id : e \in W}
    <3>1. I \in SUBSET Ids /\ I # {} OBVIOUS
    <3>2. PICK i \in I : \A j \in I : j <= i
      <4> HIDE DEF I
      <4>1. QED BY <3>1, Greatest
    <3>3. QED BY <3>2
  <2>2. QED BY <2>1
<1> HIDE DEF pick, Step, A0
<1>3. \A W \in SUBSET V : W # {} => Cardinality(W \ {pick(W)}) = Cardinality(W) - 1
  BY <1>1, <1>2, FS_RemoveElement
<1>4. 0 \in Runs
  <2> DEFINE f == [W \in Dm(0) |-> A0]
  <2>1. \A W \in Dm(0) : W = {} BY <1>1, FS_EmptySet
  <2>2. Is(f, 0) BY <2>1
  <2> HIDE DEF f
  <2>3. QED BY <2>2
<1>5. ASSUME NEW n \in Nat, n \in Runs PROVE n + 1 \in Runs
  <2>1. PICK f : Is(f, n) BY <1>5
  <2> DEFINE e == [W \in Dm(n + 1) |-> IF W = {} THEN A0 ELSE Step(W, f[W \ {pick(W)}])]
             j == [W \in Dm(n + 1) |-> IF W = {} THEN A0 ELSE Step(W, e[W \ {pick(W)}])]
  <2>2. \A W \in Dm(n) : W \in Dm(n + 1) BY <1>1
  <2>3. \A W \in Dm(n) : e[W] = f[W]
    <3>1. \A W \in Dm(n) : f[W] = IF W = {} THEN A0 ELSE Step(W, f[W \ {pick(W)}]) BY <2>1
    <3>2. QED BY <2>2, <3>1
  <2>4. \A W \in Dm(n + 1) : e[W] = j[W]
    <3> TAKE W \in Dm(n + 1)
    <3>1. CASE W = {} BY <3>1
    <3>2. CASE W # {}
      <4> DEFINE X == W \ {pick(W)}
      <4>1. X \in SUBSET V /\ Cardinality(X) = Cardinality(W) - 1 BY <1>3, <3>2
      <4>2. Cardinality(X) <= n BY <4>1, <1>1
      <4>3. X \in Dm(n) BY <4>1, <4>2
      <4>4. e[X] = f[X] BY <2>3, <4>3
      <4> HIDE DEF X, Dm
      <4>5. e[W] = Step(W, f[X]) /\ j[W] = Step(W, e[X]) BY <3>2 DEF X
      <4>6. QED BY <4>4, <4>5
    <3>3. QED BY <3>1, <3>2
  <2> HIDE DEF Dm
  <2>5. e = j BY <2>4
  <2> HIDE DEF e
  <2>6. Is(e, n + 1) BY <2>5
  <2>7. \E x : Is(x, n + 1) BY <2>6
  <2> HIDE DEF Is
  <2>8. QED BY <2>7
<1> HIDE DEF Runs
<1>6. K \in Nat BY <1>1
<1>7. K \in Runs BY <1>4, <1>5, <1>6, NumberInduction
<1>8. Dm(K) = SUBSET V
  <2>1. \A W \in SUBSET V : Cardinality(W) <= Cardinality(V)
    <3>1. IsFiniteSet(V) BY <1>1
    <3>2. QED BY <3>1, FS_Subset
  <2>2. QED BY <2>1
<1> DEFINE Fn(f) == f = [W \in SUBSET V |-> IF W = {} THEN A0 ELSE Step(W, f[W \ {pick(W)}])]
<1>9. \E f : Fn(f) BY <1>7, <1>8 DEF Runs
<1> DEFINE r == CHOOSE f : Fn(f)
<1>10. Fn(r) BY <1>9
<1>11. MergeEntries(s, h) = FlushPending(r[V], now) BY DEF MergeEntries, Step, pick, A0
<1> HIDE DEF r
<1>12. \A W \in SUBSET V : r[W] = IF W = {} THEN A0 ELSE Step(W, r[W \ {pick(W)}]) BY <1>10
<1>13. r[{}] = A0 BY <1>12
<1>14. ASSUME NEW W \in SUBSET V, W # {} PROVE \E v \in W : r[W] = MergeEntry(r[W \ {v}], h.from, v, Reported(s, Me, h.from))
  <2>1. r[W] = Step(W, r[W \ {pick(W)}]) BY <1>12, <1>14
  <2>2. r[W] = MergeEntry(r[W \ {pick(W)}], h.from, pick(W), Reported(s, Me, h.from)) BY <2>1 DEF Step
  <2>3. QED BY <2>2, <1>2, <1>14
<1>15. IsMerging(r, s, h, V) BY <1>13, <1>14 DEF IsMerging, A0
<1>16. QED BY <1>11, <1>15

(* What only touches the downstream table or the capabilities. *)
SameNode(s, t) == DOMAIN t = GraphFields /\ t.node = s.node

LEMMA SameNodes ==
  ASSUME NEW s, Typed(s)
  PROVE  /\ \A d : SameNode(s, ClearDest(s, d))
         /\ \A x : SameNode(s, [s EXCEPT !.ds = x])
         /\ \A x : SameNode(s, FlushPending(s, x))
         /\ \A n, rec, x : SameNode(s, PutCap(s, n, rec, x))
         /\ \A n, r, x : SameNode(s, TrackRole(s, n, r, x))
         /\ \A n, r, x : SameNode(s, TrackTopology(s, n, r, x))
         /\ \A x : SameNode(s, CapPrune(s, x))
         /\ SameNode(s, AgeDownstream(s))
<1>0. DOMAIN s = GraphFields BY DEF Typed
<1>1. \A d : SameNode(s, ClearDest(s, d)) BY <1>0 DEF SameNode, ClearDest, GraphFields
<1>2. \A x : SameNode(s, [s EXCEPT !.ds = x]) BY <1>0 DEF SameNode, GraphFields
<1>3. \A x : SameNode(s, FlushPending(s, x)) BY <1>0 DEF SameNode, FlushPending, ApplyDemotion, GraphFields
<1>4. \A n, rec, x : SameNode(s, PutCap(s, n, rec, x)) BY <1>0 DEF SameNode, PutCap, GraphFields
<1>5. \A n, r, x : SameNode(s, TrackRole(s, n, r, x))
  <2> TAKE n, r, x
  <2>1. CASE Publishes(s, n) BY <1>0, <2>1 DEF SameNode, TrackRole, GraphFields
  <2>2. CASE ~Publishes(s, n) BY <1>4, <2>2 DEF TrackRole
  <2>3. QED BY <2>1, <2>2
<1>6. \A n, r, x : SameNode(s, TrackTopology(s, n, r, x)) BY <1>4 DEF TrackTopology
<1>7. \A x : SameNode(s, CapPrune(s, x)) BY <1>0 DEF SameNode, CapPrune, GraphFields
<1>8. SameNode(s, AgeDownstream(s)) BY <1>0 DEF SameNode, AgeDownstream, GraphFields
<1>9. QED BY <1>1, <1>2, <1>3, <1>4, <1>5, <1>6, <1>7, <1>8

LEMMA GoodSame == ASSUME NEW s, GInv(s), NEW t, SameNode(s, t) PROVE Good(s, t) /\ Touch(s, t)
BY GoodNode DEF SameNode

LEMMA CandidateIn == ASSUME NEW s, NEW n PROVE ClassifyCandidate(s, n) \in Classes
BY DEF ClassifyCandidate, Classes

LEMMA AdmitSenderIs ==
  ASSUME NEW s, GInv(s), NEW h, h.from \in Ids, now \in Int
  PROVE  Good(s, AdmitSender(s, h))
<1> DEFINE t == AdmitSender(s, h)
<1>1. CASE t = s BY <1>1, GoodRefl
<1>2. CASE t # s
  <2>1. ~Reported(s, Me, h.from) BY <1>2 DEF AdmitSender
  <2>2. \E class \in Classes : \E hint : t = EnsurePublisher(s, h.from, class, hint, now).s
    <3> DEFINE l1 == NamesDirect(s, h)
               l2 == NamesClass(s, h, {"L2"})
               class == IF ClassifyCandidate(s, h.from) # "Unknown" THEN ClassifyCandidate(s, h.from)
                        ELSE IF GRAPH_MAX_DEPTH >= 3 /\ l2 # {} /\ l1 = {} THEN "L3" ELSE "L2"
               anchors == l1 \cup NamesClass(s, h, {"L1"} \cup IF GRAPH_MAX_DEPTH >= 3 THEN {"L2"} ELSE {})
               parent == IF HintOf(s, h.from) # NoNode THEN HintOf(s, h.from)
                         ELSE IF anchors = {} THEN NoNode ELSE CHOOSE n \in anchors : \A m \in anchors : n <= m
    <3>1. class \in Classes BY CandidateIn DEF Classes
    <3>2. t = EnsurePublisher(s, h.from, class, parent, now).s BY <1>2 DEF AdmitSender
    <3> HIDE DEF class, parent
    <3>3. QED BY <3>1, <3>2
  <2>3. PICK class, hint : class \in Classes /\ t = EnsurePublisher(s, h.from, class, hint, now).s BY <2>2
  <2> HIDE DEF t
  <2>4. Good(s, t) BY <2>1, <2>3, PublisherIs
  <2>5. QED BY <2>4 DEF t
<1>3. QED BY <1>1, <1>2

LEMMA AdmitListedIs ==
  ASSUME NEW s, GInv(s), NEW sender, NEW n \in Ids, NEW d, now \in Int
  PROVE  Good(s, AdmitListed(s, sender, n, d).s)
<1> DEFINE t == AdmitListed(s, sender, n, d).s
<1>1. CASE t = s BY <1>1, GoodRefl
<1>2. CASE ~Reported(s, Me, n) /\ t = EnsurePublisher(s, n, "L2", sender, now).s
  <2>1. "L2" \in Classes BY DEF Classes
  <2> HIDE DEF t
  <2>2. Good(s, t) BY <1>2, <2>1, PublisherIs
  <2>3. QED BY <2>2 DEF t
<1>3. CASE ~Reported(s, Me, n) /\ t = EnsurePublisher(s, n, "L3", sender, now).s
  <2>1. "L3" \in Classes BY DEF Classes
  <2> HIDE DEF t
  <2>2. Good(s, t) BY <1>3, <2>1, PublisherIs
  <2>3. QED BY <2>2 DEF t
<1>4. QED BY <1>1, <1>2, <1>3 DEF AdmitListed

LEMMA MergeEntryIs ==
  ASSUME NEW s, GInv(s), NEW from \in Ids \ {Me}, NEW e, e.id \in Ids \ {from},
         e.signal \in Signals \ {"none"}, NEW d, now \in Int
  PROVE  Good(s, MergeEntry(s, from, e, d))
<1> DEFINE r == MergeEntry(s, from, e, d)
           etx == CalculateEtx(e.signal)
           t1 == UpdateEdge(s, from, e.id, etx, now, "Mirrored")
           t2 == SetHears(t1, from, e.id, e.hears)
           t3 == SetHears(t2, e.id, from, TRUE)
           p == Placed(t3, from, e, d, HasEdge(s, from, e.id))
<1>1. r = s \/ r = p BY DEF MergeEntry, Listed
<1>2. etx \in Nat BY EtxIn
<1> HIDE DEF etx
<1>3. "Mirrored" \in Sources BY DEF Sources
<1>4. Updated(s, t1, from, e.id, "Mirrored") BY <1>2, <1>3, UpdateEdgeIs
<1>5. Good(s, t1) BY <1>4, GoodUpdated
<1> HIDE DEF t1
<1>6. Touch(t1, t2) BY <1>5, SetHearsTouch DEF Good, GInv
<1>7. Good(t1, t2) BY <1>5, <1>6, GoodTouch DEF Good
<1> HIDE DEF t2
<1>8. Touch(t2, t3) BY <1>7, SetHearsTouch DEF Good, GInv
<1>9. Good(t2, t3) BY <1>7, <1>8, GoodTouch DEF Good
<1>10. Good(s, t3) BY <1>5, <1>7, <1>9, GoodTrans
<1> HIDE DEF t3
<1>11. GInv(t3) BY <1>10 DEF Good
<1>12. Good(t3, p)
  <2> DEFINE had == HasEdge(s, from, e.id)
             adm == AdmitListed(t3, from, e.id, d)
             w == adm.s
  <2>1. Good(t3, w) BY <1>11, AdmitListedIs
  <2>2. p = t3 \/ p = ClearDest(t3, e.id) \/ p = ClearDest(w, e.id)
          \/ p = [t3 EXCEPT !.ds = DsUpdate(t3.ds, e.id, from, CalculateEtx(e.signal), now, had, TRUE)]
    BY DEF Placed, Behind
  <2> HIDE DEF w, p
  <2>3. CASE p = t3 BY <2>3, <1>11, GoodRefl
  <2>4. CASE p = ClearDest(t3, e.id) BY <2>4, <1>11, SameNodes, GoodSame DEF GInv
  <2>5. CASE p = ClearDest(w, e.id)
    <3>1. Good(w, p) BY <2>1, <2>5, SameNodes, GoodSame DEF GInv, Good
    <3>2. QED BY <2>1, <3>1, GoodTrans
  <2>6. CASE p = [t3 EXCEPT !.ds = DsUpdate(t3.ds, e.id, from, CalculateEtx(e.signal), now, had, TRUE)]
    <3> DEFINE x == DsUpdate(t3.ds, e.id, from, CalculateEtx(e.signal), now, had, TRUE)
    <3>1. p = [t3 EXCEPT !.ds = x] BY <2>6
    <3> HIDE DEF x
    <3>2. SameNode(t3, p) BY <3>1, <1>11, SameNodes DEF GInv
    <3>3. QED BY <3>2, <1>11, GoodSame
  <2>7. QED BY <2>2, <2>3, <2>4, <2>5, <2>6
<1> HIDE DEF p
<1>13. Good(s, p) BY <1>10, <1>12, GoodTrans
<1>14. Good(s, s) BY GoodRefl
<1> HIDE DEF r
<1>15. Good(s, r) BY <1>1, <1>13, <1>14
<1>16. QED BY <1>15 DEF r

(* A message that a publisher may have sent. *)
MsgOk(h) ==
  /\ h.from \in Real /\ IsFiniteSet(h.list)
  /\ \A e \in h.list : e.id \in Ids \ {h.from} /\ e.signal \in Signals \ {"none"}

LEMMA MergeEntriesIs ==
  ASSUME NEW s, GInv(s), NEW h, MsgOk(h), now \in Int
  PROVE  Good(s, MergeEntries(s, h))
<1> DEFINE V == h.list
           d == Reported(s, Me, h.from)
           n == h.from
<1>0. IsFiniteSet(V) /\ (\A e \in V : e.id \in Ids \ {n} /\ e.signal \in Signals \ {"none"})
      /\ n \in Ids \ {Me} BY IdFacts DEF MsgOk
<1>1. PICK f : IsMerging(f, s, h, V) /\ MergeEntries(s, h) = FlushPending(f[V], now) BY <1>0, MergingRun
<1>1a. f[{}] = AdmitSender(s, h) /\ \A W \in SUBSET V : W # {} => \E v \in W : f[W] = MergeEntry(f[W \ {v}], n, v, d)
  BY <1>1 DEF IsMerging
<1>1b. Good(s, AdmitSender(s, h)) BY <1>0, AdmitSenderIs
<1>1c. MergeEntries(s, h) = FlushPending(f[V], now) BY <1>1
<1> HIDE DEF V, d, n
<1> DEFINE S == {k \in Nat : \A W \in SUBSET V : Cardinality(W) = k => Good(s, f[W])}
<1>2. \A W \in SUBSET V : IsFiniteSet(W) /\ Cardinality(W) \in Nat BY <1>0, FS_Subset, FS_CardinalityType
<1>3. 0 \in S
  <2>2. Good(s, f[{}]) BY <1>1a, <1>1b
  <2>4. \A W \in SUBSET V : Cardinality(W) = 0 => W = {} BY <1>2, FS_EmptySet
  <2>5. QED BY <2>2, <2>4
<1>4. ASSUME NEW k \in Nat, k \in S PROVE k + 1 \in S
  <2> SUFFICES ASSUME NEW W \in SUBSET V, Cardinality(W) = k + 1 PROVE Good(s, f[W]) OBVIOUS
  <2>1. W # {} BY FS_EmptySet
  <2>2. PICK v \in W : f[W] = MergeEntry(f[W \ {v}], n, v, d) BY <1>1a, <2>1
  <2> DEFINE X == W \ {v}
             u == f[X]
  <2>3. Cardinality(X) = k
    <3>1. IsFiniteSet(W) BY <1>2
    <3>2. Cardinality(X) = Cardinality(W) - 1 BY <3>1, FS_RemoveElement
    <3>3. QED BY <3>2
  <2>4. X \in SUBSET V OBVIOUS
  <2>5. Good(s, u) BY <1>4, <2>3, <2>4
  <2>6. v \in V OBVIOUS
  <2> HIDE DEF u
  <2>7. Good(u, MergeEntry(u, n, v, d)) BY <1>0, <2>5, <2>6, MergeEntryIs DEF Good
  <2>8. Good(s, MergeEntry(u, n, v, d)) BY <2>5, <2>7, GoodTrans
  <2>9. QED BY <2>2, <2>8 DEF u
<1> HIDE DEF S
<1>5. \A k \in Nat : k \in S BY <1>3, <1>4, NumberInduction
<1>6. Good(s, f[V]) BY <1>2, <1>5 DEF S
<1> DEFINE z == f[V]
<1> HIDE DEF z
<1>7. Good(s, z) BY <1>6 DEF z
<1>8. Good(z, FlushPending(z, now)) BY <1>7, SameNodes, GoodSame DEF GInv, Good
<1>9. Good(s, FlushPending(z, now)) BY <1>7, <1>8, GoodTrans
<1>10. QED BY <1>9, <1>1c DEF z

LEMMA WholeListIs ==
  ASSUME NEW s, GInv(s), NEW n, NEW ids
  PROVE  Good(s, ApplyWholeList(s, n, ids))
<1> DEFINE u == ClearHearsToUnlisted(s, n, ids)
           kept == RetainListed(u, n, ids)
<1>1. Good(s, u) BY ClearHearsTouch, GoodTouch DEF GInv
<1> HIDE DEF u
<1>2. Less(u, kept) /\ Present(kept) = Present(u) BY <1>1, RetainListedIs DEF Good, GInv
<1>3. ApplyWholeList(s, n, ids) = IF Out(kept, n) = Out(s, n) THEN kept ELSE PruneUnreachable(kept, now)
  BY DEF ApplyWholeList, u
<1> HIDE DEF kept
<1>4. Shrink(u, kept) BY <1>1, <1>2, LessShrink DEF Good, GInv
<1>5. Good(u, kept) BY <1>1, <1>2, <1>4, GoodShrink DEF Good
<1>6. Good(s, kept) BY <1>1, <1>5, GoodTrans
<1>7. Good(kept, PruneUnreachable(kept, now)) BY <1>6, PruneIs DEF Good
<1>8. Good(s, PruneUnreachable(kept, now)) BY <1>6, <1>7, GoodTrans
<1>9. QED BY <1>3, <1>6, <1>8

LEMMA HearsFromListTouch ==
  ASSUME NEW s, Typed(s), NEW h
  PROVE  Touch(s, HearsFromList(s, h))
<1>1. Touch(s, SetHears(s, h.from, Me, TRUE)) BY SetHearsTouch
<1>2. Touch(s, s) BY TouchNode DEF Typed
<1>3. QED BY <1>1, <1>2 DEF HearsFromList

(* More is known: of the nodes of N, that we hear them. *)
Grown(s, t, N) ==
  GInv(t) /\ KeepsL1(s, t) /\ HeardIn(s, t, N) /\ (Stuck(s) => Stuck(t)) /\ Lk(s, t, {})

LEMMA GrownTrans == ASSUME NEW s, NEW u, NEW t, NEW N, Grown(s, u, N), Grown(u, t, N) PROVE Grown(s, t, N)
<1>1. Lk(s, t, {}) BY LkTrans DEF Grown
<1>2. QED BY <1>1 DEF Grown, KeepsL1, HeardIn

LEMMA GrownMore == ASSUME NEW s, NEW t, NEW N, Grown(s, t, {}) PROVE Grown(s, t, N)
BY DEF Grown, HeardIn

LEMMA GrownTouch == ASSUME NEW s, GInv(s), NEW t, Touch(s, t), NEW N PROVE Grown(s, t, N)
<1>1. Good(s, t) /\ KeepsL1(s, t) /\ (Stuck(s) => Stuck(t)) BY GoodTouch, TouchSame
<1>2. HeardIn(s, t, N) BY <1>1 DEF Good, Kept, HeardIn
<1>3. Lk(s, t, {}) BY LkTouch
<1>4. QED BY <1>1, <1>2, <1>3 DEF Grown, Good

LEMMA GrownRefl == ASSUME NEW s, GInv(s), NEW N PROVE Grown(s, s, N)
BY LkRefl DEF Grown, KeepsL1, HeardIn

LEMMA GrownFound ==
  ASSUME NEW s, GInv(s), NEW now_ \in Int, NEW N
  PROVE  Grown(s, FindOrCreate(s, Me, now_), N)
<1> DEFINE t == FindOrCreate(s, Me, now_)
<1>1. Good(s, t) /\ Found(s, t, Me) BY GoodFound
<1> HIDE DEF t
<1>2. Stuck(s) => Stuck(t) BY <1>1, StuckFound
<1>3. Grown(s, t, {}) BY <1>1, <1>2 DEF Grown, Good, Found
<1>4. QED BY <1>3, GrownMore DEF t

LEMMA GrownUpdated ==
  ASSUME NEW s, NEW t, NEW a, NEW b, NEW src, Updated(s, t, a, b, src), Me \in {a, b}, NEW N,
         src = "Reported" => b \in N
  PROVE  Grown(s, t, N)
BY DEF Updated, Grown, HeardIn

(* refresh_reported_direct_neighbor. *)
LEMMA RefreshIs ==
  ASSUME NEW s, GInv(s), NEW n \in Real, NEW etx \in Nat, now \in Int
  PROVE  LET t == RefreshDirect(s, n, etx) IN Grown(s, t, {n}) /\ (L1At(t, n) \/ Stuck(t))
<1> DEFINE u0 == FindOrCreate(s, Me, now)
           u1 == UpdateEdge(u0, Me, n, etx, now, "Reported")
           u2 == UpdateEdge(u1, n, Me, etx, now, "Inferred")
           t == HeardNow(u2, n)
<1>0. n \in Ids \ {Me} /\ Me \in Ids \ {n} /\ "Reported" \in Sources /\ "Inferred" \in Sources
  BY IdFacts DEF Sources
<1>1. RefreshDirect(s, n, etx) = t BY DEF RefreshDirect
<1>2. Grown(s, u0, {n}) BY GrownFound
<1> HIDE DEF u0
<1>3. Updated(u0, u1, Me, n, "Reported") BY <1>0, <1>2, UpdateEdgeIs DEF Grown
<1>4. Grown(u0, u1, {n}) BY <1>3, GrownUpdated
<1>5. L1At(u1, n) \/ Stuck(u1) BY <1>3 DEF Updated
<1> HIDE DEF u1
<1>6. Updated(u1, u2, n, Me, "Inferred") BY <1>0, <1>4, UpdateEdgeIs DEF Grown
<1>7. Grown(u1, u2, {n}) BY <1>6, GrownUpdated
<1> HIDE DEF u2
<1>8. Touch(u2, t) BY <1>7, HeardNowTouch DEF Grown, GInv
<1>9. Grown(u2, t, {n}) BY <1>7, <1>8, GrownTouch DEF Grown
<1> HIDE DEF t
<1>10. Grown(u1, t, {n}) BY <1>7, <1>9, GrownTrans
<1>11. Grown(s, t, {n}) BY <1>2, <1>4, <1>10, GrownTrans
<1>12. L1At(t, n) \/ Stuck(t) BY <1>0, <1>5, <1>10 DEF Grown, KeepsL1
<1>13. QED BY <1>1, <1>11, <1>12

(* One step: who is heard before and after it stays in the graph; the cache *)
(* is emptied or no link is lost.                                           *)
StepOk(s, t) ==
  GInv(t) /\ \A n \in Ids : Reported(s, Me, n) /\ L1At(s, n) /\ Reported(t, Me, n) => L1At(t, n)

LEMMA StepGood == ASSUME NEW s, NEW t, Good(s, t) PROVE StepOk(s, t)
BY DEF StepOk, Good, Kept

LEMMA StepGrown == ASSUME NEW s, NEW t, NEW N, Grown(s, t, N) PROVE StepOk(s, t)
BY DEF StepOk, Grown, KeepsL1

LEMMA StepGrownGood == ASSUME NEW s, NEW u, NEW t, NEW N, Grown(s, u, N), Good(u, t) PROVE StepOk(s, t)
BY DEF StepOk, Grown, Good, KeepsL1, Kept

LEMMA ResolvedIs ==
  ASSUME NEW s, GInv(s), NEW n \in Real, now \in Int, PlaceholderFor(Low(n)) \in Present(s)
  PROVE  \E u : Grown(s, u, {n}) /\ Good(u, ResolvedGraph(s, n))
<1> DEFINE ph == PlaceholderFor(Low(n))
           u0 == FindOrCreate(s, Me, now)
           u1 == TakeLink(u0, ph, n)
           x == ClearForDest(Transfer(u1.ds, ph, n, now), ph)
           u2 == [u1 EXCEPT !.ds = x]
           t == RemoveNode(u2, ph)
<1>1. ph \notin Real \cup {Me} BY PlaceholderIds
<1>2. ResolvedGraph(s, n) = t BY DEF ResolvedGraph, TakeDownstream
<1> HIDE DEF ph
<1>3. Grown(s, u0, {n}) BY GrownFound
<1> HIDE DEF u0
<1>4. Grown(u0, u1, {n})
  <2>1. CASE ~HasEdge(u0, Me, ph) BY <2>1, <1>3, GrownRefl DEF TakeLink, Grown
  <2>2. CASE HasEdge(u0, Me, ph)
    <3> DEFINE etx == EdgeOf(u0, Me, ph).etx
               w == UpdateEdge(u0, Me, n, etx, now, "Reported")
               b == Hears(u0, Me, ph) \/ Hears(u0, Me, n)
    <3>1. etx \in Nat BY <1>3, <2>2, EdgeIs DEF EdgeOk, Grown, GInv
    <3>2. u1 = SetHears(w, Me, n, b) BY <2>2 DEF TakeLink
    <3> HIDE DEF etx, b, u1
    <3>3. n \in Ids \ {Me} /\ Me \in Ids /\ "Reported" \in Sources BY IdFacts DEF Sources
    <3>4. Updated(u0, w, Me, n, "Reported") BY <1>3, <3>1, <3>3, UpdateEdgeIs DEF Grown
    <3>5. Grown(u0, w, {n}) BY <3>4, GrownUpdated
    <3> HIDE DEF w
    <3>6. Touch(w, u1) BY <3>2, <3>5, SetHearsTouch DEF Grown, GInv
    <3>7. Grown(w, u1, {n}) BY <3>5, <3>6, GrownTouch DEF Grown
    <3>8. QED BY <3>5, <3>7, GrownTrans
  <2>3. QED BY <2>1, <2>2
<1> HIDE DEF u1, x
<1>5. Grown(s, u1, {n}) BY <1>3, <1>4, GrownTrans
<1>6. SameNode(u1, u2) BY <1>5, SameNodes DEF Grown, GInv
<1>7. Good(u1, u2) BY <1>5, <1>6, GoodSame DEF Grown
<1> HIDE DEF u2
<1>8. Removed(u2, t, {ph}) BY <1>1, <1>7, RemoveNodeIs DEF Good, GInv
<1> HIDE DEF t
<1>9. Shrink(u2, t) BY <1>7, <1>8, LessShrink DEF Good, GInv, Removed
<1>10. \A m \in Ids : Reported(t, Me, m) /\ m \in Present(u2) => m \in Present(t)
  <2> SUFFICES ASSUME NEW m \in Ids, Reported(t, Me, m), m \in Present(u2) PROVE m \in Present(t) OBVIOUS
  <2>1. Reported(u2, Me, m) BY <1>9, ShrinkHeard
  <2>2. m \in Real BY <2>1, <1>7 DEF Good, GInv, HeardOk
  <2>3. QED BY <2>2, <1>1, <1>8 DEF Removed
<1>11. Good(u2, t) BY <1>7, <1>9, <1>10, GoodShrink DEF Good
<1>12. Good(u1, t) BY <1>7, <1>11, GoodTrans
<1>13. QED BY <1>2, <1>5, <1>12

CacheOk(c, s) == \A r \in c : r.next # NoNode => r.next \in Ids /\ (Linked(s, r.next) \/ Crowded(s))

LEMMA CacheKept == ASSUME NEW c, NEW s, NEW t, CacheOk(c, s), Lk(s, t, {}) PROVE CacheOk(c, t)
BY DEF CacheOk, Lk

LEMMA CacheEmpty == ASSUME NEW s PROVE CacheOk({}, s)
BY DEF CacheOk

Sound(s, c, t, d) == StepOk(s, t) /\ (CacheOk(c, s) => CacheOk(d, t))

LEMMA SoundGrown == ASSUME NEW s, NEW t, NEW N, Grown(s, t, N), NEW c PROVE Sound(s, c, t, c)
<1>1. StepOk(s, t) BY StepGrown
<1>2. CacheOk(c, s) => CacheOk(c, t) BY CacheKept DEF Grown
<1>3. QED BY <1>1, <1>2 DEF Sound

LEMMA SoundEmpty == ASSUME NEW s, NEW t, StepOk(s, t), NEW c PROVE Sound(s, c, t, {})
BY CacheEmpty DEF Sound

LEMMA ObserveDirectOk ==
  ASSUME GInv(g), now \in Int, NEW n \in Real, NEW signal \in Signals, NEW id, NEW names \in BOOLEAN,
         NEW resolves \in BOOLEAN, ObserveDirect(n, signal, id, names, resolves)
  PROVE  Sound(g, cache, g', cache')
<1>1. PICK s1, confirms, s2, found :
        /\ s1 = Measuring(g, n, signal)
        /\ confirms = (names /\ HasEdge(s1, Me, n) /\ ~Hears(s1, Me, n))
        /\ s2 = Activity(IF confirms THEN SetHears(s1, Me, n, TRUE) ELSE s1, {n})
        /\ found = (resolves /\ PlaceholderFor(Low(n)) \in Present(s2))
        /\ g' = IF found THEN ResolvedGraph(s2, n) ELSE s2
        /\ cache' = IF (signal # "none" /\ EdgeChanged(g, s1, Me, n)) \/ confirms \/ found
                    THEN {} ELSE cache
  BY ZenonT(40) DEF ObserveDirect
<1> DEFINE w == IF confirms THEN SetHears(s1, Me, n, TRUE) ELSE s1
<1>2. Grown(g, s1, {n})
  <2>1. CASE signal = "none" BY <1>1, <2>1, GrownRefl DEF Measuring
  <2>2. CASE signal # "none"
    <3> DEFINE etx == CalculateEtx(signal)
               u == RefreshDirect(g, n, etx)
    <3>1. etx \in Nat BY <2>2, EtxIn
    <3>2. s1 = ClearDest(u, n) BY <1>1, <2>2 DEF Measuring
    <3> HIDE DEF etx
    <3>3. Grown(g, u, {n}) BY <3>1, RefreshIs
    <3> HIDE DEF u
    <3>4. Touch(u, s1) BY <3>2, <3>3, SameNodes, GoodSame DEF Grown, GInv
    <3>5. Grown(u, s1, {n}) BY <3>3, <3>4, GrownTouch DEF Grown
    <3>6. QED BY <3>3, <3>5, GrownTrans
  <2>3. QED BY <2>1, <2>2
<1>3. Grown(s1, w, {n})
  <2>1. Touch(s1, SetHears(s1, Me, n, TRUE)) BY <1>2, SetHearsTouch DEF Grown, GInv
  <2>2. Grown(s1, SetHears(s1, Me, n, TRUE), {n}) BY <1>2, <2>1, GrownTouch DEF Grown
  <2>3. Grown(s1, s1, {n}) BY <1>2, GrownRefl DEF Grown
  <2>4. QED BY <2>2, <2>3
<1> HIDE DEF w
<1>4. Touch(w, s2) BY <1>1, <1>3, ActivityTouch DEF Grown, GInv, w
<1>5. Grown(w, s2, {n}) BY <1>3, <1>4, GrownTouch DEF Grown
<1>6. Grown(g, s2, {n}) BY <1>2, <1>3, <1>5, GrownTrans
<1>7. CASE found
  <2>1. PICK u : Grown(s2, u, {n}) /\ Good(u, g')
    <3>1. g' = ResolvedGraph(s2, n) /\ PlaceholderFor(Low(n)) \in Present(s2) BY <1>1, <1>7
    <3>2. QED BY <1>6, <3>1, ResolvedIs DEF Grown
  <2>2. StepOk(g, g') BY <1>6, <2>1, GrownTrans, StepGrownGood
  <2>3. QED BY <1>1, <1>7, <2>2, SoundEmpty
<1>8. CASE ~found
  <2>1. g' = s2 /\ (cache' = {} \/ cache' = cache) BY <1>1, <1>8
  <2>2. Sound(g, cache, s2, cache) BY <1>6, SoundGrown
  <2>3. Sound(g, cache, s2, {}) BY <1>6, StepGrown, SoundEmpty
  <2>4. QED BY <2>1, <2>2, <2>3
<1>9. QED BY <1>7, <1>8

(* The sender that is no longer heard is let go, the others stay. *)
LetGoOk(s, t, from, travelling) ==
  /\ GInv(t) /\ HeardIn(s, t, {})
  /\ \A n \in Ids : Reported(s, Me, n) /\ L1At(s, n) /\ (n # from \/ ~travelling) => L1At(t, n)
  /\ travelling => ~Reported(t, Me, from)
  /\ ~travelling => Grown(s, t, {})

LEMMA LetGoIs ==
  ASSUME NEW s, GInv(s), NEW from \in Ids, NEW b \in BOOLEAN, now \in Int
  PROVE  LetGoOk(s, LetGo(s, from, b), from, b)
<1> DEFINE u == IF b THEN Retract(s, from, TRUE) ELSE s
           t == FindOrCreate(u, Me, now)
<1>1. t = LetGo(s, from, b) BY DEF LetGo
<1>2. /\ Good(s, u) /\ (b => ~Reported(u, Me, from)) /\ (~b => u = s)
      /\ \A n \in Ids : Reported(s, Me, n) /\ L1At(s, n) /\ (n # from \/ ~b) => L1At(u, n)
  <2>1. CASE b
    <3>1. u = Retract(s, from, TRUE) BY <2>1
    <3> HIDE DEF u
    <3>2. /\ Good(s, u) /\ ~Reported(u, Me, from)
          /\ \A m \in Ids : m # from /\ Reported(s, Me, m) /\ L1At(s, m) => Reported(u, Me, m) /\ L1At(u, m)
      BY <3>1, RetractIs
    <3>3. QED BY <3>2, <2>1
  <2>2. CASE ~b BY <2>2, GoodRefl
  <2>3. QED BY <2>1, <2>2
<1> HIDE DEF u
<1>3. Grown(u, t, {}) BY <1>2, GrownFound DEF Good
<1>4. HeardIn(s, t, {}) BY <1>2, <1>3 DEF Good, Kept, Grown, HeardIn
<1>5. b => ~Reported(t, Me, from) BY <1>2, <1>3 DEF Grown, HeardIn
<1>6. \A n \in Ids : Reported(s, Me, n) /\ L1At(s, n) /\ (n # from \/ ~b) => L1At(t, n)
  BY <1>2, <1>3 DEF Grown, KeepsL1
<1>7. LetGoOk(s, t, from, b) BY <1>2, <1>3, <1>4, <1>5, <1>6 DEF LetGoOk, Grown
<1>8. QED BY <1>1, <1>7

LEMMA ObserveRelayedOk ==
  ASSUME GInv(g), now \in Int, NEW from \in Real, NEW byte \in Bytes, NEW known \in {NoNode} \cup Real,
         NEW hops, NEW signal \in Signals, NEW id, ObserveRelayed(from, byte, known, hops, signal, id)
  PROVE  Sound(g, cache, g', cache')
<1>1. signal # "none" BY DEF ObserveRelayed
<1>2. PICK gw, etx, travelling, s1, s2, s3, s4, s5 :
        /\ gw = GatewayFor(from, byte, known) /\ etx = CalculateEtx(signal)
        /\ travelling = (Reported(g, Me, from) /\ ~HasTransmitted(from, from, id))
        /\ s1 = LetGo(g, from, travelling) /\ s2 = GatewayHeard(s1, gw, etx)
        /\ s3 = GatewayInfers(s2, gw, from) /\ s4 = UpdateEdge(s3, Me, gw, etx, now, "Mirrored")
        /\ s5 = Confirmed(s4, gw, from, id)
        /\ g' = Activity(NoteBehind(s5, from, gw, hops, travelling), Witnessed(from, byte, known))
        /\ cache' = IF \/ travelling \/ NewWay(s5, from, gw, hops, travelling) \/ s5 # s4
                       \/ EdgeChanged(s3, s4, Me, gw) \/ EdgeChanged(s2, s3, gw, from)
                    THEN {} ELSE cache
  BY SMTT(40) DEF ObserveRelayed
<1> DEFINE s6 == NoteBehind(s5, from, gw, hops, travelling)
           N == Witnessed(from, byte, known)
<1> HIDE DEF N
<1>3. PlaceholderFor(byte) \in Placeholders
  <2>1. PICK n \in Placeholders : byte = Low(n) BY DEF Bytes
  <2>2. QED BY <2>1, PlaceholderIds
<1>4. gw \in Placeholders \/ gw \in Real \ {from} BY <1>2, <1>3 DEF GatewayFor
<1>5. gw \in Ids /\ gw # Me /\ gw # from /\ from \in Ids /\ from # Me BY <1>4, IdFacts
<1>6. etx \in Nat BY <1>1, <1>2, EtxIn
<1>7. travelling \in BOOLEAN BY <1>2 DEF Reported, HasEdge
<1>8. cache' = {} \/ (cache' = cache /\ ~travelling /\ ~EdgeChanged(s2, s3, gw, from)) BY <1>2
<1>9. cache' = {} \/ (cache' = cache /\ ~travelling /\ ~EdgeNew(s2, s3, gw, from))
  BY <1>8 DEF EdgeNew, EdgeChanged
<1>10. LetGoOk(g, s1, from, travelling) BY <1>2, <1>5, <1>7, LetGoIs
<1>11. GInv(s1) BY <1>10 DEF LetGoOk
<1>12. Grown(s1, s2, {gw}) /\ (gw \in Real => L1At(s2, gw) \/ Stuck(s2))
  <2>1. CASE gw \in Placeholders
    <3>1. s2 = s1 BY <1>2, <2>1 DEF GatewayHeard
    <3>2. QED BY <2>1, <3>1, <1>11, GrownRefl, IdFacts
  <2>2. CASE gw \notin Placeholders
    <3> DEFINE u == RefreshDirect(s1, gw, etx)
    <3>1. s2 = ClearIfNew(s1, u, gw) BY <1>2, <2>2 DEF GatewayHeard
    <3>2. Grown(s1, u, {gw}) /\ (L1At(u, gw) \/ Stuck(u)) BY <2>2, <1>4, <1>6, <1>11, RefreshIs
    <3> HIDE DEF u
    <3>3. Touch(u, ClearDest(u, gw)) BY <3>2, SameNodes, GoodSame DEF Grown, GInv
    <3>4. Grown(u, ClearDest(u, gw), {gw}) BY <3>2, <3>3, GrownTouch DEF Grown
    <3>5. Grown(u, u, {gw}) BY <3>2, GrownRefl DEF Grown
    <3>6. Grown(u, s2, {gw}) BY <3>1, <3>4, <3>5 DEF ClearIfNew
    <3>7. Grown(s1, s2, {gw}) BY <3>2, <3>6, GrownTrans
    <3>8. L1At(s2, gw) \/ Stuck(s2) BY <3>2, <3>6, <1>5 DEF Grown, KeepsL1
    <3>9. QED BY <3>7, <3>8
  <2>3. QED BY <2>1, <2>2
<1>13. /\ GInv(s3) /\ KeepsL1(s2, s3) /\ HeardIn(s2, s3, {}) /\ (Stuck(s2) => Stuck(s3))
       /\ Lk(s2, s3, {}) \/ EdgeNew(s2, s3, gw, from)
  <2> DEFINE x == CalculateEtx("fair")
             u == UpdateEdge(s2, gw, from, x, now, "Inferred")
  <2>1. x \in Nat BY EtxIn DEF Signals
  <2>2. s3 = u \/ s3 = s2 BY <1>2 DEF GatewayInfers
  <2> HIDE DEF x
  <2>3. "Inferred" \in Sources BY DEF Sources
  <2>4. Updated(s2, u, gw, from, "Inferred") BY <1>5, <1>12, <2>1, <2>3, UpdateEdgeIs DEF Grown
  <2>5. /\ GInv(u) /\ KeepsL1(s2, u) /\ HeardIn(s2, u, {}) /\ (Stuck(s2) => Stuck(u))
        /\ Lk(s2, u, {}) \/ EdgeNew(s2, u, gw, from)
    BY <2>4 DEF Updated
  <2>6. Grown(s2, s2, {}) BY <1>12, GrownRefl DEF Grown
  <2>7. QED BY <2>2, <2>5, <2>6 DEF Grown
<1>14. Updated(s3, s4, Me, gw, "Mirrored")
  <2>1. Reported(s3, Me, gw) => gw \in Present(s3) \/ Stuck(s3)
    <3> SUFFICES ASSUME Reported(s3, Me, gw) PROVE gw \in Present(s3) \/ Stuck(s3) OBVIOUS
    <3>1. gw \in Real BY <1>5, <1>13 DEF GInv, HeardOk
    <3>2. L1At(s3, gw) \/ Stuck(s3) BY <3>1, <1>5, <1>12, <1>13 DEF KeepsL1
    <3>3. QED BY <3>2 DEF L1At
  <2>2. "Mirrored" \in Sources /\ gw \in Ids \ {Me} /\ Me \in Ids BY <1>5, IdFacts DEF Sources
  <2>3. QED BY <1>2, <1>6, <1>13, <2>1, <2>2, UpdateEdgeIs
<1>15. Grown(s3, s4, {}) BY <1>14, GrownUpdated
<1>16. Grown(s4, s5, {})
  <2>1. Touch(s4, SetHears(s4, Me, gw, TRUE)) BY <1>15, SetHearsTouch DEF Grown, GInv
  <2>2. Grown(s4, SetHears(s4, Me, gw, TRUE), {}) BY <1>15, <2>1, GrownTouch DEF Grown
  <2>3. Grown(s4, s4, {}) BY <1>15, GrownRefl DEF Grown
  <2>4. QED BY <1>2, <2>2, <2>3 DEF Confirmed
<1>17. Touch(s5, s6)
  <2>1. s6 = s5 \/ \E ds : s6 = [s5 EXCEPT !.ds = ds] BY DEF NoteBehind
  <2> HIDE DEF s6
  <2>2. Typed(s5) BY <1>16 DEF Grown, GInv
  <2>3. SameNode(s5, s6)
    <3>1. CASE s6 = s5 BY <2>2, <3>1 DEF SameNode, Typed
    <3>2. CASE s6 # s5 BY <2>1, <2>2, <3>2, SameNodes
    <3>3. QED BY <3>1, <3>2
  <2>4. QED BY <1>16, <2>3, GoodSame DEF Grown
<1>18. Grown(s5, s6, {}) BY <1>16, <1>17, GrownTouch DEF Grown
<1> HIDE DEF s6
<1>19. Touch(s6, Activity(s6, N)) BY <1>18, ActivityTouch DEF Grown, GInv
<1>20. Grown(s6, Activity(s6, N), {}) BY <1>18, <1>19, GrownTouch DEF Grown
<1> DEFINE t == Activity(s6, N)
<1> HIDE DEF t
<1>21. Grown(s3, t, {}) BY <1>15, <1>16, <1>18, <1>20, GrownTrans DEF t
<1>22. KeepsL1(s1, t) /\ HeardIn(s1, t, {gw}) BY <1>12, <1>13, <1>21 DEF Grown, KeepsL1, HeardIn
<1>23. ASSUME NEW n \in Ids, Reported(g, Me, n), L1At(g, n), Reported(t, Me, n) PROVE L1At(t, n)
  <2>1. CASE n # from \/ ~travelling BY <2>1, <1>10, <1>22, <1>23 DEF LetGoOk, KeepsL1
  <2>2. CASE n = from /\ travelling
    <3>1. Reported(s1, Me, n) BY <1>5, <1>22, <1>23, <2>2 DEF HeardIn
    <3>2. QED BY <3>1, <2>2, <1>10 DEF LetGoOk
  <2>3. QED BY <2>1, <2>2
<1>24. StepOk(g, t) BY <1>21, <1>23 DEF StepOk, Grown
<1>25. CASE cache' = {} BY <1>2, <1>24, <1>25, SoundEmpty DEF t, s6, N
<1>26. CASE cache' = cache /\ ~travelling /\ ~EdgeNew(s2, s3, gw, from)
  <2>1. Grown(g, s1, {}) BY <1>10, <1>26 DEF LetGoOk
  <2>2. Lk(s2, s3, {}) BY <1>13, <1>26
  <2>3. Lk(g, s1, {}) /\ Lk(s1, s2, {}) /\ Lk(s3, t, {}) BY <1>12, <1>21, <2>1 DEF Grown
  <2>4. Lk(g, s2, {}) BY <2>3, LkTrans
  <2>5. Lk(g, s3, {}) BY <2>2, <2>4, LkTrans
  <2>6. Lk(g, t, {}) BY <2>3, <2>5, LkTrans
  <2>7. CacheOk(cache, g) => CacheOk(cache, t) BY <2>6, CacheKept
  <2>8. QED BY <1>2, <1>24, <1>26, <2>7 DEF Sound, t, s6, N
<1>27. QED BY <1>9, <1>25, <1>26

LEMMA MergeTopologyOk ==
  ASSUME GInv(g), now \in Int, NEW h, MsgOk(h), NEW direct, MergeTopology(h, direct)
  PROVE  Sound(g, cache, g', cache')
<1> DEFINE s == TrackTopology(g, h.from, h.sr, now)
           u == FindOrCreate(s, Me, now)
<1>1. Touch(g, s) BY SameNodes, GoodSame DEF GInv
<1>2. Grown(g, s, {}) BY <1>1, GrownTouch
<1>3. \/ g' = s /\ cache' = cache
      \/ g' = g /\ cache' = cache
      \/ MergeAccepted(h, direct, u)
  BY DEF MergeTopology
<1> HIDE DEF s
<1>4. Grown(s, u, {}) BY <1>2, GrownFound DEF Grown
<1> HIDE DEF u
<1>5. Grown(g, u, {}) BY <1>2, <1>4, GrownTrans
<1>6. CASE g' = s /\ cache' = cache BY <1>2, <1>6, SoundGrown
<1>7. CASE g' = g /\ cache' = cache
  <2>1. Grown(g, g, {}) BY GrownRefl
  <2>2. QED BY <2>1, <1>7, SoundGrown
<1>8. CASE MergeAccepted(h, direct, u)
  <2> DEFINE m == MergeEntries(u, h)
             a == Assembled(h)
             w == ApplyWholeList(m, h.from, a.slot.ids)
  <2>1. \/ g' = HearsFromList(u, h) /\ cache' = cache
        \/ cache' = {} /\ (g' = HearsFromList(m, h) \/ g' = HearsFromList(w, h))
    BY <1>8 DEF MergeAccepted
  <2>2. Good(u, m) BY <1>5, MergeEntriesIs DEF Grown
  <2> HIDE DEF m
  <2>3. Good(m, w) BY <2>2, WholeListIs DEF Good
  <2> HIDE DEF w
  <2>4. Good(u, w) BY <2>2, <2>3, GoodTrans
  <2>5. ASSUME NEW x, Good(u, x) PROVE StepOk(g, HearsFromList(x, h))
    <3>1. Good(x, HearsFromList(x, h)) BY <2>5, HearsFromListTouch, GoodTouch DEF Good, GInv
    <3>2. Good(u, HearsFromList(x, h)) BY <2>5, <3>1, GoodTrans
    <3>3. QED BY <1>5, <3>2, StepGrownGood
  <2>6. Sound(g, cache, HearsFromList(m, h), {}) BY <2>2, <2>5, SoundEmpty
  <2>7. Sound(g, cache, HearsFromList(w, h), {}) BY <2>4, <2>5, SoundEmpty
  <2>8. Sound(g, cache, HearsFromList(u, h), cache)
    <3>1. Touch(u, HearsFromList(u, h)) BY <1>5, HearsFromListTouch DEF Grown, GInv
    <3>2. Grown(u, HearsFromList(u, h), {}) BY <1>5, <3>1, GrownTouch DEF Grown
    <3>3. Grown(g, HearsFromList(u, h), {}) BY <1>5, <3>2, GrownTrans
    <3>4. QED BY <3>3, SoundGrown
  <2>9. QED BY <2>1, <2>6, <2>7, <2>8
<1>9. QED BY <1>3, <1>6, <1>7, <1>8

LEMMA MaintenanceOk ==
  ASSUME GInv(g), now \in Int, RunMaintenance
  PROVE  Sound(g, cache, g', cache')
<1>0. PICK s0, s1, s2, s3, mute, s4 :
        /\ s0 = FindOrCreate(g, Me, now) /\ s1 = AgeEdges(s0, now)
        /\ s2 = RetractSilent(s1) /\ s3 = AgeDownstream(s2)
        /\ mute = {n \in CapExpired(s3, now) : Publishes(s3, n)}
        /\ s4 = Unheard(CapPrune(s3, now), mute) /\ g' = s4
        /\ cache' = IF \/ Cardinality(ReportedNeighbors(s0)) # Cardinality(ReportedNeighbors(s4))
                       \/ s1.node # s0.node \/ s2 # s1 \/ s3 # s2 \/ mute # {} THEN {} ELSE cache
  BY SMTT(30) DEF RunMaintenance
<1> DEFINE c == CapPrune(s3, now)
<1>1. cache' = {} \/ (cache' = cache /\ s1.node = s0.node /\ s2 = s1 /\ s3 = s2) BY <1>0
<1>2. Grown(g, s0, {}) BY <1>0, GrownFound
<1>3. Good(s0, s1) BY <1>0, <1>2, AgeEdgesIs DEF Grown
<1>4. Good(s1, s2) BY <1>0, <1>3, RetractSilentIs DEF Good
<1>5. Good(s2, s3) /\ Touch(s2, s3) BY <1>0, <1>4, SameNodes, GoodSame DEF Good, GInv
<1>6. Good(s3, c) /\ Touch(s3, c) BY <1>5, SameNodes, GoodSame DEF Good, GInv
<1> HIDE DEF c
<1>7. Touch(c, s4) BY <1>0, <1>6, UnheardTouch DEF Good, GInv, c
<1>8. Good(c, s4) BY <1>6, <1>7, GoodTouch DEF Good
<1>9. Good(s0, s4) BY <1>3, <1>4, <1>5, <1>6, <1>8, GoodTrans
<1>10. StepOk(g, s4) BY <1>2, <1>9, StepGrownGood
<1>11. CASE cache' = {} BY <1>0, <1>10, <1>11, SoundEmpty
<1>12. CASE cache' = cache /\ s1.node = s0.node /\ s2 = s1 /\ s3 = s2
  <2>2. Touch(s0, s3) BY <1>2, <1>5, <1>12, TouchNode DEF Good, GInv, Typed, Grown
  <2>3. Touch(s0, s4) BY <1>6, <1>7, <2>2, TouchTrans
  <2>4. Grown(s0, s4, {}) BY <1>2, <2>3, GrownTouch DEF Grown
  <2>5. Grown(g, s4, {}) BY <1>2, <2>4, GrownTrans
  <2>6. QED BY <1>0, <1>12, <2>5, SoundGrown
<1>13. QED BY <1>1, <1>11, <1>12

(* A hop, if there is one, is a node we have a link with. *)
LinkedHop(s, n) == n # NoNode => n \in Ids /\ Linked(s, n)

LEMMA SearchLinked ==
  ASSUME NEW s, Typed(s), NEW d \in Ids, NEW now_, NEW role, NEW excluded, NEW u
  PROVE  LinkedHop(s, BackwardSearch(s, d, now_, role, excluded, u).next)
<1> DEFINE tab == SearchTable(s, d, now_, role, excluded, u)
           path == BackwardSearch(s, d, now_, role, excluded, u)
           K == Cardinality(Ids)
<1>1. PICK f : IsSearchRun(s, d, now_, role, excluded, u, f, K) /\ tab = f[K] BY SearchRun
<1>2. K \in Nat BY SearchRun
<1>3. HopsOk(s, now_, u) BY GraphHopsOk
<1> HIDE DEF K
<1>4. Traced(s, d, u, f[K]) BY <1>1, <1>2, <1>3, SearchTraced
<1>5. path = PathTo(d, tab) BY DEF BackwardSearch
<1> HIDE DEF tab, path
<1>6. CASE Me \notin DOMAIN tab \/ d = Me
  <2>1. path = NoPath BY <1>5, <1>6 DEF PathTo
  <2>2. path.next = NoNode BY <2>1 DEF NoPath
  <2>3. QED BY <2>2 DEF LinkedHop, path
<1>7. CASE Me \in DOMAIN tab /\ d # Me
  <2>1. path.next = tab[Me].prev BY <1>5, <1>7 DEF PathTo
  <2>2. tab[Me].prev \in Ids /\ Me \in BackFrom(s, tab[Me].prev, u) BY <1>1, <1>4, <1>7 DEF Traced
  <2>3. path.next \in Ids /\ Me \in BackFrom(s, path.next, u) BY <2>1, <2>2
  <2>4. Linked(s, path.next) BY <2>3 DEF Linked, BackFrom, HasEdge
  <2>5. QED BY <2>3, <2>4 DEF LinkedHop, path
<1>8. QED BY <1>6, <1>7

LEMMA SearchFields ==
  ASSUME NEW s, NEW d, NEW now_, NEW role, NEW excluded, NEW u
  PROVE  DOMAIN BackwardSearch(s, d, now_, role, excluded, u) = {"cost", "next", "hops"}
BY DEF BackwardSearch, PathTo, NoPath

LEMMA ChainLinked ==
  ASSUME NEW s, Typed(s), NEW ds, NEW d, NEW X
  PROVE  LinkedHop(s, ChainEgress(ds, d, Out(s, Me) \ X).node)
<1> DEFINE E == Out(s, Me) \ X
           c == ChainEgress(ds, d, E).node
<1> HIDE DEF E
<1>1. c \in E \cup {NoNode} BY Zenon DEF ChainEgress
<1> HIDE DEF c
<1>2. c # NoNode => HasEdge(s, Me, c) BY <1>1 DEF E, HasEdge
<1>3. c # NoNode => c \in Ids BY <1>1, NodeIs DEF E, Out
<1>4. LinkedHop(s, c) BY <1>2, <1>3 DEF LinkedHop, Linked
<1>5. QED BY <1>4 DEF E, c

LEMMA RouteNext ==
  ASSUME NEW s, NEW d, NEW now_, NEW path, NEW v, NEW m, NEW more, LinkedHop(s, path.next)
  PROVE  LinkedHop(s, RouteBy(d, now_, path, v, m, more).next)
BY DEF RouteBy, NoRoute, LinkedHop

LEMMA ElseNext ==
  ASSUME NEW s, NEW a, NEW b, LinkedHop(s, a.next), LinkedHop(s, b.next)
  PROVE  LinkedHop(s, OrElse(a, b).next)
BY DEF OrElse

LEMMA NoNext == ASSUME NEW s, NEW d, NEW now_ PROVE LinkedHop(s, NoRoute(d, now_).next)
BY DEF NoRoute, LinkedHop

LEMMA RouteLinked ==
  ASSUME NEW s, Typed(s), NEW d \in Real, NEW now_, NEW role, NEW excluded
  PROVE  LinkedHop(s, CalculateRoute(s, d, now_, role, excluded).next)
<1> DEFINE Search(t, unverified) == BackwardSearch(s, t, now_, role, excluded, unverified)
           lister == ListDownstream(s.ds, d)
           relay == IF lister.relay # NoNode THEN lister.relay ELSE RelayAndCost(s.ds, d).relay
           via(p) == IF p \in Present(s) THEN Composed(Search(p, FALSE)) ELSE NoPath
           hint == HintOf(s, d)
           ByBall == IF d \in Present(s) \/ relay \notin Present(s)
                     THEN RouteBy(d, now_, Search(d, FALSE), TRUE, "Ball", 0) ELSE NoRoute(d, now_)
           ByLister == RouteBy(d, now_, via(lister.relay), TRUE, "ListDownstream", lister.cost)
           ByHint == IF hint \notin {NoNode, d, Me} /\ Measured(s, hint, d)
                     THEN RouteBy(d, now_, via(hint), Hears(s, hint, d), "ListDownstream",
                                  EdgeOf(s, hint, d).etx)
                     ELSE NoRoute(d, now_)
           chain == ChainEgress(s.ds, d, Out(s, Me) \ ({NoNode, Me} \cup excluded))
           ByChain == IF chain.node = NoNode \/ chain.cost >= MaxPrice THEN NoRoute(d, now_)
                      ELSE RouteBy(d, now_, [next |-> chain.node, hops |-> chain.hops, cost |-> chain.cost],
                                   FALSE, "OrphanGateway", EdgeOf(s, Me, chain.node).etx)
           Unverified == RouteBy(d, now_, Search(d, TRUE), FALSE, "Ball", 0)
<1>1. CalculateRoute(s, d, now_, role, excluded) =
        OrElse(ByBall, OrElse(ByLister, OrElse(ByHint, OrElse(ByChain, Unverified))))
  BY IdFacts DEF CalculateRoute
<1>2. d \in Ids BY IdFacts
<1>3. \A p \in Ids, b \in BOOLEAN : LinkedHop(s, Search(p, b).next) BY SearchLinked
<1>4. \A p \in Ids, b \in BOOLEAN : DOMAIN Search(p, b) = {"cost", "next", "hops"} BY SearchFields
<1>5. LinkedHop(s, chain.node) BY ChainLinked
<1> HIDE DEF Search, lister, relay, hint, chain
<1>6. ASSUME NEW p PROVE LinkedHop(s, via(p).next)
  <2>1. CASE p \in Present(s)
    <3>1. p \in Ids BY <2>1, NodeIs
    <3>2. via(p) = NoPath \/ via(p).next = Search(p, FALSE).next BY <2>1, <3>1, <1>4 DEF Composed
    <3>3. LinkedHop(s, NoPath.next) BY DEF NoPath, LinkedHop
    <3>4. QED BY <3>1, <3>2, <3>3, <1>3
  <2>2. CASE p \notin Present(s) BY <2>2 DEF NoPath, LinkedHop
  <2>3. QED BY <2>1, <2>2
<1> HIDE DEF via
<1>7. LinkedHop(s, ByBall.next)
  <2>1. LinkedHop(s, RouteBy(d, now_, Search(d, FALSE), TRUE, "Ball", 0).next) BY <1>2, <1>3, RouteNext
  <2>2. QED BY <2>1, NoNext
<1>8. LinkedHop(s, ByLister.next) BY <1>6, RouteNext
<1>9. LinkedHop(s, ByHint.next)
  <2> DEFINE v == Hears(s, hint, d)
             more == EdgeOf(s, hint, d).etx
             r == RouteBy(d, now_, via(hint), v, "ListDownstream", more)
  <2> HIDE DEF v, more
  <2>1. LinkedHop(s, r.next) BY <1>6, RouteNext
  <2>2. ByHint = r \/ ByHint = NoRoute(d, now_) BY DEF v, more
  <2> HIDE DEF r, ByHint
  <2>3. QED BY <2>1, <2>2, NoNext
<1>10. LinkedHop(s, ByChain.next)
  <2> DEFINE path == [next |-> chain.node, hops |-> chain.hops, cost |-> chain.cost]
             more == EdgeOf(s, Me, chain.node).etx
             r == RouteBy(d, now_, path, FALSE, "OrphanGateway", more)
  <2>1. path.next = chain.node OBVIOUS
  <2> HIDE DEF path, more
  <2>2. LinkedHop(s, r.next) BY <1>5, <2>1, RouteNext
  <2>3. ByChain = r \/ ByChain = NoRoute(d, now_) BY DEF path, more
  <2> HIDE DEF r, ByChain
  <2>4. QED BY <2>2, <2>3, NoNext
<1>11. LinkedHop(s, Unverified.next) BY <1>2, <1>3, RouteNext
<1> HIDE DEF ByBall, ByLister, ByHint, ByChain, Unverified
<1> DEFINE a == OrElse(ByChain, Unverified)
           b == OrElse(ByHint, a)
           c == OrElse(ByLister, b)
<1>12. LinkedHop(s, a.next) BY <1>10, <1>11, ElseNext
<1> HIDE DEF a
<1>13. LinkedHop(s, b.next) BY <1>9, <1>12, ElseNext
<1> HIDE DEF b
<1>14. LinkedHop(s, c.next) BY <1>8, <1>13, ElseNext
<1> HIDE DEF c
<1>15. LinkedHop(s, OrElse(ByBall, c).next) BY <1>7, <1>14, ElseNext
<1>16. QED BY <1>1, <1>15 DEF a, b, c

(* What may be stamped is the next hop of the route, or the egress of the chain. *)
LEMMA StampedIs ==
  ASSUME NEW s, NEW now_, NEW role, NEW d, NEW r, NEW chain, NEW source, NEW from,
         HopBy(s, now_, role, d, r, chain, source, from).stamped
  PROVE  HopBy(s, now_, role, d, r, chain, source, from).hop \in {r.next, chain} \ {NoNode}
BY DEF HopBy

LEMMA InsertIs == ASSUME NEW c, NEW r PROVE InsertRoute(c, r) \subseteq c \cup {r}
BY DEF InsertRoute

HopLinked(s, a) == a.stamped => Linked(s, a.hop) \/ (a.cached /\ Crowded(s))

LEMMA SameLinks ==
  ASSUME NEW s, NEW t, SameNode(s, t)
  PROVE  /\ \A n : Linked(s, n) <=> Linked(t, n)
         /\ Crowded(s) <=> Crowded(t)
BY DEF SameNode, Linked, Crowded, HasEdge, Out, Present, Full

LEMMA RouteToOk ==
  ASSUME Typed(g), CacheOk(cache, g), NEW d \in Real
  PROVE  \/ CachedRoute(cache, d, now) = {} /\ LinkedHop(g, RouteTo(d).next)
         \/ /\ CachedRoute(cache, d, now) # {} /\ RouteTo(d) \in cache /\ RouteTo(d).next # NoNode
            /\ RouteTo(d).next \in Ids /\ (Linked(g, RouteTo(d).next) \/ Crowded(g))
<1>1. CASE CachedRoute(cache, d, now) = {}
  <2>1. RouteTo(d) = CalculateRoute(g, d, now, MyRole, {}) BY <1>1 DEF RouteTo
  <2>2. QED BY <1>1, <2>1, RouteLinked
<1>2. CASE CachedRoute(cache, d, now) # {}
  <2>1. RouteTo(d) \in CachedRoute(cache, d, now) BY <1>2 DEF RouteTo
  <2>2. RouteTo(d) \in cache /\ RouteTo(d).next # NoNode BY <2>1 DEF CachedRoute
  <2>3. QED BY <1>2, <2>2 DEF CacheOk
<1>3. QED BY <1>1, <1>2

LEMMA GetNextHopOk ==
  ASSUME GInv(g), CacheOk(cache, g), NEW d \in Real, NEW source, NEW from, GetNextHop(d, source, from)
  PROVE  Sound(g, cache, g', cache') /\ HopLinked(g', answer')
<1> DEFINE chain == ChainTo(d)
           first == RouteTo(d)
           found == CachedRoute(cache, d, now) # {}
           alt == CalculateRoute(g, d, now, MyRole, {first.next})
           r == Avoiding(first, alt, chain, IsSuspect(health, d, first.next, now))
           to == HopFor(d, first, chain, source, from)
<1>1. /\ answer' = [dest |-> d, hop |-> to.hop, stamped |-> to.stamped, cached |-> found]
      /\ cache' = IF found THEN cache ELSE InsertRoute(cache, first)
      /\ g' = g \/ \E ds : g' = [g EXCEPT !.ds = ds]
  BY DEF GetNextHop
<1>2. Typed(g) BY DEF GInv
<1>3. \/ ~found /\ LinkedHop(g, first.next)
      \/ found /\ first.next \in Ids /\ (Linked(g, first.next) \/ Crowded(g))
  BY <1>2, RouteToOk
<1>4. LinkedHop(g, chain) BY <1>2, ChainLinked DEF ChainTo
<1>5. LinkedHop(g, alt.next) BY <1>2, RouteLinked
<1>6. r = first \/ r = alt BY DEF Avoiding
<1>7. to.stamped => to.hop \in {r.next, chain} \ {NoNode}
  BY StampedIs DEF HopFor
<1>8. SameNode(g, g')
  <2>1. CASE g' = g BY <2>1, <1>2 DEF SameNode, Typed
  <2>2. CASE \E ds : g' = [g EXCEPT !.ds = ds] BY <2>2, <1>2, SameNodes
  <2>3. QED BY <1>1, <2>1, <2>2
<1> HIDE DEF chain, first, found, alt, r, to
<1>9. to.stamped => Linked(g, to.hop) \/ (found /\ Crowded(g))
  BY <1>3, <1>4, <1>5, <1>6, <1>7 DEF LinkedHop
<1>10. HopLinked(g', answer') BY <1>1, <1>8, <1>9, SameLinks DEF HopLinked
<1>11. Touch(g, g') BY <1>8, GoodSame
<1>12. Grown(g, g', {}) BY <1>11, GrownTouch
<1>13. Sound(g, cache, g', cache) BY <1>12, SoundGrown
<1>14. CacheOk(cache', g)
  <2>1. CASE found BY <1>1, <2>1
  <2>2. CASE ~found
    <3>1. cache' \subseteq cache \cup {first} BY <1>1, <2>2, InsertIs
    <3>2. QED BY <1>3, <2>2, <3>1 DEF CacheOk, LinkedHop
  <2>3. QED BY <2>1, <2>2
<1>15. CacheOk(cache', g') BY <1>8, <1>14, SameLinks DEF CacheOk
<1>16. QED BY <1>10, <1>13, <1>15 DEF Sound

LEMMA MessageOk ==
  ASSUME NEW from \in Real, NEW L \in ListsOf(from), NEW v, NEW sr, NEW more, NEW cont, NEW idx
  PROVE  MsgOk([from |-> from, v |-> v, sr |-> sr, list |-> L, more |-> more, cont |-> cont, idx |-> idx])
<1>1. \A e \in L : e.id \in Ids \ {from} /\ e.signal \in Signals \ {"none"}
  BY PriceTypes, IdFacts DEF ListsOf, Entries, Ids
<1>2. \A e, f \in L : e.id = f.id => e = f BY DEF ListsOf
<1> DEFINE name == [e \in L |-> e.id]
<1>3. name \in Injection(L, Ids) BY <1>1, <1>2 DEF Injection, IsInjective
<1>4. IsFiniteSet(L) BY <1>3, IdFacts, FS_Injection
<1>5. QED BY <1>1, <1>4 DEF MsgOk

(* The inductive invariant. *)
GraphInv ==
  /\ GInv(g) /\ now \in Nat
  /\ CacheOk(cache, g)
  /\ HopLinked(g, answer)

LEMMA EmptyOk == GInv(EmptyGraph)
<1>1. DOMAIN EmptyGraph = GraphFields /\ DOMAIN EmptyGraph.node = {} BY DEF EmptyGraph, GraphFields
<1>2. Cardinality({}) = 0 BY FS_EmptySet
<1>3. Typed(EmptyGraph) BY <1>1, <1>2, SizeFacts DEF Typed
<1>4. QED BY <1>1, <1>3 DEF GInv, HeardOk, Reported, HasEdge, Out, Present

LEMMA GraphInit == Init => GraphInv
<1> SUFFICES ASSUME Init PROVE GraphInv OBVIOUS
<1>1. g = EmptyGraph /\ cache = {} /\ now = 0 /\ answer = NoAnswer BY DEF Init
<1>2. HopLinked(g, answer) BY <1>1 DEF HopLinked, NoAnswer
<1>3. QED BY <1>1, <1>2, EmptyOk, CacheEmpty DEF GraphInv

(* Every step is sound. *)
LEMMA HearingOk ==
  ASSUME GraphInv, Hearing
  PROVE  Sound(g, cache, g', cache') /\ now' = now /\ answer' = NoAnswer
<1>0. GInv(g) /\ now \in Int BY DEF GraphInv
<1>1. CASE \E n \in Real, signal \in HeardSignals, id \in PacketIds, names \in BOOLEAN,
             resolves \in IF Placeholders \cap Present(g) = {} THEN {FALSE} ELSE BOOLEAN :
             Quiet /\ ObserveDirect(n, signal, id, names, resolves)
  <2>1. PICK n \in Real, signal \in HeardSignals, id \in PacketIds, names \in BOOLEAN,
             resolves \in IF Placeholders \cap Present(g) = {} THEN {FALSE} ELSE BOOLEAN :
             Quiet /\ ObserveDirect(n, signal, id, names, resolves)
    BY <1>1
  <2>2. signal \in Signals /\ resolves \in BOOLEAN BY PriceTypes
  <2>3. Sound(g, cache, g', cache') BY <1>0, <2>1, <2>2, ObserveDirectOk
  <2>4. now' = now BY <2>1 DEF ObserveDirect
  <2>5. QED BY <2>1, <2>3, <2>4 DEF Quiet
<1>2. CASE \E from \in Real, byte \in Bytes, known \in {NoNode} \cup {n \in Real : Low(n) \in Bytes},
             hops \in 1..2, signal \in HeardSignals, id \in PacketIds :
             Quiet /\ ObserveRelayed(from, byte, known, hops, signal, id)
  <2>1. PICK from \in Real, byte \in Bytes, known \in {NoNode} \cup {n \in Real : Low(n) \in Bytes},
             hops \in 1..2, signal \in HeardSignals, id \in PacketIds :
             Quiet /\ ObserveRelayed(from, byte, known, hops, signal, id)
    BY <1>2
  <2>2. signal \in Signals /\ known \in {NoNode} \cup Real BY PriceTypes
  <2>3. Sound(g, cache, g', cache') BY <1>0, <2>1, <2>2, ObserveRelayedOk
  <2>4. now' = now BY <2>1 DEF ObserveRelayed
  <2>5. QED BY <2>1, <2>3, <2>4 DEF Quiet
<1>3. CASE \E n \in Real, role \in HeardRoles : Quiet /\ TrackNodeRole(n, role)
  <2>1. PICK n \in Real, role \in HeardRoles : Quiet /\ TrackNodeRole(n, role) BY <1>3
  <2>2. g' = TrackRole(g, n, role, now) /\ cache' = {} /\ now' = now BY <2>1 DEF TrackNodeRole
  <2>3. SameNode(g, g') BY <1>0, <2>2, SameNodes DEF GInv
  <2>4. Good(g, g') BY <1>0, <2>3, GoodSame
  <2>5. Sound(g, cache, g', {}) BY <2>4, StepGood, SoundEmpty
  <2>6. QED BY <2>1, <2>2, <2>5 DEF Quiet
<1>4. CASE \E from \in Real, v \in MsgVersions, sr \in SrFlags, c \in ChunkHeads, direct \in BOOLEAN :
             \E L \in ListsOf(from) :
               Quiet /\ MergeTopology([from |-> from, v |-> v, sr |-> sr, list |-> L, more |-> c.more,
                                       cont |-> c.cont, idx |-> c.idx], direct)
  <2>0. PICK from \in Real, v \in MsgVersions, sr \in SrFlags, c \in ChunkHeads, direct \in BOOLEAN :
             \E L \in ListsOf(from) :
               Quiet /\ MergeTopology([from |-> from, v |-> v, sr |-> sr, list |-> L, more |-> c.more,
                                       cont |-> c.cont, idx |-> c.idx], direct)
    BY <1>4
  <2>1. PICK L \in ListsOf(from) :
               Quiet /\ MergeTopology([from |-> from, v |-> v, sr |-> sr, list |-> L, more |-> c.more,
                                       cont |-> c.cont, idx |-> c.idx], direct)
    BY <2>0
  <2> DEFINE h == [from |-> from, v |-> v, sr |-> sr, list |-> L, more |-> c.more,
                   cont |-> c.cont, idx |-> c.idx]
  <2>2. MsgOk(h) BY MessageOk
  <2>3. Quiet /\ MergeTopology(h, direct) BY <2>1
  <2> HIDE DEF h
  <2>4. Sound(g, cache, g', cache') BY <1>0, <2>2, <2>3, MergeTopologyOk
  <2>5. now' = now BY <2>3 DEF MergeTopology
  <2>6. QED BY <2>3, <2>4, <2>5 DEF Quiet
<1>5. QED BY <1>1, <1>2, <1>3, <1>4 DEF Hearing

LEMMA UnchangedOk ==
  ASSUME GraphInv, g' = g, cache' = cache
  PROVE  Sound(g, cache, g', cache')
<1>1. Grown(g, g, {}) BY GrownRefl DEF GraphInv
<1>2. QED BY <1>1, SoundGrown

LEMMA RelayingOk ==
  ASSUME GraphInv, Relaying
  PROVE  Sound(g, cache, g', cache') /\ now' = now /\ HopLinked(g', answer')
<1>1. CASE \E d \in Real : \E source \in (Real \cup {Me}) \ {d} : \E h \in ({NoNode} \cup Real) \ {d} :
             Op /\ GetNextHop(d, source, h)
  <2>1. PICK d \in Real, source \in Ids, h \in Ids \cup {NoNode} : GetNextHop(d, source, h)
    BY <1>1, IdFacts
  <2>2. Sound(g, cache, g', cache') /\ HopLinked(g', answer') BY <2>1, GetNextHopOk DEF GraphInv
  <2>3. now' = now BY <2>1 DEF GetNextHop
  <2>4. QED BY <2>2, <2>3
<1>2. CASE Op /\ answer.stamped /\ HopMiss(answer.dest, answer.hop) /\ UNCHANGED answer
  <2>1. g' = g /\ cache' = cache /\ now' = now /\ answer' = answer BY <1>2 DEF HopMiss
  <2>2. QED BY <2>1, UnchangedOk DEF GraphInv
<1>3. CASE g' = g /\ cache' = cache /\ now' = now /\ answer' = NoAnswer
  <2>1. HopLinked(g', answer') BY <1>3 DEF HopLinked, NoAnswer
  <2>2. QED BY <1>3, <2>1, UnchangedOk
<1>4. ASSUME NEW x, NEW y, NEW z, Quiet,
             CommitRelay(x, y, z) \/ CancelRelay(x, y) \/ Transmitted(x, y) \/ HopSuccess(x, y)
      PROVE  g' = g /\ cache' = cache /\ now' = now /\ answer' = NoAnswer
  BY <1>4 DEF Quiet, CommitRelay, CancelRelay, Transmitted, HopSuccess
<1>5. QED BY <1>1, <1>2, <1>3, <1>4 DEF Relaying

LEMMA TimingOk ==
  ASSUME GraphInv, Timing
  PROVE  Sound(g, cache, g', cache') /\ now' \in Nat /\ answer' = NoAnswer
<1>0. GInv(g) /\ now \in Nat /\ now \in Int BY DEF GraphInv
<1>1. CASE Quiet /\ RunMaintenance
  <2>1. Sound(g, cache, g', cache') BY <1>0, <1>1, MaintenanceOk
  <2>2. now' = now BY <1>1 DEF RunMaintenance
  <2>3. QED BY <1>0, <1>1, <2>1, <2>2 DEF Quiet
<1>2. CASE TopologyDue /\ Quiet /\ CommitTopology
  <2>1. g' = g /\ cache' = cache /\ now' = now /\ answer' = NoAnswer BY <1>2 DEF CommitTopology, Quiet
  <2>2. QED BY <1>0, <2>1, UnchangedOk
<1>3. CASE Quiet /\ Tick
  <2>1. g' = g /\ cache' = cache /\ answer' = NoAnswer BY <1>3 DEF Tick, Quiet
  <2>2. PICK d \in Leaps : now' = now + d BY <1>3 DEF Tick
  <2>3. now' \in Nat BY <1>0, <2>2, PriceTypes
  <2>4. QED BY <2>1, <2>3, UnchangedOk
<1>4. CASE Quiet /\ Purge
  <2>1. g' = EmptyGraph /\ cache' = {} /\ now' = now /\ answer' = NoAnswer BY <1>4 DEF Purge, Quiet
  <2>2. DOMAIN EmptyGraph.node = {} BY DEF EmptyGraph
  <2>3. \A n : ~Reported(EmptyGraph, Me, n) BY <2>2 DEF Reported, HasEdge, Out, Present
  <2>4. StepOk(g, EmptyGraph) BY <2>3, EmptyOk DEF StepOk
  <2>5. QED BY <1>0, <2>1, <2>4, SoundEmpty
<1>5. QED BY <1>1, <1>2, <1>3, <1>4 DEF Timing

LEMMA NextOk ==
  ASSUME GraphInv, Next
  PROVE  GraphInv' /\ StepOk(g, g')
<1>1. Sound(g, cache, g', cache') /\ now' \in Nat /\ HopLinked(g', answer')
  <2>1. CASE Hearing BY <2>1, HearingOk DEF GraphInv, HopLinked, NoAnswer
  <2>2. CASE Relaying BY <2>2, RelayingOk DEF GraphInv
  <2>3. CASE Timing BY <2>3, TimingOk DEF HopLinked, NoAnswer
  <2>4. QED BY <2>1, <2>2, <2>3 DEF Next
<1>2. GInv(g') /\ CacheOk(cache', g') /\ StepOk(g, g') BY <1>1 DEF Sound, StepOk, GraphInv
<1>3. QED BY <1>1, <1>2 DEF GraphInv

LEMMA GraphStep == GraphInv /\ [Next]_vars => GraphInv'
<1>1. CASE Next BY <1>1, NextOk
<1>2. CASE UNCHANGED vars BY <1>2 DEF GraphInv, vars
<1>3. QED BY <1>1, <1>2

(* After every sequence of operations the tables of nodes and edges are       *)
(* within their arrays, who is heard directly and in the graph has class L1,  *)
(* and what the route cache holds leads over a link we have, or a table is at *)
(* its limit (find_or_create_node, update_edge, age_edges, run_maintenance    *)
(* and all that call them).                                                   *)
THEOREM GraphInvariant == Spec => []GraphInv
<1>1. QED BY GraphInit, GraphStep, PTL DEF Spec

(* The backward search returns the price of the cheapest path over the nodes  *)
(* that may relay, in every graph the operations build, for every number of   *)
(* nodes: backward_search and relax against paths of every length.            *)
THEOREM SearchCheapest == Spec => []SearchIsCheapest
<1>1. GraphInv => SearchIsCheapest BY SearchOfGraph DEF GraphInv, GInv
<1>2. QED BY <1>1, GraphInvariant, PTL

(* What get_next_hop lets the router stamp on a packet is a node we have a    *)
(* link with; of a route from the cache this holds while no table is at its   *)
(* limit.                                                                     *)
THEOREM StampedLinked == Spec => []StampedHopLinked
<1>1. GraphInv => StampedHopLinked BY DEF GraphInv, HopLinked, StampedHopLinked
<1>2. QED BY <1>1, GraphInvariant, PTL

(* One step of DirectAreKept. *)
KeepsDirect == \A n \in ReportedNeighbors(g) \cap Present(g) : n \in Present(g') \/ ~Reported(g', Me, n)

(* No operation takes a neighbor out of the graph whose signal we still       *)
(* report: neither select_eviction_victim nor the pruning of what cannot be   *)
(* reached.                                                                   *)
THEOREM DirectKept == Spec => DirectAreKept
<1>1. GraphInv /\ [Next]_vars => [KeepsDirect]_vars
  <2>1. CASE UNCHANGED vars BY <2>1
  <2>2. ASSUME GraphInv, Next PROVE KeepsDirect
    <3>1. StepOk(g, g') /\ GInv(g) BY <2>2, NextOk DEF GraphInv
    <3>2. \A n \in ReportedNeighbors(g) : Reported(g, Me, n) /\ n \in Ids
      BY <3>1, NodeIs DEF ReportedNeighbors, Out, GInv
    <3>3. \A n \in ReportedNeighbors(g) \cap Present(g) : L1At(g, n) BY <3>1, <3>2 DEF GInv, HeardOk
    <3>4. QED BY <3>1, <3>2, <3>3 DEF KeepsDirect, StepOk, L1At
  <2>3. QED BY <2>1, <2>2
<1>2. QED BY <1>1, GraphInvariant, PTL DEF Spec, DirectAreKept, KeepsDirect
=============================================================================
