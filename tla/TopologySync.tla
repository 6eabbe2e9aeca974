---------------------------- MODULE TopologySync ----------------------------
(***************************************************************************)
(* A neighbor that publishes its list of neighbors, and our graph, which   *)
(* follows it: the publishing side of crates/mesh-routing/src/router.rs    *)
(* (schedule_topology_broadcast, poll_topology_tx), the packets on the air *)
(* and merge_topology of NeighborGraph on our side.  The publisher may     *)
(* restart, which begins its versions anew; packets are lost, and a packet *)
(* that others relayed may come after later ones.  The packet history lets *)
(* a packet in once.                                                       *)
(***************************************************************************)
EXTENDS NeighborGraph

CONSTANTS
  Publisher,
  Lists,                       \* the lists it may publish: sequences of the nodes it hears
  MAX_NEIGHBORS_PER_PACKET,
  FirstVersions,               \* the publisher's version when we first hear it
  MaxLists, MaxRestarts, MaxAir

VARIABLES
  pub,       \* the publisher: boot, version, queue (pending_topology), last packet sent
  air,       \* packets that may still arrive
  lists,     \* history: the lists published, as [boot, v, ids]
  gathered,  \* history: the boot whose first chunk came last
  refused    \* history: the boot and version that was refused last, while it counts

syncVars == <<vars, pub, air, lists, gathered, refused>>

(* Versions are bytes, and a list is cut into parts. *)
ASSUME Versions ==
  /\ VERSIONS \in Nat \ {0} /\ FirstVersions \subseteq 0 .. VERSIONS - 1
  /\ MAX_NEIGHBORS_PER_PACKET \in Nat \ {0} /\ Lists \subseteq Seq(Ids)

-----------------------------------------------------------------------------
(* The publisher.                                                          *)

(* sorted_neighbors orders the nodes it heard; build_topology_chunk cuts the  *)
(* list up, and write_packed_header_chunk flags each part but the last and    *)
(* each but the first.  A list of nobody is one part.                         *)
ChunkCount(ids) ==
  IF ids = <<>> THEN 1 ELSE (Len(ids) + MAX_NEIGHBORS_PER_PACKET - 1) \div MAX_NEIGHBORS_PER_PACKET
ChunkIds(ids, i) ==
  {ids[j] : j \in {j \in DOMAIN ids : (j - 1) \div MAX_NEIGHBORS_PER_PACKET = i}}
Chunk(boot, v, ids, i) ==
  [from |-> Publisher, boot |-> boot, v |-> v, sr |-> TRUE,
   list |-> [id : ChunkIds(ids, i), signal : {"strong"}, hears : {TRUE}],
   more |-> i + 1 < ChunkCount(ids), cont |-> i # 0, idx |-> i]
Chunks(boot, v, ids) == [i \in 1..ChunkCount(ids) |-> Chunk(boot, v, ids, i - 1)]

(* schedule_topology_broadcast, then commit_topology_broadcast. *)
ScheduleTopology(boot, v, ids) ==
  /\ pub' = [pub EXCEPT !.boot = boot, !.v = (v + 1) % VERSIONS, !.queue = Chunks(boot, v, ids)]
  /\ lists' = lists \cup {[boot |-> boot, v |-> v, ids |-> {ids[j] : j \in DOMAIN ids}]}
Publish ==
  /\ pub.queue = <<>> /\ Cardinality(lists) < MaxLists
  /\ \E ids \in Lists : ScheduleTopology(pub.boot, pub.v, ids)
  /\ UNCHANGED <<vars, air, gathered, refused>>

(* poll_topology_tx: one packet of the list at a time, which is on its way or lost. *)
PollTopologyTx(lost) ==
  /\ pub.queue # <<>> /\ (lost \/ Cardinality(air) < MaxAir)
  /\ air' = IF lost THEN air ELSE air \cup {Head(pub.queue)}
  /\ pub' = [pub EXCEPT !.queue = Tail(@), !.last = IF lost THEN <<>> ELSE <<Head(pub.queue)>>]
  /\ UNCHANGED <<vars, lists, gathered, refused>>

(* A restart forgets the rest of the list and ends with ensure_boot_broadcasts. *)
Restart ==
  /\ pub.boot < MaxRestarts
  /\ ScheduleTopology(pub.boot + 1, 0, <<>>)
  /\ UNCHANGED <<vars, air, gathered, refused>>

-----------------------------------------------------------------------------
(* Our side.                                                               *)

(* process_topology_rx.  Only the packet that was just sent is heard from the *)
(* publisher itself; all others are copies that somebody relayed.             *)
Refuses(m, direct) == (Active \/ direct) /\ ~Accepted(m, direct)
RestOfHeldList(m) == m.boot # refused.boot /\ m.v = VersionOf(Publisher).v
LastRefused(m, direct) ==
  IF ~Active /\ ~direct THEN refused
  ELSE IF Refuses(m, direct) THEN [boot |-> m.boot, v |-> m.v]
  ELSE IF RestOfHeldList(m) THEN refused ELSE [boot |-> m.boot, v |-> NoVersion]
Deliver(m, direct) ==
  /\ direct => pub.last = <<m>>
  /\ MergeTopology(m, direct)
  /\ air' = air \ {m} /\ pub' = [pub EXCEPT !.last = <<>>]
  /\ gathered' = IF m.cont \/ Refuses(m, direct) THEN gathered ELSE m.boot
  /\ refused' = LastRefused(m, direct)
  /\ UNCHANGED <<lists, ops, answer>>

(* What else process_inbound does with a packet of the publisher, the measurement *)
(* of the link, is a step of its own: it comes with any packet that has a reading, *)
(* here with one between the lists.                                                *)
HearNeighbor(n) ==
  /\ ~Reported(g, Me, n) /\ air = {} /\ pub.queue = <<>>
  /\ ObserveDirect(n, "strong", CHOOSE id \in PacketIds : TRUE, FALSE, FALSE)
  /\ UNCHANGED <<ops, answer, pub, air, lists, gathered, refused>>

(* A tick is a period of a quarter of an hour: no packet is that long on its way. *)
Later ==
  /\ air = {} /\ pub.queue = <<>>
  /\ Tick /\ UNCHANGED <<ops, answer, pub, air, lists, gathered, refused>>

SyncInit ==
  /\ Init
  /\ \E v \in FirstVersions : pub = [boot |-> 0, v |-> v, queue |-> <<>>, last |-> <<>>]
  /\ air = {} /\ lists = {} /\ gathered = 0 /\ refused = [boot |-> 0, v |-> NoVersion]
SyncNext ==
  \/ Publish \/ Restart
  \/ \E lost \in BOOLEAN : PollTopologyTx(lost)
  \/ \E m \in air, direct \in BOOLEAN : Deliver(m, direct)
  \/ HearNeighbor(Publisher)
  \/ Later
SyncSpec == SyncInit /\ [][SyncNext]_syncVars

-----------------------------------------------------------------------------
Delivered(m) == m \in air /\ m \notin air' /\ (ver' # ver \/ asm' # asm \/ g' # g)
ListOf(m) == {l \in lists : l.boot = m.boot /\ l.v = m.v}

(* merge_topology takes back a link of the publisher, or that a node hears it, *)
(* only on the word of a list that really leaves the node out: never because   *)
(* a chunk was lost, came out of order or was mixed with those of another      *)
(* list.  A list whose gathering began before a restart is excepted.           *)
RetractsOnlyUnlisted ==
  [][\A m \in air : Delivered(m) /\ (m.cont => gathered = m.boot) =>
       \A n \in Ids :
         \/ HasEdge(g, Publisher, n) /\ ~HasEdge(g', Publisher, n)
         \/ Hears(g, n, Publisher) /\ HasEdge(g', n, Publisher) /\ ~Hears(g', n, Publisher)
         => \E l \in ListOf(m) : n \notin l.ids]_syncVars

(* A publisher that restarted, whose boot list was lost and whose new versions *)
(* look old, is refused at most once: of two of its lists that are not more    *)
(* than TOPOLOGY_DELAYED_BEHIND_MAX apart the later one is taken, also when    *)
(* the rest of the last list from before the restart comes in between          *)
(* (note_topo_version_stale, set_topo_version).                                *)
RefusedOnce ==
  [][refused.boot = refused'.boot /\ NoVersion \notin {refused.v, refused'.v} =>
       (refused'.v - refused.v) % VERSIONS \notin 1 .. DELAYED_BEHIND_MAX]_syncVars

(* docs/INTEROP_CONTRACT.md:777: "An empty list clears nothing.  The 'an      *)
(* unlisted neighbour does not hear the sender' rule runs only on a complete, *)
(* non-empty list".                                                           *)
EmptyListClearsNothing ==
  [][\A m \in air : Delivered(m) /\ m.list = {} =>
       \A n \in Ids : Hears(g, n, Publisher) /\ HasEdge(g', n, Publisher) => Hears(g', n, Publisher)]_syncVars
=============================================================================
