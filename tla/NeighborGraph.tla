---------------------------- MODULE NeighborGraph ----------------------------
(***************************************************************************)
(* The neighbor graph of one node                                          *)
(* (crates/mesh-routing/src/neighbor_graph.rs): one action per operation   *)
(* the router calls on it.  The tables are those of GraphStore (variable   *)
(* g); prices and routes are those of Routes.                              *)
(*                                                                         *)
(* Ids are numbers: Low(n) is the low byte that a packet names its relay   *)
(* by, and PlaceholderFor(b) the id that stands for an unknown relay with  *)
(* that byte.  Time is counted in ticks of one topology period.            *)
(***************************************************************************)
EXTENDS Routes, Sequences

CONSTANTS
  MyRole,                       \* device_role
  VERSIONS,                     \* 256 in the code: topology versions are bytes
  DELAYED_BEHIND_MAX,           \* TOPOLOGY_DELAYED_BEHIND_MAX
  TOPOLOGY_RESYNC, TOPOLOGY_DIRTY_MIN,
  MAX_VERSION_ENTRIES, PENDING_LISTED_SLOTS, MAX_NEIGHBORS,
  MAX_RELAY_STATES, MAX_HEARD_TRANSMITTERS, RELAY_HOLD,
  MAX_OUR_TX, MAX_NODE_TX, TX_WINDOW,
  PacketIds, HeardSignals, HeardRoles,     \* what may be heard
  MsgVersions, SrFlags, ChunkHeads, MaxList,
  MaxNow, MaxOps, Leaps                    \* bounds: the clock, the operations, its steps

VARIABLES
  g,        \* edges, downstream, capability
  cache,    \* route_cache
  sig,      \* direct_signals: ids to last_rx_ms
  otx, ntx, \* our_tx (a sequence) and node_tx (a set of records)
  commits,  \* the active relay_states
  ver,      \* topo_versions: ids to [v, at, stale]
  asm,      \* pending_listed, the assembly of lists that come in chunks
  own,      \* topology_version, topology_dirty, last_topology_ms, has_sent_topology
  health,   \* hop_health
  now, ops, \* the clock, and the number of operations so far
  answer    \* what the last get_next_hop returned, and whether it took the route from the cache

vars == <<g, cache, sig, otx, ntx, commits, ver, asm, own, health, now, ops, answer>>

(* A placeholder is the one for its byte, and no id of a node is a placeholder. *)
ASSUME PlaceholderIds ==
  /\ \A n \in Placeholders : PlaceholderFor(Low(n)) = n
  /\ \A n \in Real : PlaceholderFor(Low(n)) \notin Real \cup {Me}

(* What may be heard has a price, and a link without one is not a good one. *)
ASSUME PriceTypes ==
  /\ HeardSignals \subseteq Signals /\ Leaps \subseteq Nat
  /\ COVERAGE_ETX_CEILING \in Nat /\ UNVERIFIED_HOP_COST_FACTOR \in Nat
  /\ NoPrice \in Nat /\ NoPrice > COVERAGE_ETX_CEILING

(* Our role, and those that others announce. *)
ASSUME KnownRoles == MyRole \in Roles /\ HeardRoles \subseteq Roles

NoVersion == -1
NoAnswer == [dest |-> NoNode, hop |-> NoNode, stamped |-> FALSE, cached |-> FALSE]
ActiveRole(role) == role \in {"client", "router", "late"}
Active == ActiveRole(MyRole)
CanSendTopology == MyRole # "lost"

-----------------------------------------------------------------------------
(* Which transmissions of a packet were seen.                              *)

SameTx(r, n, from, id) == r.node = n /\ r.from = from /\ r.id = id
TxRecord(n, from, id) == [node |-> n, from |-> from, id |-> id, at |-> now]

(* record_our_transmission: a full table shifts its first record out. *)
RecordOurs(from, id) ==
  LET known == {i \in DOMAIN otx : SameTx(otx[i], Me, from, id)}
  IN IF known # {} THEN [i \in DOMAIN otx |-> IF i \in known THEN TxRecord(Me, from, id) ELSE otx[i]]
     ELSE Append(IF Len(otx) < MAX_OUR_TX THEN otx ELSE Tail(otx), TxRecord(Me, from, id))
HasOurTransmission(from, id) ==
  \E i \in DOMAIN otx : SameTx(otx[i], Me, from, id) /\ Age(now, otx[i].at) <= TX_WINDOW

(* record_node_transmission: a full table loses its oldest record. *)
RecordTx(T, n, from, id) ==
  LET same == {r \in T : SameTx(r, n, from, id)}
      old == CHOOSE r \in T : \A q \in T : Age(now, r.at) >= Age(now, q.at)
  IN IF n = NoNode THEN T
     ELSE IF same = {} /\ Cardinality(T) >= MAX_NODE_TX
     THEN (T \ {old}) \cup {TxRecord(n, from, id)}
     ELSE (T \ same) \cup {TxRecord(n, from, id)}
HasTransmitted(n, from, id) ==
  \E r \in ntx : SameTx(r, n, from, id) /\ Age(now, r.at) <= TX_WINDOW
(* record_heard_transmissions. *)
RecordHeard(T, from, id, relay) ==
  LET src == IF from \in Real THEN RecordTx(T, from, from, id) ELSE T
  IN IF relay \in Real \ {from} THEN RecordTx(src, relay, from, id) ELSE src

-----------------------------------------------------------------------------
(* Hearing a neighbor.                                                     *)

(* refresh_reported_direct_neighbor: both directions, the other one inferred. *)
HeardNow(s, n) == IF HasEdge(s, Me, n) THEN [s EXCEPT !.node[Me].out[n].heard = now] ELSE s
RefreshDirect(s, n, etx) ==
  LET here == UpdateEdge(FindOrCreate(s, Me, now), Me, n, etx, now, "Reported")
  IN HeardNow(UpdateEdge(here, n, Me, etx, now, "Inferred"), n)

(* upsert_direct_signal, and prune_direct_signals. *)
UpsertSignal(S, n) ==
  LET Older(x, y) == Age(now, S[x]) > Age(now, S[y])
      kept == IF n \in DOMAIN S \/ Cardinality(DOMAIN S) < MAX_NEIGHBORS THEN DOMAIN S
              ELSE DOMAIN S \ {Best(DOMAIN S, Older)}
  IN [m \in {n} \cup kept |-> IF m = n THEN now ELSE S[m]]
PruneSignals(S, s) ==
  [m \in {m \in DOMAIN S : Age(now, S[m]) <= NEIGHBOR_TTL /\ Reported(s, Me, m)} |-> S[m]]

ClearDest(s, d) == [s EXCEPT !.ds = ClearForDest(@, d)]

(* update_node_activity. *)
Activity(s, N) ==
  [s EXCEPT !.node = [n \in DOMAIN @ |-> IF n \in N \ {Me} THEN [@[n] EXCEPT !.full = now] ELSE @[n]]]

(* resolve_placeholder: the link, and the destinations, of the placeholder with *)
(* the byte of n become those of n (replace_gateway_node).                      *)
TakeLink(s, ph, n) ==
  IF ~HasEdge(s, Me, ph) THEN s
  ELSE SetHears(UpdateEdge(s, Me, n, EdgeOf(s, Me, ph).etx, now, "Reported"), Me, n,
                Hears(s, Me, ph) \/ Hears(s, Me, n))
TakeDownstream(s, ph, n) ==
  RemoveNode([s EXCEPT !.ds = ClearForDest(Transfer(@, ph, n, now), ph)], ph)
ResolvedGraph(s, n) ==
  TakeDownstream(TakeLink(FindOrCreate(s, Me, now), PlaceholderFor(Low(n)), n),
                 PlaceholderFor(Low(n)), n)

(* A packet that nobody relayed: observe_direct_neighbor and the record of the *)
(* transmission; of the first copy also the activity of the node, the proof    *)
(* that it hears us when it names us as next hop, and the placeholder that it  *)
(* resolves when the identity cache does not object.                           *)
Measuring(s, n, signal) ==
  IF signal = "none" THEN s ELSE ClearDest(RefreshDirect(s, n, CalculateEtx(signal)), n)
ObserveDirect(n, signal, id, names, resolves) ==
  \E s1 \in {Measuring(g, n, signal)} :
  \E confirms \in {names /\ HasEdge(s1, Me, n) /\ ~Hears(s1, Me, n)} :
  \E s2 \in {Activity(IF confirms THEN SetHears(s1, Me, n, TRUE) ELSE s1, {n})} :
  \E found \in {resolves /\ PlaceholderFor(Low(n)) \in Present(s2)} :
    LET changed == signal # "none" /\ EdgeChanged(g, s1, Me, n)
    IN /\ g' = IF found THEN ResolvedGraph(s2, n) ELSE s2
       /\ sig' = IF signal = "none" THEN sig ELSE UpsertSignal(sig, n)
       /\ cache' = IF changed \/ confirms \/ found THEN {} ELSE cache
       /\ own' = [own EXCEPT !.dirty = @ \/ changed \/ (found /\ EdgeChanged(s2, g', Me, n))]
       /\ ntx' = RecordHeard(ntx, n, id, NoNode)
       /\ UNCHANGED <<otx, commits, ver, asm, health, now>>

(* relay_gateway_for_observation: the placeholder while it is in the graph,  *)
(* else the relay the router knows the byte of.                              *)
GatewayFor(from, byte, known) ==
  IF PlaceholderFor(byte) \notin Present(g) /\ known \in Real \ {from} /\ Low(known) = byte
  THEN known ELSE PlaceholderFor(byte)

(* retract_direct_link_inner: both directions; with the cascade, the nodes   *)
(* that only this link connected, whose demotion is stamped with time 0.     *)
Retract(s, n, cascade) ==
  LET cut == RemoveEdge(RemoveEdge(s, Me, n), n, Me)
  IN IF cascade /\ HasEdge(s, Me, n) THEN PruneUnreachable(cut, 0) ELSE cut

Committed(from, id) == \E c \in commits : c.from = from /\ c.id = id

(* Whether we hear of a relay of a packet that we, or our relay, sent:       *)
(* maybe_confirm_hears_us_from_relay.                                        *)
Confirms(s, n, from, id) ==
  (from = Me \/ Committed(from, id)) /\ HasEdge(s, Me, n) /\ ~Hears(s, Me, n)

(* The steps of observe_relayed_packet: the sender, no longer heard itself, is *)
(* let go; the signal is that of the gateway (observe_relay_gateway_signal);   *)
(* a gateway that publishes nothing is taken to hear the sender.               *)
LetGo(s, from, travelling) == FindOrCreate(IF travelling THEN Retract(s, from, TRUE) ELSE s, Me, now)
ClearIfNew(s, t, n) == IF EdgeNew(s, t, Me, n) THEN ClearDest(t, n) ELSE t
GatewayHeard(s, gw, etx) ==
  IF gw \in Placeholders THEN s ELSE ClearIfNew(s, RefreshDirect(s, gw, etx), gw)
GatewayInfers(s, gw, from) ==
  IF Active /\ (Status(s, gw) = "Legacy" \/ gw \in Placeholders)
  THEN UpdateEdge(s, gw, from, CalculateEtx("fair"), now, "Inferred") ELSE s

(* Whether the sender is noted behind the gateway, and whether as a new way to it. *)
Infers(s, from, gw, hops, travelling) ==
  /\ Active /\ Hears(s, Me, gw) /\ (HasEdge(s, from, gw) \/ ~Publishes(s, from))
  /\ travelling \/ hops = 1 \/ ~Publishes(s, from)
  /\ travelling \/ (from \notin Present(s) /\ ListDownstream(InForce(s.ds, now), from).relay \notin Present(s))
Adopts(s, from, gw) ==
  /\ ~IsRelayFor(InForce(s.ds, now), gw, from)
  /\ RelayAndCost(InForce(s.ds, now), from).relay \in {NoNode, gw} \/ HasEdge(s, from, gw)

NewWay(s, from, gw, hops, travelling) ==
  Infers(s, from, gw, hops, travelling) /\ ~travelling /\ Adopts(s, from, gw)
NoteBehind(s, from, gw, hops, travelling) ==
  LET cost == hops * CalculateEtx("fair")
  IN IF travelling /\ Infers(s, from, gw, hops, travelling)
     THEN [s EXCEPT !.ds = DsUpdateExclusive(@, from, gw, cost, now)]
     ELSE IF NewWay(s, from, gw, hops, travelling)
     THEN [s EXCEPT !.ds = DsUpdate(@, from, gw, cost, now, FALSE, FALSE)] ELSE s

(* observe_relayed_packet, of a packet whose relay the router knows or not, and *)
(* the activity of both nodes.                                                  *)
Confirmed(s, gw, from, id) == IF Confirms(s, gw, from, id) THEN SetHears(s, Me, gw, TRUE) ELSE s
Witnessed(from, byte, known) ==
  IF Active THEN {from, IF known \in Real THEN known ELSE PlaceholderFor(byte)} ELSE {}
SignalsAfter(from, gw, travelling) ==
  LET kept == IF travelling THEN Without(sig, from) ELSE sig
  IN IF gw \in Placeholders THEN kept ELSE UpsertSignal(kept, gw)
ObserveRelayed(from, byte, known, hops, signal, id) ==
  /\ Active \/ CanSendTopology
  /\ byte \notin {0, Low(from)} /\ signal # "none" /\ ~HasOurTransmission(from, id)
  /\ \E gw \in {GatewayFor(from, byte, known)}, etx \in {CalculateEtx(signal)},
        travelling \in {Reported(g, Me, from) /\ ~HasTransmitted(from, from, id)} :
     \E s1 \in {LetGo(g, from, travelling)} :
     \E s2 \in {GatewayHeard(s1, gw, etx)} :
     \E s3 \in {GatewayInfers(s2, gw, from)} :
     \E s4 \in {UpdateEdge(s3, Me, gw, etx, now, "Mirrored")} :
     \E s5 \in {Confirmed(s4, gw, from, id)} :
       /\ g' = Activity(NoteBehind(s5, from, gw, hops, travelling), Witnessed(from, byte, known))
       /\ cache' = IF \/ travelling \/ NewWay(s5, from, gw, hops, travelling) \/ s5 # s4
                      \/ EdgeChanged(s3, s4, Me, gw) \/ EdgeChanged(s2, s3, gw, from)
                   THEN {} ELSE cache
       /\ sig' = SignalsAfter(from, gw, travelling)
       /\ own' = [own EXCEPT !.dirty = @ \/ travelling
                                 \/ (gw \notin Placeholders /\ EdgeChanged(s1, s2, Me, gw))]
       /\ ntx' = IF Active THEN RecordHeard(ntx, from, id, gw) ELSE ntx
       /\ UNCHANGED <<otx, commits, ver, asm, health, now>>

-----------------------------------------------------------------------------
(* Topology lists.  A message is [from, v, sr, list, more, cont, idx], list *)
(* a set of [id, signal, hears].                                            *)

CompleteList(h) == ~h.more /\ ~h.cont /\ h.idx = 0

(* topology_version_accept, _large_behind and _climbing, on bytes. *)
Half == VERSIONS \div 2
VersionAccept(received, last) == last = 0 \/ (received - last) % VERSIONS < Half
LargeBehind(received, last) == (last - received) % VERSIONS \in DELAYED_BEHIND_MAX + 1 .. Half - 1
Climbing(received, stale) == (received - stale) % VERSIONS \in 1 .. DELAYED_BEHIND_MAX

VersionOf(n) == IF n \in DOMAIN ver THEN ver[n] ELSE [v |-> 0, at |-> 0, stale |-> NoVersion]
BootReset(h) == h.list = {} /\ h.v = 0 /\ CompleteList(h)
InWindow(h) == VersionOf(h.from).at = 0 \/ VersionAccept(h.v, VersionOf(h.from).v)

(* Whether merge_topology goes on after the version: in the window, or one of *)
(* the signs that the publisher counts anew.                                  *)
Accepted(h, direct) ==
  LET last == VersionOf(h.from)
  IN \/ InWindow(h)
     \/ BootReset(h)
     \/ LargeBehind(h.v, last.v)
     \/ last.at # 0 /\ Age(now, last.at) \in TOPOLOGY_RESYNC .. Clock \div 2 - 1
     \/ last.stale # NoVersion /\ Climbing(h.v, last.stale)
     \/ direct /\ CompleteList(h) /\ h.list # {}

FaultySetVersion(n, v) ==
  With(ver, n, [v |-> v, at |-> IF now = 0 THEN 1 ELSE now, stale |-> NoVersion])

(* set_topo_version and note_topo_version_stale. *)
SetVersion(n, v) ==
  LET Older(x, y) == Age(now, ver[x].at) > Age(now, ver[y].at)
      kept == IF n \in DOMAIN ver \/ Cardinality(DOMAIN ver) < MAX_VERSION_ENTRIES THEN DOMAIN ver
              ELSE DOMAIN ver \ {Best(DOMAIN ver, Older)}
      stale == IF VersionOf(n).v = v THEN VersionOf(n).stale ELSE NoVersion
  IN [m \in kept \cup {n} |-> IF m # n THEN ver[m]
                               ELSE [v |-> v, at |-> IF now = 0 THEN 1 ELSE now, stale |-> stale]]
NoteStale(n, v) == IF n \in DOMAIN ver THEN [ver EXCEPT ![n].stale = v] ELSE ver

(* list_names_horizon_anchor; then the publisher itself is let in, behind    *)
(* its parent.                                                               *)
Named(h) == {e.id : e \in h.list}
NamesClass(s, h, C) == {n \in Named(h) : ClassOf(s, n) \in C}
NamesDirect(s, h) == {n \in Named(h) : Reported(s, Me, n)}
HorizonOk(s, h, direct) ==
  \/ Reported(s, Me, h.from) \/ direct \/ h.from \in Present(s)
  \/ \E n \in Present(s) : Hears(s, n, h.from)
  \/ NamesDirect(s, h) # {} \/ NamesClass(s, h, {"L1", "L2"}) # {}
AdmitSender(s, h) ==
  LET l1 == NamesDirect(s, h)
      l2 == NamesClass(s, h, {"L2"})
      anchors == l1 \cup NamesClass(s, h, {"L1"} \cup IF GRAPH_MAX_DEPTH >= 3 THEN {"L2"} ELSE {})
      parent == IF HintOf(s, h.from) # NoNode THEN HintOf(s, h.from)
                ELSE IF anchors = {} THEN NoNode ELSE CHOOSE n \in anchors : \A m \in anchors : n <= m
      class == IF ClassifyCandidate(s, h.from) # "Unknown" THEN ClassifyCandidate(s, h.from)
               ELSE IF GRAPH_MAX_DEPTH >= 3 /\ l2 # {} /\ l1 = {} THEN "L3" ELSE "L2"
  IN IF Reported(s, Me, h.from) \/ (h.from \notin Present(s) /\ l1 \cup l2 = {}) THEN s
     ELSE EnsurePublisher(s, h.from, class, parent, now).s

(* try_admit_listed_publisher: a node that hears the sender is one level below it. *)
AdmitListed(s, sender, n, senderDirect) ==
  IF Reported(s, Me, n) THEN [ok |-> TRUE, s |-> s]
  ELSE IF senderDirect THEN EnsurePublisher(s, n, "L2", sender, now)
  ELSE IF ClassOf(s, sender) = "L2" /\ GRAPH_MAX_DEPTH >= 3 THEN EnsurePublisher(s, n, "L3", sender, now)
  ELSE [ok |-> FALSE, s |-> s]

(* One entry of a list.  The entry that names us counts only from a sender we hear. *)
Listed(s, sender, e) ==
  SetHears(SetHears(UpdateEdge(s, sender, e.id, CalculateEtx(e.signal), now, "Mirrored"),
                    sender, e.id, e.hears), e.id, sender, TRUE)
Behind(admitted, t, sender, e, had) ==
  IF admitted.ok THEN ClearDest(admitted.s, e.id)
  ELSE [t EXCEPT !.ds = DsUpdate(@, e.id, sender, CalculateEtx(e.signal), now, had, TRUE)]
Placed(t, sender, e, senderDirect, had) ==
  IF e.id = Me THEN t
  ELSE IF Reported(t, Me, e.id) THEN ClearDest(t, e.id)
  ELSE IF ~e.hears THEN t
  ELSE Behind(AdmitListed(t, sender, e.id, senderDirect), t, sender, e, had)
MergeEntry(s, sender, e, senderDirect) ==
  IF \/ e.id \in Placeholders \/ (e.id = Me /\ ~senderDirect)
     \/ ~Active /\ e.id # Me /\ ~Reported(s, Me, e.id) /\ ~Reported(s, e.id, Me) THEN s
  ELSE Placed(Listed(s, sender, e), sender, e, senderDirect, HasEdge(s, sender, e.id))
MergeEntries(s, h) ==
  LET senderDirect == Reported(s, Me, h.from)
      put[E \in SUBSET h.list] ==
        IF E = {} THEN AdmitSender(s, h)
        ELSE LET e == CHOOSE e \in E : \A f \in E : f.id <= e.id
             IN MergeEntry(put[E \ {e}], h.from, e, senderDirect)
  IN FlushPending(put[h.list], now)

(* pending_listed_slot and the assembly of a list: a continuation belongs to *)
(* the slot of its sender, with its version and the next index, or it spoils *)
(* the slot.  The list is known when the last chunk is in.                   *)
IdleSlot == [from |-> NoNode, v |-> 0, ids |-> {}, valid |-> FALSE, next |-> 1]
FirstOf(slots) == IF slots = {} THEN 0 ELSE CHOOSE i \in slots : \A j \in slots : i <= j
SlotFor(h) ==
  LET mine == {i \in DOMAIN asm : asm[i].valid /\ asm[i].from = h.from}
      free == {i \in DOMAIN asm : ~asm[i].valid}
  IN IF mine # {} THEN FirstOf(mine)
     ELSE IF h.cont THEN 0
     ELSE IF free # {} THEN FirstOf(free) ELSE 1

FaultyBelongs(p, h) == p.valid /\ (h.cont => h.idx = p.next)

Belongs(p, h) == p.valid /\ p.v = h.v /\ (h.cont => h.idx = p.next)
Assembled(h) ==
  LET p == IF h.cont THEN asm[SlotFor(h)]
           ELSE [from |-> h.from, v |-> h.v, ids |-> {}, valid |-> h.idx = 0, next |-> 1]
      ids == p.ids \cup Named(h)
  IN IF ~Belongs(p, h) THEN [slot |-> [p EXCEPT !.valid = ~h.cont /\ @], done |-> FALSE]
     ELSE [slot |-> [p EXCEPT !.ids = ids, !.next = IF h.cont THEN @ + 1 ELSE @,
                              !.valid = h.more /\ Cardinality(ids) <= MAX_NEIGHBORS],
           done |-> ~h.more /\ Cardinality(ids) <= MAX_NEIGHBORS /\ ~BootReset(h)]

(* What a whole list leaves out is no longer so. *)
ApplyWholeList(s, n, ids) ==
  LET kept == RetainListed(ClearHearsToUnlisted(s, n, ids), n, ids)
  IN IF Out(kept, n) = Out(s, n) THEN kept ELSE PruneUnreachable(kept, now)

(* apply_topology_hears_us, after every list that was not refused. *)
HearsFromList(s, h) ==
  IF \E e \in h.list : e.id = Me /\ e.hears THEN SetHears(s, h.from, Me, TRUE) ELSE s

(* merge_topology, of a message for a node that routes, or heard directly. *)
MergeAccepted(h, direct, s) ==
  IF Active /\ ~HorizonOk(s, h, direct) THEN g' = HearsFromList(s, h) /\ UNCHANGED <<asm, cache>>
  ELSE \E merged \in {MergeEntries(s, h)} :
         /\ cache' = {}
         /\ IF SlotFor(h) = 0 THEN g' = HearsFromList(merged, h) /\ asm' = asm
            ELSE \E a \in {Assembled(h)} :
                   /\ asm' = [asm EXCEPT ![SlotFor(h)] = a.slot]
                   /\ g' = HearsFromList(IF a.done THEN ApplyWholeList(merged, h.from, a.slot.ids)
                                       ELSE merged, h)
MergeTopology(h, direct) ==
  /\ \E s \in {TrackTopology(g, h.from, h.sr, now)} :
       IF ~Active /\ ~direct THEN g' = s /\ UNCHANGED <<ver, asm, cache>>
       ELSE IF ~Accepted(h, direct)
       THEN ver' = NoteStale(h.from, h.v) /\ UNCHANGED <<g, asm, cache>>
       ELSE /\ ver' = SetVersion(h.from, IF BootReset(h) THEN 0 ELSE h.v)
            /\ MergeAccepted(h, direct, FindOrCreate(s, Me, now))
  /\ UNCHANGED <<sig, otx, ntx, commits, own, health, now>>

(* commit_topology_broadcast. *)
CommitTopology ==
  /\ own' = [version |-> (own.version + 1) % VERSIONS, dirty |-> FALSE, last |-> now, sent |-> TRUE]
  /\ UNCHANGED <<g, cache, sig, otx, ntx, commits, ver, asm, health, now>>

(* track_node_role. *)
TrackNodeRole(n, role) ==
  /\ g' = TrackRole(g, n, role, now) /\ cache' = {}
  /\ UNCHANGED <<sig, otx, ntx, commits, ver, asm, own, health, now>>

-----------------------------------------------------------------------------
(* Time.                                                                   *)

(* prune_silent_publishers: the links go, without the cascade. *)
SilentPublishers(s) ==
  {n \in Out(s, Me) \ Placeholders : Publishes(s, n)
     /\ Age(now, EdgeOf(s, Me, n).at) \in PUBLISHER_SILENCE + 1 .. Clock \div 2 - 1}
RetractSilent(s) ==
  LET cut[N \in SUBSET SilentPublishers(s)] ==
        IF N = {} THEN s
        ELSE LET n == CHOOSE n \in N : TRUE IN ClearDest(Retract(cut[N \ {n}], n, FALSE), n)
  IN cut[SilentPublishers(s)]

AgeDownstream(s) == [s EXCEPT !.ds = DsAge(@, now, Present(s))]

(* run_maintenance, in the order of the code; a publisher whose record expires *)
(* is no longer known to hear us.                                             *)
Unheard(s, N) ==
  [s EXCEPT !.node = [a \in DOMAIN @ |-> IF a # Me THEN @[a] ELSE
     [@[a] EXCEPT !.out = [m \in Out(s, Me) |->
        IF m \in N THEN [EdgeOf(s, Me, m) EXCEPT !.hears = FALSE] ELSE EdgeOf(s, Me, m)]]]]
RunMaintenance ==
  \E s0 \in {FindOrCreate(g, Me, now)} :
  \E s1 \in {AgeEdges(s0, now)} :
  \E s2 \in {RetractSilent(s1)} :
  \E s3 \in {AgeDownstream(s2)} :
  \E mute \in {{n \in CapExpired(s3, now) : Publishes(s3, n)}} :
  \E s4 \in {Unheard(CapPrune(s3, now), mute)} :
    LET changed == Cardinality(ReportedNeighbors(s0)) # Cardinality(ReportedNeighbors(s4))
    IN /\ g' = s4
       /\ sig' = PruneSignals(sig, s2)
       /\ commits' = {c \in commits : Age(now, c.after) \notin RELAY_HOLD + 1 .. Clock \div 2 - 1}
       /\ own' = [own EXCEPT !.dirty = @ \/ changed]
       /\ cache' = IF changed \/ s1.node # s0.node \/ s2 # s1 \/ s3 # s2 \/ mute # {} THEN {} ELSE cache
       /\ UNCHANGED <<otx, ntx, ver, asm, health, now>>

(* Whether run_maintenance then asks for a topology broadcast, and our role may send one. *)
TopologyDue ==
  /\ CanSendTopology
  /\ \/ ~own.sent \/ Age(now, own.last) >= PERIOD
     \/ own.dirty /\ Age(now, own.last) >= TOPOLOGY_DIRTY_MIN

Tick ==
  /\ \E d \in Leaps : now + d <= MaxNow /\ now' = now + d
  /\ UNCHANGED <<g, cache, sig, otx, ntx, commits, ver, asm, own, health>>

FaultyPurge ==
  /\ g' = EmptyGraph /\ sig' = <<>> /\ otx' = <<>> /\ ntx' = {} /\ commits' = {}
  /\ ver' = <<>> /\ asm' = [i \in 1..PENDING_LISTED_SLOTS |-> IdleSlot]
  /\ own' = [own EXCEPT !.version = 0, !.dirty = FALSE, !.last = 0]
  /\ UNCHANGED <<cache, health, now>>

(* purge_for_preset_change. *)
Purge ==
  /\ g' = EmptyGraph /\ cache' = {} /\ sig' = <<>> /\ otx' = <<>> /\ ntx' = {} /\ commits' = {}
  /\ ver' = <<>> /\ asm' = [i \in 1..PENDING_LISTED_SLOTS |-> IdleSlot]
  /\ own' = [own EXCEPT !.version = 0, !.dirty = FALSE, !.last = 0]
  /\ UNCHANGED <<health, now>>

-----------------------------------------------------------------------------
(* Relay commitments and transmissions.                                    *)

(* commit_relay, of a packet not yet committed, and the answers to it. *)
CommitRelay(from, id, heardFrom) ==
  /\ from # Me /\ ~Committed(from, id) /\ Cardinality(commits) < MAX_RELAY_STATES
  /\ commits' = commits \cup {[from |-> from, id |-> id, after |-> now,
                               heardFrom |-> heardFrom, heard |-> {}]}
  /\ UNCHANGED <<g, cache, sig, otx, ntx, ver, asm, own, health, now>>
CancelRelay(from, id) ==
  /\ Committed(from, id)
  /\ commits' = {c \in commits : ~(c.from = from /\ c.id = id)}
  /\ UNCHANGED <<g, cache, sig, otx, ntx, ver, asm, own, health, now>>

(* note_tx_success: the transmission is recorded and the commitment ends. *)
Transmitted(from, id) ==
  /\ otx' = RecordOurs(from, id)
  /\ commits' = {c \in commits : ~(c.from = from /\ c.id = id)}
  /\ UNCHANGED <<g, cache, sig, ntx, ver, asm, own, health, now>>

-----------------------------------------------------------------------------
(* Next hops.                                                              *)

(* get_route. *)
RouteTo(d) ==
  IF CachedRoute(cache, d, now) # {} THEN CHOOSE r \in CachedRoute(cache, d, now) : TRUE
  ELSE CalculateRoute(g, d, now, MyRole, {})
ChainTo(d) == ChainEgress(InForce(g.ds, now), d, Out(g, Me) \ {NoNode, Me}).node

(* get_next_hop_inner: a suspect hop gives way to one that could be stamped. *)
Avoiding(first, alt, chain, suspect) ==
  IF suspect /\ alt.next # NoNode /\ Stampable(alt, chain) THEN alt ELSE first
HopFor(d, first, chain, source, heardFrom) ==
  HopBy(g, now, MyRole, d, Avoiding(first, CalculateRoute(g, d, now, MyRole, {first.next}), chain,
                    IsSuspect(health, d, first.next, now)), chain, source, heardFrom)

(* The last two answers also note us as the relay of the destination. *)
NotesUs(d, first, hop, source, heardFrom) ==
  /\ first.next = NoNode /\ hop = d /\ ~(heardFrom # source /\ HasEdge(g, Me, d))
  /\ IsRelayFor(InForce(g.ds, now), Me, d) \/ Out(g, d) = {Me}
GetNextHop(d, source, heardFrom) ==
  \E first \in {RouteTo(d)} :
  \E to \in {HopFor(d, first, ChainTo(d), source, heardFrom)} :
    /\ answer' = [dest |-> d, hop |-> to.hop, stamped |-> to.stamped,
                  cached |-> CachedRoute(cache, d, now) # {}]
    /\ cache' = IF CachedRoute(cache, d, now) # {} THEN cache ELSE InsertRoute(cache, first)
    /\ health' = IF first.next = NoNode THEN health ELSE health \ Expired(health, d, first.next, now)
    /\ g' = IF NotesUs(d, first, to.hop, source, heardFrom)
            THEN [g EXCEPT !.ds = DsUpdate(@, d, Me, 1, now, FALSE, FALSE)] ELSE g
    /\ UNCHANGED <<sig, otx, ntx, commits, ver, asm, own, now>>

(* record_hop_miss and record_hop_success. *)
HopMiss(d, hop) ==
  /\ health' = RecordMiss(health, d, hop, now)
  /\ UNCHANGED <<g, cache, sig, otx, ntx, commits, ver, asm, own, now>>
HopSuccess(d, hop) ==
  /\ health' = RecordSuccess(health, d, hop)
  /\ UNCHANGED <<g, cache, sig, otx, ntx, commits, ver, asm, own, now>>

-----------------------------------------------------------------------------
Init ==
  /\ g = EmptyGraph /\ cache = {} /\ sig = <<>> /\ otx = <<>> /\ ntx = {} /\ commits = {}
  /\ ver = <<>> /\ asm = [i \in 1..PENDING_LISTED_SLOTS |-> IdleSlot]
  /\ own = [version |-> 0, dirty |-> FALSE, last |-> 0, sent |-> FALSE]
  /\ health = {} /\ now = 0 /\ ops = 0 /\ answer = NoAnswer

Entries(from) == [id : (Real \cup {Me}) \ {from}, signal : HeardSignals \ {"none"}, hears : BOOLEAN]
ListsOf(from) ==
  {L \in SUBSET Entries(from) :
     Cardinality(L) <= MaxList /\ \A e, f \in L : e.id = f.id => e = f}
Bytes == {Low(n) : n \in Placeholders}

(* One operation, under the bound on their number. *)
Op == ops < MaxOps /\ ops' = ops + 1
Quiet == Op /\ answer' = NoAnswer

Hearing ==
  \/ \E n \in Real, signal \in HeardSignals, id \in PacketIds, names \in BOOLEAN,
       resolves \in IF Placeholders \cap Present(g) = {} THEN {FALSE} ELSE BOOLEAN :
       Quiet /\ ObserveDirect(n, signal, id, names, resolves)
  \/ \E from \in Real, byte \in Bytes, known \in {NoNode} \cup {n \in Real : Low(n) \in Bytes},
       hops \in 1..2, signal \in HeardSignals, id \in PacketIds :
       Quiet /\ ObserveRelayed(from, byte, known, hops, signal, id)
  \/ \E n \in Real, role \in HeardRoles : Quiet /\ TrackNodeRole(n, role)
  \/ \E from \in Real, v \in MsgVersions, sr \in SrFlags, c \in ChunkHeads, direct \in BOOLEAN :
       \E L \in ListsOf(from) :
         Quiet /\ MergeTopology([from |-> from, v |-> v, sr |-> sr, list |-> L, more |-> c.more,
                                 cont |-> c.cont, idx |-> c.idx], direct)
Relaying ==
  \/ \E r \in ntx : Quiet /\ CommitRelay(r.from, r.id, r.node)
  \/ \E c \in commits : Quiet /\ CancelRelay(c.from, c.id)
  \/ \E c \in commits : Quiet /\ Transmitted(c.from, c.id)
  \/ \E id \in PacketIds : Quiet /\ Transmitted(Me, id)
  \/ \E d \in Real : \E source \in (Real \cup {Me}) \ {d} : \E h \in ({NoNode} \cup Real) \ {d} : Op /\ GetNextHop(d, source, h)
  \/ Op /\ answer.stamped /\ HopMiss(answer.dest, answer.hop) /\ UNCHANGED answer
  \/ \E h \in health : Quiet /\ HopSuccess(h.dest, h.hop)
Timing ==
  \/ Quiet /\ RunMaintenance
  \/ TopologyDue /\ Quiet /\ CommitTopology
  \/ Quiet /\ Tick
  \/ Quiet /\ Purge
Next == Hearing \/ Relaying \/ Timing
Spec == Init /\ [][Next]_vars

-----------------------------------------------------------------------------

(* The tables stay within the arrays that hold them, whatever is heard. *)
TypeOK ==
  /\ GraphType(g)
  /\ Cardinality(cache) <= MAX_CACHED_ROUTES
  /\ DOMAIN sig \subseteq Ids /\ Cardinality(DOMAIN sig) <= MAX_NEIGHBORS
  /\ Len(otx) <= MAX_OUR_TX /\ Cardinality(ntx) <= MAX_NODE_TX
  /\ Cardinality(commits) <= MAX_RELAY_STATES /\ Cardinality(health) <= MAX_HOP_HEALTH
  /\ Cardinality(DOMAIN ver) <= MAX_VERSION_ENTRIES
  /\ \A n \in DOMAIN ver : ver[n].v \in 0 .. VERSIONS - 1

(* A neighbor that we hear ourselves never makes room for another node: while *)
(* the link lasts it stays in the graph (select_eviction_victim and age_edges).*)
DirectAreKept ==
  [][\A n \in ReportedNeighbors(g) \cap Present(g) : n \in Present(g') \/ ~Reported(g', Me, n)]_vars

(* A hop that may be stamped on a packet is one we have a link with, if it was *)
(* computed now; if it comes from the route cache, also, as long as no table is *)
(* at its limit: what takes a link away empties the cache, except that a full   *)
(* table of nodes or a full list of our edges gives up another entry for a new  *)
(* one in silence (find_or_create_node, observe_relay_gateway_signal).          *)
Linked(s, n) == HasEdge(s, Me, n) \/ HasEdge(s, n, Me)
Crowded(s) == Full(s) \/ Cardinality(Out(s, Me)) >= MAX_EDGES_PER_NODE
StampedHopLinked ==
  answer.stamped => Linked(g, answer.hop) \/ (answer.cached /\ Crowded(g))

(* The reference for the search: the price of the cheapest path to us over      *)
(* nodes that may relay, found by relaxing every hop as often as there are ids. *)
Least(S) == CHOOSE x \in S : \A y \in S : x <= y
MayPass(d) == {n \in Ids : n = d \/ (n # Me /\ Routable(g, n, MyRole, {}))}
OneHopMore(known, d) ==
  [m \in Ids |-> Least({known[m]} \cup
     {Plus(known[n], HopBack(g, n, m, now, FALSE)) : n \in {n \in MayPass(d) : m \in BackFrom(g, n, FALSE)}})]
CheapestPath(d) ==
  LET dist[k \in 0..Cardinality(Ids)] ==
        IF k = 0 THEN [n \in Ids |-> IF n = d THEN 0 ELSE NoPrice] ELSE OneHopMore(dist[k - 1], d)
  IN dist[Cardinality(Ids)][Me]

(* The backward search finds the cheapest path, as long as the ids the graph   *)
(* names fit its table of MAX_GRAPH_NODES rows.                                *)
SearchIsCheapest ==
  Cardinality(Real \cup Present(g) \cup UNION {Out(g, n) : n \in Present(g)}) <= MAX_GRAPH_NODES =>
    \A d \in Real : BackwardSearch(g, d, now, MyRole, {}, FALSE).cost = CheapestPath(d)
=============================================================================
