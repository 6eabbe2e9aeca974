----------------------------- MODULE GraphStore -----------------------------
(***************************************************************************)
(* The tables of the neighbor graph and the operations on them: the edge   *)
(* store (crates/mesh-routing/src/graph/edge.rs), the downstream table     *)
(* (graph/downstream.rs) and the capability cache (capability.rs).         *)
(*                                                                         *)
(* A graph state s is a record with the fields                             *)
(*   node  the nodes of EdgeStore: a function from the ids that are        *)
(*         present to [class, hint, full, out], where out maps the far end *)
(*         of an edge to [etx, at, src, hears, heard]                      *)
(*   pend  pending_demotion, or NoDemotion                                 *)
(*   ds    the DownstreamTable, a set of [dest, relay, cost, at, listed]   *)
(*   caps  the CapabilityCache: ids with a record to [st, role, at]        *)
(* Arrays become functions and sets: where the code takes the first of     *)
(* several equal entries, the model takes the one with the smallest id.    *)
(* Ids are numbers and every action ranges over all of them, so the other  *)
(* outcome of a tie is the same behaviour with the ids exchanged.  ETX is  *)
(* a small number, and the radio a frame was heard on is left out.         *)
(***************************************************************************)
EXTENDS Integers, FiniteSets, TLC

CONSTANTS
  Me,                    \* my_node
  Real,                  \* ids of other nodes
  Placeholders,          \* ids with PLACEHOLDER_NODE_PREFIX
  MAX_GRAPH_NODES, MAX_EDGES_PER_NODE, MAX_DOWNSTREAM, MAX_CAPABILITY_RECORDS,
  GRAPH_MAX_DEPTH,
  NEIGHBOR_TTL, CAPABILITY_TTL,
  AgeEtx,                \* ETX one tick of age adds to the score of an edge
  Clock                  \* period of the millisecond counter, 2^32 in the code

NoNode == 0
Never == -1             \* last_heard_ms = 0
Ids == {Me} \cup Real \cup Placeholders

ASSUME GraphSizes ==
  /\ Ids \subseteq Nat \ {0} /\ IsFiniteSet(Ids)
  /\ Me \notin Real \cup Placeholders /\ Real \cap Placeholders = {}
  /\ {MAX_GRAPH_NODES, MAX_EDGES_PER_NODE, MAX_DOWNSTREAM, MAX_CAPABILITY_RECORDS}
       \subseteq Nat \ {0}
  /\ GRAPH_MAX_DEPTH \in 1..3 /\ {NEIGHBOR_TTL, CAPABILITY_TTL, AgeEtx} \subseteq Nat
  /\ Clock \in Nat \ {0}

Classes == {"Unknown", "L1", "L2", "L3"}
Sources == {"Inferred", "Mirrored", "Reported"}
Statuses == {"Legacy", "Passive", "SrActive"}
NoDemotion == [victim |-> NoNode, parent |-> NoNode, cost |-> 0]

Age(now, t) == (now - t) % Clock

(* A table with one row more, or written over; and one row less. *)
With(f, k, v) == [x \in {k} \cup DOMAIN f |-> IF x = k THEN v ELSE f[x]]
Without(f, k) == [x \in DOMAIN f \ {k} |-> f[x]]

(* The member of S that Better prefers to every other, ties by id. *)
Best(S, Better(_, _)) ==
  CHOOSE x \in S : \A y \in S \ {x} : Better(x, y) \/ (~Better(y, x) /\ x < y)

-----------------------------------------------------------------------------
(* DownstreamTable: destinations that are reached through a relay.         *)

(* Every lookup is given the age up to which an entry counts: it is asked of the *)
(* entries that count, those younger than NEIGHBOR_TTL except in calculate_route, *)
(* which passes u32::MAX and so looks at every entry.                             *)
InForce(ds, now) == {e \in ds : Age(now, e.at) < NEIGHBOR_TTL}
Cheapest(E) ==
  CHOOSE e \in E : \A f \in E \ {e} : e.cost < f.cost \/ (e.cost = f.cost /\ e.relay < f.relay)

(* relay_and_cost and list_downstream: the relay is NoNode when there is no entry. *)
RelayAndCost(ds, d) ==
  LET E == {e \in ds : e.dest = d}
  IN IF E = {} THEN [relay |-> NoNode, cost |-> 0]
     ELSE [relay |-> Cheapest(E).relay, cost |-> Cheapest(E).cost]
ListDownstream(ds, d) == RelayAndCost({e \in ds : e.listed}, d)
IsRelayFor(ds, r, d) == \E e \in ds : e.dest = d /\ e.relay = r

(* chain_egress: follow the cheapest relays from d to the first one that we *)
(* hear ourselves; a relay met twice, a relay of itself or a missing entry  *)
(* ends the chain.  The bound on the hops is the number of ids here.        *)
ChainEgress(ds, d, Egress) ==
  LET hop[n \in 0..Cardinality(Ids)] ==
        IF n = 0 THEN [at |-> d, seen |-> {}, cost |-> 0]
        ELSE LET c == hop[n - 1]
                 b == RelayAndCost(ds, c.at)
             IN IF c.at = NoNode \/ c.at \in Egress \cap c.seen THEN c
                ELSE IF b.relay \in {NoNode, c.at} \cup c.seen
                     THEN [at |-> NoNode, seen |-> {}, cost |-> 0]
                     ELSE [at |-> b.relay, seen |-> c.seen \cup {b.relay},
                           cost |-> c.cost + b.cost]
      last == hop[Cardinality(Ids)]
  IN IF last.at \in Egress \cap last.seen
     THEN [node |-> last.at, hops |-> Cardinality(last.seen), cost |-> last.cost]
     ELSE [node |-> NoNode, hops |-> 0, cost |-> 0]

Oldest(ds, now) ==
  CHOOSE e \in ds : \A f \in ds \ {e} :
     \/ Age(now, e.at) > Age(now, f.at)
     \/ Age(now, e.at) = Age(now, f.at)
        /\ (e.dest < f.dest \/ (e.dest = f.dest /\ e.relay < f.relay))

(* upsert_entry: a refreshed entry stays listed; a full table loses its oldest entry. *)
Upsert(ds, d, r, cost, now, listed) ==
  LET same == {e \in ds : e.dest = d /\ e.relay = r}
      new == [dest |-> d, relay |-> r, cost |-> cost, at |-> now,
              listed |-> listed \/ \E e \in same : e.listed]
      room == IF same = {} /\ Cardinality(ds) >= MAX_DOWNSTREAM
              THEN ds \ {Oldest(ds, now)} ELSE ds \ same
  IN room \cup {new}

(* update_inner. *)
DsUpdate(ds, d, r, cost, now, hasEdge, listed) ==
  IF NoNode \in {d, r} \/ d \in {r, Me} \/ hasEdge THEN ds
  ELSE Upsert(ds, d, r, cost, now, listed)

ClearForRelay(ds, r) == {e \in ds : e.relay # r}
ClearForDest(ds, d) == {e \in ds : e.dest # d}
DsUpdateExclusive(ds, d, r, cost, now) ==
  DsUpdate(ClearForDest(ds, d), d, r, cost, now, FALSE, FALSE)

(* transfer_downstream: the entries of the old relay are written again for  *)
(* the new one, which is not compared with their destination.               *)
Transfer(ds, old, new, now) ==
  IF NoNode \in {old, new} \/ old = new THEN ds
  ELSE LET moving == {e \in ds : e.relay = old}
           put[E \in SUBSET moving] ==
             IF E = {} THEN ds
             ELSE LET e == CHOOSE e \in E : \A f \in E : e.dest <= f.dest
                  IN Upsert(put[E \ {e}], e.dest, new, e.cost, now, e.listed)
       IN ClearForRelay(put[moving], old)

DsAge(ds, now, present) == {e \in ds : Age(now, e.at) <= NEIGHBOR_TTL /\ e.relay \in present}

-----------------------------------------------------------------------------
(* CapabilityCache: what a node said of itself.                            *)

(* status: of a node without a record, and of one whose role says nothing, Unknown. *)
Status(s, n) == IF n \in DOMAIN s.caps THEN s.caps[n].st ELSE "Unknown"
RoleOf(s, n) == IF n \in DOMAIN s.caps THEN s.caps[n].role ELSE "none"
Publishes(s, n) == Status(s, n) \in {"SrActive", "Passive"}

(* is_immediate_relay_router, will_not_cancel_for_us, is_legacy_router: the *)
(* routers and repeaters are one role here, "router", router_late is "late".*)
ImmediateRelayRouter(s, n) == ~Publishes(s, n) /\ RoleOf(s, n) = "router"
WillNotCancelForUs(s, n) == Status(s, n) # "SrActive" /\ RoleOf(s, n) \in {"router", "late"}
LegacyRouter(s, n) == Status(s, n) = "Legacy" /\ RoleOf(s, n) \in {"router", "late"}
Roles == {"client", "mute", "lost", "router", "late"}
Mutes == {"mute", "lost"}     \* role_is_mute: CLIENT_MUTE and its like, and LOST_AND_FOUND

(* A full cache gives up its oldest record of a node that publishes nothing. *)
CapVictims(s) == {n \in DOMAIN s.caps : s.caps[n].st \notin {"SrActive", "Passive"}}
PutCap(s, n, rec, now) ==
  LET Older(x, y) == Age(now, s.caps[x].at) > Age(now, s.caps[y].at)
  IN IF n \in DOMAIN s.caps \/ Cardinality(DOMAIN s.caps) < MAX_CAPABILITY_RECORDS
     THEN [s EXCEPT !.caps = With(@, n, rec)]
     ELSE IF CapVictims(s) = {} THEN s
     ELSE LET v == Best(CapVictims(s), Older)
          IN [s EXCEPT !.caps = With(Without(@, v), n, rec)]

TrackTopology(s, n, active, now) ==
  PutCap(s, n, [st |-> IF active THEN "SrActive" ELSE "Passive",
                role |-> IF n \in DOMAIN s.caps THEN s.caps[n].role ELSE "client",
                at |-> now], now)

(* track_role: a role never hides that the node publishes topology. *)
TrackRole(s, n, role, now) ==
  LET st == IF role \in Mutes THEN "Legacy" ELSE "Unknown"
  IN IF Publishes(s, n) THEN [s EXCEPT !.caps[n].role = role]
     ELSE PutCap(s, n, [st |-> st, role |-> role, at |-> now], now)

CapExpired(s, now) ==
  {n \in DOMAIN s.caps : n # Me /\ Age(now, s.caps[n].at) \in CAPABILITY_TTL + 1 .. Clock \div 2 - 1}
CapPrune(s, now) ==
  [s EXCEPT !.caps = [n \in DOMAIN @ \ CapExpired(s, now) |-> @[n]]]

-----------------------------------------------------------------------------
(* EdgeStore: nodes and the directed edges they reported or we inferred.    *)

Rank(src) == CASE src = "Inferred" -> 0 [] src = "Mirrored" -> 1 [] src = "Reported" -> 2
EvictionRank(class) ==
  CASE class = "Unknown" -> 3 [] class = "L3" -> 2 [] class = "L2" -> 1 [] class = "L1" -> 0
Depth(class) ==
  CASE class = "L1" -> 1 [] class = "L2" -> 2 [] class = "L3" -> 3 [] class = "Unknown" -> 255
WithinDepth(class) == class # "Unknown" /\ Depth(class) <= GRAPH_MAX_DEPTH

Present(s) == DOMAIN s.node
Out(s, a) == IF a \in Present(s) THEN DOMAIN s.node[a].out ELSE {}
HasEdge(s, a, b) == b \in Out(s, a)
EdgeOf(s, a, b) == s.node[a].out[b]
Reported(s, a, b) == HasEdge(s, a, b) /\ EdgeOf(s, a, b).src = "Reported"
Hears(s, a, b) == HasEdge(s, a, b) /\ EdgeOf(s, a, b).hears
ClassOf(s, n) == IF n \in Present(s) THEN s.node[n].class ELSE "Unknown"
HintOf(s, n) == IF n \in Present(s) THEN s.node[n].hint ELSE NoNode
ReportedNeighbors(s) == {n \in Out(s, Me) : Reported(s, Me, n)}

(* set_node_class: L1 is only ever lost with the node; set_l1. *)
SetNodeClass(s, n, class, hint) ==
  IF n \notin Present(s) THEN s
  ELSE [s EXCEPT !.node[n].class = IF @ = "L1" THEN @ ELSE class,
                 !.node[n].hint = IF hint # NoNode THEN hint ELSE @]
SetL1(s, n) ==
  IF n \in Present(s) THEN [s EXCEPT !.node[n].class = "L1", !.node[n].hint = NoNode] ELSE s
SetHears(s, a, b, h) == IF HasEdge(s, a, b) THEN [s EXCEPT !.node[a].out[b].hears = h] ELSE s

DropNode(s, n) == [s EXCEPT !.node = Without(@, n)]
RemoveEdge(s, a, b) ==
  IF HasEdge(s, a, b) THEN [s EXCEPT !.node[a].out = Without(@, b)] ELSE s
RemoveEdgesTo(s, b) ==
  [s EXCEPT !.node = [a \in DOMAIN @ |-> [@[a] EXCEPT !.out = Without(s.node[a].out, b)]]]
RemoveNode(s, n) == DropNode(RemoveEdgesTo(s, n), n)

FaultyVictims(s) == Present(s) \ {Me}

(* select_eviction_victim: never us, never an L1 node. *)
Victims(s) == {n \in Present(s) \ {Me} : s.node[n].class # "L1"}
Victim(s, now) ==
  LET rank(n) == EvictionRank(s.node[n].class)
      edges(n) == Cardinality(Out(s, n))
      age(n) == Age(now, s.node[n].full)
      Worse(x, y) == \/ rank(x) > rank(y)
                     \/ rank(x) = rank(y) /\ edges(x) < edges(y)
                     \/ rank(x) = rank(y) /\ edges(x) = edges(y) /\ age(x) > age(y)
  IN Best(Victims(s), Worse)

(* pick_l1_parent: the hint while we hear it, else the cheapest neighbor that *)
(* lists the victim or that the victim says it hears; NoNode for none.        *)
L1Parent(s, v) ==
  LET Cheaper(x, y) == EdgeOf(s, Me, x).etx < EdgeOf(s, Me, y).etx
      able == {p \in ReportedNeighbors(s) : HasEdge(s, p, v) \/ Hears(s, v, p)}
  IN IF HintOf(s, v) # NoNode /\ HasEdge(s, Me, HintOf(s, v)) THEN HintOf(s, v)
     ELSE IF able = {} THEN NoNode ELSE Best(able, Cheaper)
DemotionTo(s, v, p) ==
  IF p = NoNode THEN NoDemotion ELSE [victim |-> v, parent |-> p, cost |-> EdgeOf(s, Me, p).etx]
DemotionOf(s, v) == DemotionTo(s, v, L1Parent(s, v))

(* apply_demotion: the victim, and what was reached through it, move behind the parent. *)
ApplyDemotion(s, d, now) ==
  LET listed == Hears(s, d.parent, d.victim)
      behind == DsUpdate(s.ds, d.victim, d.parent, d.cost, now, FALSE, listed)
  IN [s EXCEPT !.ds = Transfer(behind, d.victim, d.parent, now), !.pend = NoDemotion]
FlushPending(s, now) == IF s.pend = NoDemotion THEN s ELSE ApplyDemotion(s, s.pend, now)

(* evict_for_capacity: the edges towards the victim stay.  With the downstream *)
(* table at hand a victim without a parent is kept; without it the demotion is *)
(* put aside, over any other that was.                                         *)
CanEvict(s, now, withDs) ==
  Victims(s) # {} /\ (withDs => L1Parent(s, Victim(s, now)) # NoNode)
Demoted(s, d, now, withDs) ==
  IF withDs THEN ApplyDemotion(s, d, now) ELSE [s EXCEPT !.pend = IF d = NoDemotion THEN @ ELSE d]
EvictNode(s, v, now, withDs) == DropNode(Demoted(s, DemotionOf(s, v), now, withDs), v)
Evict(s, now, withDs) == EvictNode(s, Victim(s, now), now, withDs)

NewNode(now, class, hint) == [class |-> class, hint |-> hint, full |-> now, out |-> <<>>]
AddNode(s, n, rec) == [s EXCEPT !.node = With(@, n, rec)]

Full(s) == Cardinality(Present(s)) >= MAX_GRAPH_NODES

MadeRoom(s, now, withDs) == IF Full(s) THEN Evict(s, now, withDs) ELSE s

(* find_or_create_node and ensure_local_node: the node may still be absent after. *)
FindOrCreate(s, n, now) ==
  IF n \in Present(s) \/ (Full(s) /\ ~CanEvict(s, now, FALSE)) THEN s
  ELSE AddNode(MadeRoom(s, now, FALSE), n,
               NewNode(now, IF n = Me THEN "L1" ELSE "Unknown", NoNode))

(* ensure_publisher: whether the node is in the graph, and the graph after. *)
EnsurePublisher(s, n, class, hint, now) ==
  IF n \in {NoNode, Me} THEN [ok |-> TRUE, s |-> s]
  ELSE IF ~WithinDepth(class) THEN [ok |-> FALSE, s |-> s]
  ELSE IF n \in Present(s)
       THEN [ok |-> TRUE, s |-> [SetNodeClass(s, n, class, hint) EXCEPT !.node[n].full = now]]
  ELSE IF Full(s) /\ ~CanEvict(s, now, TRUE) THEN [ok |-> FALSE, s |-> s]
  ELSE [ok |-> TRUE, s |-> AddNode(MadeRoom(s, now, TRUE), n, NewNode(now, class, hint))]

(* classify_candidate, then bootstrap_class_from_reachability. *)
ClassifyCandidate(s, n) ==
  IF n = Me \/ Reported(s, Me, n) THEN "L1"
  ELSE IF \E p \in ReportedNeighbors(s) : Hears(s, p, n) \/ HasEdge(s, n, p) THEN "L2"
  ELSE IF GRAPH_MAX_DEPTH >= 3 /\ \E p \in Present(s) :
            ClassOf(s, p) = "L2" /\ (Hears(s, p, n) \/ HasEdge(s, n, p)) THEN "L3"
  ELSE "Unknown"
Classify(s, n) ==
  IF ClassifyCandidate(s, n) # "Unknown" THEN ClassifyCandidate(s, n)
  ELSE IF \E p \in ReportedNeighbors(s) : HasEdge(s, p, n) THEN "L2"
  ELSE IF GRAPH_MAX_DEPTH >= 3 /\ \E p \in Present(s) : ClassOf(s, p) = "L2" /\ HasEdge(s, p, n)
       THEN "L3" ELSE "Unknown"

(* prune_unreachable_from_root: an edge in either direction connects. *)
Reachable(s) ==
  LET step(R) == R \cup {n \in Present(s) : \E m \in R : HasEdge(s, m, n) \/ HasEdge(s, n, m)}
      reach[k \in 0..Cardinality(Ids)] ==
        IF k = 0 THEN {Me} \cap Present(s) ELSE step(reach[k - 1])
  IN reach[Cardinality(Ids)]

(* What becomes of the downstream table when a node leaves the graph. *)
DemoteOrClear(s, v, now) ==
  IF L1Parent(s, v) # NoNode THEN ApplyDemotion(s, DemotionOf(s, v), now)
  ELSE [s EXCEPT !.ds = ClearForDest(ClearForRelay(@, v), v)]
RemoveAll(s, V, now) ==
  LET rem[W \in SUBSET V] ==
        IF W = {} THEN s
        ELSE LET v == CHOOSE v \in W : \A w \in W : w <= v
             IN RemoveNode(DemoteOrClear(rem[W \ {v}], v, now), v)
  IN rem[V]
PruneUnreachable(s, now) ==
  IF Me \notin Present(s) THEN s ELSE RemoveAll(s, Present(s) \ Reachable(s), now)

(* update_edge, in the order of the code: who may have edges at all; the node  *)
(* and its class; a known edge, a new one, or one that replaces the worst.     *)
MayHaveEdges(s, a) ==
  \/ a \in {Me} \cup Present(s) \cup Placeholders
  \/ (HasEdge(s, Me, a) \/ \E n \in Present(s) : HasEdge(s, n, a)) /\ WithinDepth(Classify(s, a))
Reclassify(t, a, class) == IF class = "Unknown" THEN t ELSE SetNodeClass(t, a, class, HintOf(t, a))
MarkedL1(t, b, l1) == IF l1 THEN SetL1(t, b) ELSE t
LocatedIn(t, a, b, src, now) ==
  IF a \notin Present(t) THEN t
  ELSE IF a = Me THEN MarkedL1(FindOrCreate(t, b, now), b, src = "Reported")
  ELSE Reclassify(t, a, Classify(t, a))
Located(s, a, b, src, now) == LocatedIn(FindOrCreate(s, a, now), a, b, src, now)
NewEdge(etx, now, src) == [etx |-> etx, at |-> now, src |-> src, hears |-> FALSE, heard |-> Never]
Replaceable(s, a, src) == {m \in Out(s, a) : Rank(src) >= Rank(EdgeOf(s, a, m).src)}
Score(s, a, m, now) == EdgeOf(s, a, m).etx + AgeEtx * Age(now, EdgeOf(s, a, m).at)
PutEdge(s, a, b, etx, now, src) ==
  LET WorseEdge(x, y) == Score(s, a, x, now) > Score(s, a, y, now)
      R == Replaceable(s, a, src)
      worst == Best(R, WorseEdge)
  IN IF HasEdge(s, a, b)
     THEN IF Rank(src) < Rank(EdgeOf(s, a, b).src) THEN s
          ELSE [s EXCEPT !.node[a].out[b] = [@ EXCEPT !.etx = etx, !.at = now, !.src = src]]
     ELSE IF Cardinality(Out(s, a)) < MAX_EDGES_PER_NODE
     THEN [s EXCEPT !.node[a].out = With(@, b, NewEdge(etx, now, src))]
     ELSE IF R = {} \/ etx >= Score(s, a, worst, now) THEN s
     ELSE [s EXCEPT !.node[a].out = With(Without(@, worst), b, NewEdge(etx, now, src))]
PutEdgeOf(t, a, b, etx, now, src) ==
  IF a \notin Present(t) THEN t ELSE PutEdge([t EXCEPT !.node[a].full = now], a, b, etx, now, src)
UpdateEdge(s, a, b, etx, now, src) ==
  IF NoNode \in {a, b} \/ a = b \/ ~MayHaveEdges(s, a) THEN s
  ELSE PutEdgeOf(Located(s, a, b, src, now), a, b, etx, now, src)

(* What update_edge returns: a new edge, or one whose ETX moved enough.  Any *)
(* change of the small ETX exceeds the threshold; variance is left out.      *)
EdgeNew(s, t, a, b) == HasEdge(t, a, b) /\ ~HasEdge(s, a, b)
EdgeChanged(s, t, a, b) ==
  HasEdge(t, a, b) /\ (HasEdge(s, a, b) => EdgeOf(t, a, b).etx # EdgeOf(s, a, b).etx)

(* retain_listed_edges and clear_hears_us_to_unlisted, for a complete list. *)
RetainListed(s, n, listed) ==
  IF n \notin Present(s) THEN s
  ELSE [s EXCEPT !.node[n].out = [m \in {m \in DOMAIN @ :
          @[m].src = "Reported" \/ m \in Placeholders \/ m \in listed} |-> @[m]]]
ClearHearsToUnlisted(s, n, listed) ==
  [s EXCEPT !.node = [a \in DOMAIN @ |->
     IF a = n \/ a \in listed \/ n \notin DOMAIN @[a].out THEN @[a]
     ELSE [@[a] EXCEPT !.out[n].hears = FALSE]]]

(* age_edges: old edges go, then nodes that nobody we hear vouches for. *)
Recent(out, now) == [m \in {m \in DOMAIN out : Age(now, out[m].at) <= NEIGHBOR_TTL} |-> out[m]]
AgeEdges(s, now) ==
  LET aged == [s EXCEPT !.node =
                 [a \in DOMAIN @ |-> [@[a] EXCEPT !.out = Recent(s.node[a].out, now)]]]
      gone == {n \in Present(aged) \ {Me} :
                 /\ ~Reported(aged, Me, n)
                 /\ \/ Age(now, aged.node[n].full) > NEIGHBOR_TTL
                    \/ Out(aged, n) = {} /\ ~WithinDepth(aged.node[n].class)}
      left == RemoveAll(aged, gone, now)
  IN IF left.node = s.node THEN left ELSE PruneUnreachable(left, now)

EmptyGraph == [node |-> <<>>, pend |-> NoDemotion, ds |-> {}, caps |-> <<>>]

GraphType(s) ==
  /\ Present(s) \subseteq Ids /\ Cardinality(Present(s)) <= MAX_GRAPH_NODES
  /\ \A n \in Present(s) :
       /\ s.node[n].class \in Classes /\ s.node[n].hint \in Ids \cup {NoNode}
       /\ Out(s, n) \subseteq Ids \ {n} /\ Cardinality(Out(s, n)) <= MAX_EDGES_PER_NODE
       /\ \A m \in Out(s, n) : EdgeOf(s, n, m).src \in Sources /\ EdgeOf(s, n, m).hears \in BOOLEAN
  /\ Cardinality(s.ds) <= MAX_DOWNSTREAM
  /\ \A e, f \in s.ds : e.dest = f.dest /\ e.relay = f.relay => e = f
  /\ Cardinality(DOMAIN s.caps) <= MAX_CAPABILITY_RECORDS
=============================================================================
