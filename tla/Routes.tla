------------------------------- MODULE Routes -------------------------------
(***************************************************************************)
(* What the tables of the neighbor graph say about delivery: prices, who   *)
(* covers whom, who owns a target, and the route to a destination          *)
(* (crates/mesh-routing/src/graph/route.rs, graph/etx.rs), the route cache *)
(* and the health of next hops (hop_health.rs).                            *)
(*                                                                         *)
(* A price is in units of ETX 1 (100 in the code's fixed point) and        *)
(* saturates below NoPrice, as the code's u16 does.  The variance of an    *)
(* edge is left out, what silence adds to it is kept.                      *)
(***************************************************************************)
EXTENDS GraphStore

CONSTANTS
  NoPrice,                \* ROUTE_COST_UNKNOWN, and None
  PERIOD,                 \* TOPOLOGY_BROADCAST_MS
  PUBLISHER_SILENCE,
  COVERAGE_ETX_CEILING, OWNER_COST_BUCKET, UNVERIFIED_HOP_COST_FACTOR,
  MAX_CACHED_ROUTES, ROUTE_CACHE_TIMEOUT,
  MAX_HOP_HEALTH, HOP_HEALTH_SUSPECT_MISSES, HOP_HEALTH_SUSPECT_TTL

MaxPrice == NoPrice - 1   \* the price a dearer path saturates at, 0xFFF0 to 0xFFFE
AtMost(x, top) == IF x > top THEN top ELSE x
Low(n) == n % 10          \* the byte a packet names its relay by
PlaceholderFor(b) == 90 + b

(* normalize_rx_signal and calculate_etx: a reading of zeroes is no reading; a *)
(* signal under the decoder's threshold is dearer than the coverage ceiling.   *)
Signals == {"none", "strong", "fair", "weak"}
CalculateEtx(signal) ==
  CASE signal = "strong" -> 1 [] signal = "fair" -> 3 [] signal = "weak" -> COVERAGE_ETX_CEILING + 1

(* silence_etx_fixed_from_age, through effective_variance_byte: what a link we *)
(* measured costs more for every half period it was not heard.                 *)
SilencePrice(age) ==
  IF 2 * age < PERIOD THEN 0
  ELSE IF age < PERIOD THEN 1
  ELSE IF age < 2 * PERIOD THEN 4 ELSE 24

(* priced_hop_cost_fixed, for the edge from owner to peer. *)
Priced(s, owner, peer, now, unverified) ==
  LET e == EdgeOf(s, owner, peer)
      etx == IF unverified THEN e.etx * UNVERIFIED_HOP_COST_FACTOR ELSE e.etx
      ours == owner = Me /\ e.src = "Reported" /\ e.heard # Never
  IN AtMost(etx + IF ours THEN SilencePrice(Age(now, e.heard)) ELSE 0, MaxPrice)

Measured(s, a, b) == HasEdge(s, a, b) /\ EdgeOf(s, a, b).src # "Inferred"
KnownToHear(s, a, b) == Hears(s, a, b) \/ HasEdge(s, b, a)
CanDeliver(s, a, b) == KnownToHear(s, a, b) \/ ~Publishes(s, b)

(* hop_cost_fixed, delivery_direction_cost_fixed, delivery_hop_cost_fixed. *)
HopCost(s, a, b) ==
  IF Measured(s, b, a) THEN EdgeOf(s, b, a).etx
  ELSE IF Measured(s, a, b) THEN EdgeOf(s, a, b).etx ELSE NoPrice
DirectionCost(s, a, b, now) ==
  IF Measured(s, b, a) THEN Priced(s, b, a, now, FALSE)
  ELSE IF Measured(s, a, b) THEN Priced(s, a, b, now, Publishes(s, b)) ELSE NoPrice
DeliveryHopCost(s, a, b, now) == IF CanDeliver(s, a, b) THEN DirectionCost(s, a, b, now) ELSE NoPrice
StrongHopTo(s, a, b, now) == b # NoNode /\ DirectionCost(s, a, b, now) <= COVERAGE_ETX_CEILING
StrongDeliveryHop(s, a, b, now) == DeliveryHopCost(s, a, b, now) <= COVERAGE_ETX_CEILING

AcknowledgementPrice(s, candidate, source) ==
  IF /\ {source, candidate} \cap ({NoNode} \cup Placeholders) = {} /\ candidate # source
     /\ Measured(s, candidate, source) /\ Hears(s, candidate, source)
     /\ HopCost(s, candidate, source) <= COVERAGE_ETX_CEILING
  THEN HopCost(s, candidate, source) ELSE NoPrice

(* coverage_owner: the node, of us and of those we hear, that answers for a *)
(* target which publishes nothing: a stock router before us and our likes,  *)
(* then the cheaper bucket, then the smaller id.                            *)
OwnerTier(s, c, meRelays) ==
  IF c = Me THEN IF meRelays THEN 1 ELSE 2
  ELSE IF ImmediateRelayRouter(s, c) THEN 0
  ELSE IF Status(s, c) = "SrActive" THEN 1 ELSE 2
CoverageOwner(s, meRelays, target) ==
  LET able == {c \in Present(s) \ ({target} \cup Placeholders) :
                 /\ RoleOf(s, c) \notin Mutes
                 /\ c = Me \/ Reported(s, Me, c)
                 /\ Measured(s, c, target) /\ EdgeOf(s, c, target).etx <= COVERAGE_ETX_CEILING
                 /\ OwnerTier(s, c, meRelays) < 2}
      bucket(c) == EdgeOf(s, c, target).etx \div OWNER_COST_BUCKET
      Before(x, y) ==
        \/ OwnerTier(s, x, meRelays) < OwnerTier(s, y, meRelays)
        \/ OwnerTier(s, x, meRelays) = OwnerTier(s, y, meRelays) /\ bucket(x) < bucket(y)
  IN IF target \in {NoNode} \cup Placeholders \/ Publishes(s, target) \/ able = {}
     THEN NoNode ELSE Best(able, Before)

IsSilentPublisher(s, n, now) ==
  /\ Publishes(s, n) /\ n \in Present(s)
  /\ Age(now, s.node[n].full) \in PUBLISHER_SILENCE + 1 .. Clock \div 2 - 1
Covers(s, a, b) ==
  /\ KnownToHear(s, a, b) \/ (~Publishes(s, b) /\ HasEdge(s, a, b))
  /\ HopCost(s, a, b) <= COVERAGE_ETX_CEILING

-----------------------------------------------------------------------------
(* The route to a destination.                                             *)

(* is_node_routable. *)
Routable(s, n, myRole, excluded) ==
  /\ n \notin {NoNode} \cup excluded
  /\ ~(myRole = "mute" /\ n = Me)
  /\ Status(s, n) = "Legacy" => LegacyRouter(s, n)
  /\ Status(s, n) # "Passive"

(* One hop of the search that runs from the destination back to us: from n  *)
(* to the nodes n lists, which n hears, and to the nodes that list n, when  *)
(* n publishes nothing or when unverified hops are allowed.                 *)
HopBack(s, n, m, now, unverified) ==
  LET price == IF HasEdge(s, n, m) THEN Priced(s, n, m, now, FALSE)
               ELSE Priced(s, m, n, now, Publishes(s, n))
      rx == IF Reported(s, Me, n) /\ EdgeOf(s, Me, n).heard # Never
            THEN Priced(s, Me, n, now, FALSE) ELSE 0
  IN IF m = Me /\ rx > price THEN rx ELSE price
BackFrom(s, n, unverified) ==
  Out(s, n) \cup {m \in Present(s) \ {n} : HasEdge(s, m, n) /\ (~Publishes(s, n) \/ unverified)}

(* The price of a path with one more hop; no path gets none by it. *)
Plus(cost, hop) == IF cost = NoPrice THEN NoPrice ELSE AtMost(cost + hop, MaxPrice)

FaultyRelax(tab, n, cost) ==
  [m \in DOMAIN tab \cup DOMAIN cost |->
     IF m \in DOMAIN cost /\ (m \in DOMAIN tab => ~tab[m].done)
     THEN [cost |-> Plus(tab[n].cost, cost[m]), prev |-> n, done |-> FALSE] ELSE tab[m]]

(* relax, for all nodes one hop behind n: cost has the price of that hop. *)
Relax(tab, n, cost) ==
  [m \in DOMAIN tab \cup DOMAIN cost |->
     IF m \in DOMAIN tab /\ (m \notin DOMAIN cost \/ tab[m].done \/ tab[m].cost <= Plus(tab[n].cost, cost[m]))
     THEN tab[m]
     ELSE [cost |-> Plus(tab[n].cost, cost[m]), prev |-> n, done |-> FALSE]]

(* backward_search: Dijkstra's algorithm, one visit after the other.  The   *)
(* table has MAX_GRAPH_NODES rows; ids that come when it is full are not in *)
(* it.                                                                      *)
Unvisited(tab) == {n \in DOMAIN tab : ~tab[n].done}
Nearest(tab) ==
  LET Nearer(x, y) == tab[x].cost < tab[y].cost IN Best(Unvisited(tab), Nearer)
Fitting(tab, new) ==
  {m \in new : Cardinality({k \in new : k < m}) < MAX_GRAPH_NODES - Cardinality(DOMAIN tab)}
HopsBack(s, tab, n, now, unverified) ==
  LET all == BackFrom(s, n, unverified)
  IN [m \in Fitting(tab, all \ DOMAIN tab) \cup (all \cap DOMAIN tab) |->
        HopBack(s, n, m, now, unverified)]
Visit(tab, n) == [tab EXCEPT ![n].done = TRUE]
SearchStep(s, d, now, myRole, excluded, unverified, tab) ==
  LET n == Nearest(tab)
  IN IF Unvisited(tab) = {} \/ (Me \in DOMAIN tab /\ tab[Me].done) THEN tab
     ELSE IF n = Me \/ (n # d /\ ~Routable(s, n, myRole, excluded)) THEN Visit(tab, n)
     ELSE Relax(Visit(tab, n), n, HopsBack(s, tab, n, now, unverified))
SearchTable(s, d, now, myRole, excluded, unverified) ==
  LET run[k \in 0..Cardinality(Ids)] ==
        IF k = 0 THEN [n \in {d} |-> [cost |-> 0, prev |-> NoNode, done |-> FALSE]]
        ELSE SearchStep(s, d, now, myRole, excluded, unverified, run[k - 1])
  IN run[Cardinality(Ids)]
NoPath == [cost |-> NoPrice, next |-> NoNode, hops |-> 0]
PathTo(d, tab) ==
  LET walk[k \in 0..MAX_GRAPH_NODES] ==
        IF k = 0 THEN Me ELSE IF walk[k - 1] = d THEN d ELSE tab[walk[k - 1]].prev
  IN IF Me \notin DOMAIN tab \/ d = Me THEN NoPath
     ELSE [cost |-> tab[Me].cost, next |-> tab[Me].prev,
           hops |-> CHOOSE k \in 1..MAX_GRAPH_NODES :
                      walk[k] = d /\ \A j \in 1..MAX_GRAPH_NODES : walk[j] = d => k <= j]
BackwardSearch(s, d, now, myRole, excluded, unverified) ==
  PathTo(d, SearchTable(s, d, now, myRole, excluded, unverified))

NoRoute(d, now) == [dest |-> d, next |-> NoNode, cost |-> NoPrice, hops |-> 0,
                    at |-> now, verified |-> FALSE, mode |-> "Ball"]
RouteBy(d, now, path, verified, mode, more) ==
  IF path.next = NoNode THEN NoRoute(d, now)
  ELSE [dest |-> d, next |-> path.next, cost |-> AtMost(path.cost + more, NoPrice), hops |-> path.hops,
        at |-> now, verified |-> verified, mode |-> mode]
OrElse(route, other) == IF route.next # NoNode THEN route ELSE other

(* try_compose_via_parent: one more hop, from a relay that is in the ball and *)
(* not at a price that saturated.                                             *)
Composed(path) == IF path.cost >= MaxPrice THEN NoPath ELSE [path EXCEPT !.hops = @ + 1]

(* calculate_route.  The sources are tried in this order: a path through the *)
(* ball, unless the destination is outside it and known behind a relay that  *)
(* is inside; the relay that lists it; the parent it was seen behind; a      *)
(* chain of downstream relays; a path with hops nobody confirmed.  The        *)
(* downstream table answers whatever the age of its entries.                  *)
CalculateRoute(s, d, now, myRole, excluded) ==
  LET Search(t, unverified) == BackwardSearch(s, t, now, myRole, excluded, unverified)
      lister == ListDownstream(s.ds, d)
      relay == IF lister.relay # NoNode THEN lister.relay ELSE RelayAndCost(s.ds, d).relay
      via(p) == IF p \in Present(s) THEN Composed(Search(p, FALSE)) ELSE NoPath
      hint == HintOf(s, d)
      ByBall == IF d \in Present(s) \/ relay \notin Present(s)
                THEN RouteBy(d, now, Search(d, FALSE), TRUE, "Ball", 0) ELSE NoRoute(d, now)
      ByLister == RouteBy(d, now, via(lister.relay), TRUE, "ListDownstream", lister.cost)
      ByHint == IF hint \notin {NoNode, d, Me} /\ Measured(s, hint, d)
                THEN RouteBy(d, now, via(hint), Hears(s, hint, d), "ListDownstream",
                             EdgeOf(s, hint, d).etx)
                ELSE NoRoute(d, now)
      ByChain(c) == IF c.node = NoNode \/ c.cost >= MaxPrice THEN NoRoute(d, now)
                    ELSE RouteBy(d, now, [next |-> c.node, hops |-> c.hops, cost |-> c.cost],
                                 FALSE, "OrphanGateway", EdgeOf(s, Me, c.node).etx)
      chain == ChainEgress(s.ds, d, Out(s, Me) \ ({NoNode, Me} \cup excluded))
      Unverified == RouteBy(d, now, Search(d, TRUE), FALSE, "Ball", 0)
  IN IF d \in {NoNode, Me} THEN NoRoute(d, now)
     ELSE OrElse(ByBall, OrElse(ByLister, OrElse(ByHint, OrElse(ByChain(chain), Unverified))))

(* verified_connectivity: an answer, or "unknown" where one end is stock. *)
Stock(s, n) == n \in Placeholders \/ Status(s, n) \in {"Legacy", "Unknown"}
VerifiedConnectivity(s, tx, rx) ==
  IF Stock(s, tx) /\ Stock(s, rx) THEN "unknown"
  ELSE IF (~Stock(s, tx) /\ Reported(s, tx, rx)) \/ (~Stock(s, rx) /\ Reported(s, rx, tx)) THEN "yes"
  ELSE IF Stock(s, tx) \/ Stock(s, rx) THEN "unknown" ELSE "no"

(* find_better_positioned_neighbor: each in turn replaces the best so far, if *)
(* it is cheaper by more than 1.                                              *)
BetterPositionedNeighbor(s, myRole, d, source, heardFrom, cost) ==
  LET able == {n \in Out(s, Me) \ {source, heardFrom} :
                 /\ Routable(s, n, myRole, {})
                 /\ heardFrom # NoNode => VerifiedConnectivity(s, heardFrom, n) = "yes"
                 /\ HasEdge(s, n, d) /\ CanDeliver(s, n, d)}
      scan[N \in SUBSET able] ==
        IF N = {} THEN [node |-> NoNode, cost |-> cost]
        ELSE LET n == CHOOSE n \in N : \A k \in N : k <= n
                 best == scan[N \ {n}]
             IN IF EdgeOf(s, n, d).etx + 1 < best.cost
                THEN [node |-> n, cost |-> EdgeOf(s, n, d).etx] ELSE best
  IN scan[able].node

(* The hop of get_next_hop_inner towards d for a packet heard from heardFrom, *)
(* given the route and the egress of the downstream chain: the hop, and        *)
(* whether it may be stamped on the packet.                                    *)
Stampable(r, chain) == r.verified \/ chain = r.next
HopBy(s, now, myRole, d, r, chain, source, heardFrom) ==
  LET Better(cost) == BetterPositionedNeighbor(s, myRole, d, source, heardFrom, cost)
      hears(h) == heardFrom \in {NoNode, h} \/ VerifiedConnectivity(s, heardFrom, h) = "yes"
      To(hop, stamped) == [dest |-> d, hop |-> hop, stamped |-> stamped]
      Instead(hop, else) == IF hop # NoNode THEN To(hop, FALSE) ELSE else
      last == IF \/ heardFrom # source /\ HasEdge(s, Me, d)
                 \/ IsRelayFor(InForce(s.ds, now), Me, d) \/ Out(s, d) = {Me}
              THEN To(d, FALSE) ELSE To(NoNode, FALSE)
  IN IF r.next # NoNode
     THEN IF hears(r.next)
          THEN Instead(IF r.cost > 2 THEN Better(r.cost) ELSE NoNode, To(r.next, Stampable(r, chain)))
          ELSE IF Hears(s, Me, r.next) THEN To(r.next, Stampable(r, chain))
          ELSE Instead(Better(NoPrice), To(Me, FALSE))
     ELSE IF chain # NoNode /\ hears(chain) THEN To(chain, TRUE)
     ELSE Instead(Better(NoPrice), last)

-----------------------------------------------------------------------------
(* RouteCache: a set of routes, one for each destination.                  *)

CachedRoute(cache, d, now) ==
  {r \in cache : r.dest = d /\ Age(now, r.at) < ROUTE_CACHE_TIMEOUT /\ r.next # NoNode}
InsertRoute(cache, r) ==
  LET same == {x \in cache : x.dest = r.dest}
      old == CHOOSE x \in cache : \A y \in cache \ {x} :
               Age(r.at, x.at) > Age(r.at, y.at) \/ (Age(r.at, x.at) = Age(r.at, y.at) /\ x.dest < y.dest)
  IN IF r.next = NoNode THEN cache
     ELSE IF same # {} \/ Cardinality(cache) < MAX_CACHED_ROUTES THEN (cache \ same) \cup {r}
     ELSE (cache \ {old}) \cup {r}

(* HopHealth: a set of [dest, hop, misses, at]. *)
Live(health, d, hop, now) ==
  {h \in health : h.dest = d /\ h.hop = hop /\ Age(now, h.at) < HOP_HEALTH_SUSPECT_TTL}
Expired(health, d, hop, now) ==
  {h \in health : h.dest = d /\ h.hop = hop /\ Age(now, h.at) >= HOP_HEALTH_SUSPECT_TTL}
IsSuspect(health, d, hop, now) ==
  \E h \in Live(health, d, hop, now) : h.misses >= HOP_HEALTH_SUSPECT_MISSES
RecordMiss(health, d, hop, now) ==
  LET known == Live(health, d, hop, now)
      rest == health \ (known \cup Expired(health, d, hop, now))
      old == CHOOSE x \in rest : \A y \in rest : Age(now, x.at) >= Age(now, y.at)
      kept == IF Cardinality(rest) >= MAX_HOP_HEALTH THEN rest \ {old} ELSE rest
  IN IF NoNode \in {d, hop} THEN health
     ELSE kept \cup {[dest |-> d, hop |-> hop, at |-> now, misses |->
                      1 + IF known = {} THEN 0 ELSE (CHOOSE h \in known : TRUE).misses]}
RecordSuccess(health, d, hop) == {h \in health : ~(h.dest = d /\ h.hop = hop)}
=============================================================================
