------------------------------ MODULE RelayPlan ------------------------------
(***************************************************************************)
(* Who relays a broadcast, as one node decides it from its neighbor graph: *)
(* the election (crates/mesh-routing/src/broadcast_relay.rs), the slots it *)
(* hands out (relay_window.rs, coordinated_relay.rs), and what a copy      *)
(* heard later leaves to a relay that waits (neighbor_graph.rs).           *)
(*                                                                         *)
(* s is the graph of Me.  The packet and what is known of it are a record  *)
(* c: [now, relays, dropped, source, dest, from, tx, odd, ack], where from *)
(* is the node it was heard from, tx the nodes on record as having sent    *)
(* it, odd the parity of its id, relays whether our role relays, dropped   *)
(* the nodes the rate limiter keeps out of the coverage, and ack whether a *)
(* witness is owed to its source.  The lists kept for the log are left     *)
(* out.  ETX is a whole number, so the buckets of half an ETX that costs   *)
(* are compared in matter for averages only.                               *)
(***************************************************************************)
EXTENDS Routes
LOCAL INSTANCE FiniteSetsExt

CONSTANTS SLOT, HALF,             \* slot time, and half the airtime of the frame
          WINDOW_POSITIONS        \* 2 * CW_MAX - 1

Count(S) == Cardinality(S)
First(odd, x, y) == IF odd THEN x > y ELSE x < y

-----------------------------------------------------------------------------
(* Coverage.                                                               *)

(* admits_coverage: a copy from relay counts as reaching target. *)
AdmitsCoverage(s, c, relay, target) ==
  /\ ~IsSilentPublisher(s, target, c.now) /\ target \notin c.dropped
  /\ Covers(s, relay, target) \/ CoverageOwner(s, c.relays, target) = relay

(* get_coverage_if_relays and absorb_relay_coverage. *)
CoverageIfRelays(s, c, relay) ==
  {t \in Out(s, relay) \ Placeholders :
     /\ Measured(s, relay, t) /\ (relay = Me => Reported(s, Me, t))
     /\ AdmitsCoverage(s, c, relay, t)}
Absorb(s, c, relay) ==
  {relay} \cup {t \in Out(s, relay) : Measured(s, relay, t) /\ AdmitsCoverage(s, c, relay, t)}

(* build_already_covered: nobody's silence counts here, nor what is dropped. *)
AlreadyCovered(s, c) ==
  {c.source, c.from} \cup {t \in Out(s, c.from) : Covers(s, c.from, t)}

(* build_candidates. *)
Candidates(s, c) ==
  {Me} \cup {n \in Out(s, Me) \ {c.source, c.from} :
               Hears(s, Me, n) /\ (Status(s, n) = "SrActive" \/ ImmediateRelayRouter(s, n))}

(* The stock routers next to us: those that can hear the transmitter are   *)
(* given a position each, and all of them leave the ranking.  What one is  *)
(* expected to cover is subtracted only when its copy was heard.           *)
StockRouters(s, c) == {n \in Out(s, Me) \ {c.source, c.from} : ImmediateRelayRouter(s, n)}
Reserved(s, c) == {n \in StockRouters(s, c) : HasEdge(s, n, c.from)}
Covered(s, c) ==
  AlreadyCovered(s, c) \cup UNION {Absorb(s, c, n) : n \in Reserved(s, c) \cap c.tx}

-----------------------------------------------------------------------------
(* The ranking.                                                            *)

EarlyWindow(s, n) == RoleOf(s, n) = "router"
Tier(s, c, n) == IF c.source # NoNode /\ Hears(s, n, c.source) /\ EdgeOf(s, n, c.source).etx < 20
                 THEN 1 ELSE 0

(* The cost of reaching the targets U, averaged, in buckets of half an ETX. *)
AverageBucket(s, c, n, U) ==
  LET Price(t) == DeliveryHopCost(s, n, t, c.now)
      priced == {t \in U : Price(t) < NoPrice}
  IN IF priced = {} THEN 0 ELSE (2 * MapThenSumSet(Price, priced)) \div Count(priced)

(* find_best_relay_candidate: a candidate that reaches the targets U has    *)
(* this rank, the smaller the better; equal ranks go by the parity of the   *)
(* packet id.                                                               *)
RelayRank(s, c, n, U) == <<IF EarlyWindow(s, n) THEN 0 ELSE 1, 1 - Tier(s, c, n), 1000 - Count(U),
                      AverageBucket(s, c, n, U)>>
RanksBefore(odd, rank, x, y) ==
  \/ \E i \in 1..4 : rank[x][i] < rank[y][i] /\ \A j \in 1..i - 1 : rank[x][j] = rank[y][j]
  \/ rank[x] = rank[y] /\ First(odd, x, y)

(* PositionAllocator, when r positions are reserved: the delay of the       *)
(* early rung with e early ones before it, of the late rung with l late     *)
(* ones before it, and the first free position.                             *)
Floor == 2 * ((WINDOW_POSITIONS + 1) \div 2) * SLOT
InWindow(r, j) == r + j < WINDOW_POSITIONS /\ r * SLOT + j * HALF < WINDOW_POSITIONS * SLOT
Shown(r) == IF r < WINDOW_POSITIONS THEN r ELSE WINDOW_POSITIONS
EarlyPlaced(r, e) == Count({j \in 0..e - 1 : InWindow(Shown(r), j)})
LastPlaced(r, p) == IF p > 0 THEN r * SLOT + (p - 1) * HALF ELSE (r - 1) * SLOT
LadderStart(r, p) ==
  IF r + p = 0 \/ LastPlaced(r, p) + HALF < Floor THEN Floor ELSE LastPlaced(r, p) + HALF
Spill(r, e, l) ==
  LET p == EarlyPlaced(r, e)
  IN LadderStart(Shown(r), p) + (r + e + l - Shown(r) - p) * HALF
EarlyRung(r, e) == IF InWindow(Shown(r), e) THEN Shown(r) * SLOT + e * HALF ELSE Spill(r, e, 0)
LateRung(r, e, l) == Spill(r, e, l)
FirstFree(r, e, l) == IF Shown(r) + EarlyPlaced(r, e) = 0 THEN Floor ELSE Spill(r, e, l)

-----------------------------------------------------------------------------
(* plan_acknowledgement: a witness for the source, unless a stock router   *)
(* that hears the packet supplies it.                                      *)
Witnesses(s, c) ==
  {n \in ({Me} \cup Out(s, Me)) \ {c.source} :
     /\ n = Me \/ Status(s, n) = "SrActive" \/ ImmediateRelayRouter(s, n)
     /\ AcknowledgementPrice(s, n, c.source) < NoPrice}
WitnessBefore(s, c, x, y) ==
  LET p(n) == AcknowledgementPrice(s, n, c.source)
  IN p(x) < p(y) \/ (p(x) = p(y) /\ First(c.odd, x, y))
FaultyWitnessSupplied(s, c) ==
  \E n \in Out(s, Me) \ {c.source} : Status(s, n) = "SrActive" /\ HasEdge(s, n, c.from)
WitnessSupplied(s, c) ==
  \E n \in Out(s, Me) \ {c.source} : WillNotCancelForUs(s, n) /\ HasEdge(s, n, c.from)
WitnessesAhead(s, c) == {n \in Witnesses(s, c) : WitnessBefore(s, c, n, Me)}
OwesWitness(s, c) == c.ack /\ c.relays /\ ~WitnessSupplied(s, c) /\ Me \in Witnesses(s, c)

(* plan_broadcast_relay.  find_best_relay_candidate passes over whoever has *)
(* sent, and a ranked peer's coverage is not subtracted, so the order is    *)
(* that of one ranking.  given counts the transmissions expected of others. *)
Plan(relay, reason, given, at) == [relay |-> relay, reason |-> reason, given |-> given, at |-> at]
BehindUs(s, c) == \E d \in {c.source, c.dest} : RelayAndCost(InForce(s.ds, c.now), d).relay = Me
PlanWitness(s, c, given, ahead) ==
  IF given = 0 /\ OwesWitness(s, c)
  THEN Plan(TRUE, "Acknowledgement", Count(ahead), Floor + Count(ahead) * HALF)
  ELSE Plan(FALSE, "None", given, 0)
PlanUnranked(s, c, given, free) ==
  IF BehindUs(s, c) THEN Plan(TRUE, "Downstream", given, free)
  ELSE IF Count(Candidates(s, c)) <= 1 THEN Plan(TRUE, "Sparse", given, free)
  ELSE PlanWitness(s, c, given, WitnessesAhead(s, c))
Rung(s, r, early, ahead) ==
  IF EarlyWindow(s, Me) THEN EarlyRung(r, Count(early \cap ahead))
  ELSE LateRung(r, Count(early \cap ahead), Count(ahead \ early))
PlanAmong(s, c, able, ahead, reserved, early) ==
  IF Me \in able
  THEN Plan(TRUE, "Ranked", Count(reserved \ c.tx) + Count(ahead),
            Rung(s, Count(reserved), early, ahead))
  ELSE PlanUnranked(s, c, Count(reserved \ c.tx) + Count(able),
                    FirstFree(Count(reserved), Count(early), Count(able \ early)))
PlanRanked(s, c, rank, reserved) ==
  PlanAmong(s, c, DOMAIN rank, {n \in DOMAIN rank \ {Me} : RanksBefore(c.odd, rank, n, Me)}, reserved,
            {n \in DOMAIN rank : EarlyWindow(s, n)})
PlanReaching(s, c, U, reserved) ==
  PlanRanked(s, c, [n \in {n \in DOMAIN U \ c.tx : U[n] # {}} |-> RelayRank(s, c, n, U[n])], reserved)
PlanOver(s, c, covered) ==
  PlanReaching(s, c, [n \in Candidates(s, c) \ StockRouters(s, c) |->
                        CoverageIfRelays(s, c, n) \ covered], Reserved(s, c))
PlanBroadcastRelay(s, c) == PlanOver(s, c, Covered(s, c))

(* topology_healthy_for_broadcast, has_any_hears_us_neighbor. *)
HealthyForBroadcast(s) ==
  \E n \in Out(s, Me) \ Placeholders : Status(s, n) \in {"SrActive", "Unknown"} \/ LegacyRouter(s, n)
AnyHearsUs(s) == \E n \in Out(s, Me) : Hears(s, Me, n)

(* relay_slot_index, for a relay nobody ranked: the stock routers first,    *)
(* then us and our other neighbors by id.  insurance_rung_index and         *)
(* relay_ladder_span_ms, for the copy that stands in for an expected one.   *)
StockAhead(s, c) ==
  IF c.from = NoNode THEN {}
  ELSE {n \in ReportedNeighbors(s) \ {c.from} : ImmediateRelayRouter(s, n) /\ HasEdge(s, n, c.from)}
Unranked(s, c) ==
  LET others == {n \in ReportedNeighbors(s) \ {c.from} : n \notin c.tx /\ ~ImmediateRelayRouter(s, n)}
      all == others \cup ({Me} \ c.tx)
  IN IF all = {} THEN {Me} ELSE all
UnrankedDelay(s, c) ==
  Floor + HALF * (Count(StockAhead(s, c))
                  + IF Me \in Unranked(s, c) THEN Count({n \in Unranked(s, c) : n < Me}) ELSE 0)
WorstDelay == Floor + 256 * SLOT
LadderSpan(s, c) == Floor + HALF * (Count(Unranked(s, c)) - 1)
FaultyInsuranceRung(s, c) == Count(StockAhead(s, c))
InsuranceRung(s, c) == Count({n \in Unranked(s, c) \ {Me} : First(c.odd, n, Me)})
InsuranceDelay(s, c) ==
  (IF WorstDelay > LadderSpan(s, c) THEN WorstDelay ELSE LadderSpan(s, c))
    + (2 + InsuranceRung(s, c)) * HALF

(* unique_coverage_neighbor: neighbors of ours that no node in T reaches. *)
Owed(s, c, T) ==
  {n \in Out(s, Me) \ (Placeholders \cup T) :
     /\ ~IsSilentPublisher(s, n, c.now) /\ n \notin c.dropped
     /\ Hears(s, Me, n) \/ CoverageOwner(s, c.relays, n) = Me
     /\ Covers(s, Me, n)}
FaultyUniqueCoverage(s, c, T) == {n \in Owed(s, c, T) : \A t \in T : ~HasEdge(s, t, n)}
UniqueCoverage(s, c, T) == {n \in Owed(s, c, T) : \A t \in T : ~Covers(s, t, n)}
=============================================================================
