----------------------------- MODULE UnicastPlan -----------------------------
(***************************************************************************)
(* Whether and how one node relays a packet for a single destination: the  *)
(* unicast part of Router::evaluate_tx_plan                                *)
(* (crates/mesh-routing/src/router.rs) and the election between relays     *)
(* (unicast_relay.rs).                                                     *)
(*                                                                         *)
(* The record c of RelayPlan has more fields here: role, our device role;  *)
(* active, whether it routes; next, the byte of the hop the packet names,  *)
(* or 0; hops, its hop limit; reply, whether it is a routing reply; and    *)
(* repeat, whether it repeats a packet that names us.  A route r comes     *)
(* from CalculateRoute, for the destination.                               *)
(***************************************************************************)
EXTENDS RelayPlan

(* Tiers of candidate_cost: a priced hop, a relay the destination is known *)
(* behind, a hop to our next hop, us without a path, and no path.          *)
DOWNSTREAM_TIER == NoPrice
INDIRECT_TIER == 2 * NoPrice
BEST_EFFORT == 3 * NoPrice
NO_PATH == 4 * NoPrice

DownstreamRelay(s, c, d) == RelayAndCost(InForce(s.ds, c.now), d).relay
ChainTo(s, c) == ChainEgress(InForce(s.ds, c.now), c.dest, Out(s, Me) \ {NoNode, Me}).node
CanFinish(s, c, n) ==
  DeliveryHopCost(s, n, c.dest, c.now) < NoPrice \/ DownstreamRelay(s, c, c.dest) = n
CandidateCost(s, c, n, myNext) ==
  IF DeliveryHopCost(s, n, c.dest, c.now) < NoPrice THEN DeliveryHopCost(s, n, c.dest, c.now)
  ELSE IF n \in {DownstreamRelay(s, c, c.dest), ChainTo(s, c)} THEN DOWNSTREAM_TIER
  ELSE IF myNext \notin {NoNode, c.dest, n, Me} /\ CanDeliver(s, n, myNext)
          /\ HopCost(s, n, myNext) < NoPrice
  THEN INDIRECT_TIER + HopCost(s, n, myNext) ELSE NO_PATH
Direct(cost) == cost < DOWNSTREAM_TIER

(* Another has it: the gateway of both ends, the node it was heard from, or *)
(* a neighbor that heard it there and has sent it.                          *)
SharedGateway(s, c) ==
  LET gw == DownstreamRelay(s, c, c.source)
  IN gw \notin {NoNode, Me} /\ gw = DownstreamRelay(s, c, c.dest) /\ gw \in {c.from} \cup c.tx
BetterPositioned(s, c) ==
  \E n \in (Out(s, Me) \ ({c.from} \cup Placeholders)) \cap c.tx :
    Status(s, n) = "SrActive" /\ CanDeliver(s, c.from, n) /\ CanFinish(s, c, n)
UnicastCovered(s, c) ==
  \/ SharedGateway(s, c)
  \/ c.from \notin {NoNode, Me, c.source} /\ (CanFinish(s, c, c.from) \/ BetterPositioned(s, c))

(* plan_unicast_relay: us and the neighbors that heard this copy, by cost;  *)
(* of those that reach the destination the best two stay, or the best one   *)
(* when it publishes nothing.                                               *)
Skip(reason) == [ok |-> FALSE, reason |-> reason, slot |-> 0, backup |-> FALSE, flood |-> FALSE]
UnicastCosts(s, c, myNext) ==
  LET mine == CandidateCost(s, c, Me, myNext)
      our == IF mine = NO_PATH /\ myNext = Me THEN BEST_EFFORT ELSE mine
      peers == {n \in Out(s, Me) \ ({c.from, c.source, Me} \cup Placeholders) :
                  Status(s, n) = "SrActive" /\ (c.from = NoNode \/ KnownToHear(s, c.from, n))}
      cost(n) == IF n = Me THEN our ELSE CandidateCost(s, c, n, myNext)
  IN [n \in {n \in {Me} \cup peers : cost(n) < NO_PATH} |-> cost(n)]
CostBefore(c, cost, x, y) == cost[x] < cost[y] \/ (cost[x] = cost[y] /\ First(c.odd, x, y))
SlotsAmong(s, c, cost, kept) ==
  LET sending == kept \ c.tx
      ahead == {n \in sending : CostBefore(c, cost, n, Me)}
      others == {n \in sending : ~Direct(cost[n])}
  IN IF Me \in DOMAIN cost \ kept THEN Skip("LastHopReserved")
     ELSE IF Me \notin sending THEN Skip("NoRelayPath")
     ELSE [ok |-> TRUE, reason |-> "UnicastCost", slot |-> Count(ahead),
           backup |-> Direct(cost[Me]) /\ Publishes(s, c.dest) /\ Count(ahead) = 1,
           flood |-> Me \in others /\ Count(others) >= 2
                     /\ \A n \in others \ {Me} : CostBefore(c, cost, n, Me)]
RankUnicast(s, c, cost) ==
  LET directs == {n \in DOMAIN cost : Direct(cost[n])}
      most == IF Publishes(s, c.dest) THEN 2 ELSE 1
      best == {n \in directs : Count({k \in directs : CostBefore(c, cost, k, n)}) < most}
  IN SlotsAmong(s, c, cost, best \cup (DOMAIN cost \ directs))
PlanUnicastRelay(s, c, myNext) ==
  IF UnicastCovered(s, c) THEN Skip("UnicastCovered") ELSE RankUnicast(s, c, UnicastCosts(s, c, myNext))

-----------------------------------------------------------------------------
(* evaluate_tx_plan, for a packet with one destination.                    *)

NoFlags == [backup |-> FALSE, flood |-> FALSE, nominated |-> NoNode, designated |-> 0, hops |-> 0]
Drop(reason) == [relay |-> FALSE, reason |-> reason, stamp |-> 0, flags |-> NoFlags]

CapsLastHop(s, d) ==
  Hears(s, Me, d) /\ \E n \in Out(s, Me) \ {d} : Status(s, n) # "SrActive"
WeCanFinish(s, d) == CapsLastHop(s, d) \/ (HasEdge(s, Me, d) /\ CanDeliver(s, Me, d))
KnownTarget(s, c, r) ==
  r.next # NoNode \/ ChainTo(s, c) # NoNode \/ c.dest \in Present(s)
  \/ DownstreamRelay(s, c, c.dest) # NoNode
Designated(c) == c.next = Low(Me)
RelayerNamed(c) == c.next \notin {0, Low(c.dest)}

(* The hop we would name: not one that is unverified, and not the node the  *)
(* packet came from, to which it would go back.                             *)
HopToName(c, hop, verified) ==
  IF hop = Me \/ ~verified \/ (hop = c.from /\ (c.repeat \/ Designated(c))) THEN NoNode ELSE hop
Backtracks(c, hop, verified) == ~Designated(c) /\ hop # Me /\ hop = c.from /\ ~verified
HandedBack(s, c, hop, verified) ==
  /\ ~Designated(c) /\ hop = c.from /\ HopToName(c, hop, verified) # NoNode
  /\ CanDeliver(s, c.from, c.dest) \/ DownstreamRelay(s, c, c.dest) = c.from

(* A routing reply that its addressee heard from its sender goes no further. *)
RetracesLink(s, c, hop) ==
  /\ c.reply /\ c.from = c.source /\ Measured(s, c.source, c.dest)
  /\ EdgeOf(s, c.source, c.dest).etx <= COVERAGE_ETX_CEILING
  /\ hop \in {NoNode, Me, c.from} \/ (Hears(s, c.source, c.dest) /\ HasEdge(s, Me, c.dest))

(* What goes on the air: the byte of the hop, if its link is strong, and    *)
(* the flags that decide later which copy stands our relay down.            *)
Committed(s, c, next, backup, flood) ==
  LET priced == DeliveryHopCost(s, Me, c.dest, c.now) < NoPrice
      intended == IF priced THEN c.dest ELSE next
      strong == IF priced THEN StrongDeliveryHop(s, Me, c.dest, c.now)
                ELSE StrongHopTo(s, Me, next, c.now)
      named == RelayerNamed(c) /\ ~Designated(c) /\ ~flood
  IN IF c.hops = 1 /\ ~HasEdge(s, Me, c.dest) THEN Drop("DeadEndHop")
     ELSE [relay |-> TRUE, reason |-> "Relay",
           stamp |-> IF strong /\ ~flood THEN Low(intended) ELSE 0,
           flags |-> [backup |-> backup, flood |-> flood,
                      nominated |-> IF flood THEN NoNode ELSE intended,
                      designated |-> IF named THEN c.next ELSE 0,
                      hops |-> IF named THEN c.hops ELSE 0]]

(* No relayer is named: the ranking decides, and without a path the         *)
(* coverage of the neighbors does.                                          *)
Carries(plan) == plan.relay /\ plan.reason # "Sparse"
ByCoverage(s, c, next) ==
  IF HealthyForBroadcast(s) /\ ~Carries(PlanBroadcastRelay(s, [c EXCEPT !.ack = FALSE]))
  THEN Drop("AlreadyCovered") ELSE Committed(s, c, next, FALSE, FALSE)
ByRank(s, c, next, rank) ==
  IF rank.ok THEN Committed(s, c, next, rank.backup, rank.flood) ELSE Drop(rank.reason)
Undesignated(s, c, hop, next) ==
  IF ~c.active THEN Committed(s, c, next, FALSE, FALSE)
  ELSE IF hop # NoNode \/ WeCanFinish(s, c.dest) THEN ByRank(s, c, next, PlanUnicastRelay(s, c, hop))
  ELSE ByCoverage(s, c, next)

(* A relayer is named (plan_designated_unicast): it relays, and the others   *)
(* back it up when they know another way or reach the destination.          *)
ByName(s, c, next) ==
  IF ~Designated(c) /\ ~CapsLastHop(s, c.dest) /\ (next = NoNode \/ Low(next) = c.next)
  THEN Drop("NoRelayPath") ELSE Committed(s, c, next, FALSE, FALSE)

EvaluateHop(s, c, hop, verified) ==
  LET next == IF hop = c.from /\ ~Designated(c) THEN NoNode ELSE HopToName(c, hop, verified)
  IN IF Backtracks(c, hop, verified) THEN Drop("UnverifiedBacktrack")
     ELSE IF HandedBack(s, c, hop, verified) THEN Drop("NextHopIsRelayer")
     ELSE IF Designated(c) /\ hop = NoNode /\ ~WeCanFinish(s, c.dest) THEN Drop("NAK")
     ELSE IF RetracesLink(s, c, hop) THEN Drop("ReplyRetracesLink")
     ELSE IF RelayerNamed(c) THEN ByName(s, c, next) ELSE Undesignated(s, c, hop, next)
EvaluateAnswer(s, c, to) == EvaluateHop(s, c, to.hop, to.hop = NoNode \/ to.stamped)
EvaluateUnicast(s, c, r) ==
  IF ~KnownTarget(s, c, r) THEN Drop("UnknownDestination")
  ELSE EvaluateAnswer(s, c, HopBy(s, c.now, c.role, c.dest, r, ChainTo(s, c), c.source, c.from))

-----------------------------------------------------------------------------
(* unicast_dupe_cancels_for: whether a copy from relayer, which names the    *)
(* byte next, carries the byte relay and has the hop limit hops, stands the  *)
(* relay with these flags down.                                              *)
FromDesignated(flags, relayer, relay) ==
  relay = flags.designated \/ (relayer \notin {NoNode} \cup Placeholders /\ Low(relayer) = flags.designated)
DesignatedMoved(flags, relayer, copy) ==
  /\ flags.designated # 0
  /\ \/ FromDesignated(flags, relayer, copy.relay) /\ copy.next # 0
     \/ copy.next = flags.designated /\ flags.hops # 0 /\ copy.hops < flags.hops
OutranksUs(s, c, myNext, relayer) ==
  LET mine == CandidateCost(s, c, Me, myNext)
      cost == Me :> (IF mine = NO_PATH THEN BEST_EFFORT ELSE mine)
              @@ relayer :> CandidateCost(s, c, relayer, myNext)
  IN cost[relayer] # NO_PATH /\ CostBefore(c, cost, relayer, Me)
FaultyDupeCancels(s, c, myNext, relayer, flags, copy) == TRUE
DupeCancels(s, c, myNext, relayer, flags, copy) ==
  IF DesignatedMoved(flags, relayer, copy) THEN TRUE
  ELSE IF flags.designated # 0 /\ FromDesignated(flags, relayer, copy.relay) THEN FALSE
  ELSE IF relayer \in {NoNode, Me} \cup Placeholders THEN ~CanFinish(s, c, Me)
  ELSE IF flags.backup THEN relayer = c.dest
  ELSE IF flags.flood
  THEN \/ relayer = c.dest \/ CanFinish(s, c, relayer) \/ copy.next = 0
       \/ flags.nominated # NoNode /\ Low(relayer) = Low(flags.nominated)
  ELSE CanFinish(s, c, relayer) \/ (~CanFinish(s, c, Me) /\ OutranksUs(s, c, myNext, relayer))
=============================================================================
