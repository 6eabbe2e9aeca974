-------------------------------- MODULE Mesh --------------------------------
(***************************************************************************)
(* A small mesh in which one packet travels: every node of ours elects     *)
(* relays from its own graph (UnicastPlan), keeps its transmit bookkeeping *)
(* (RouterTx), and hears what its neighbors send.  This is the path of a   *)
(* packet through Router::process_inbound, evaluate_tx_plan,               *)
(* poll_ready_relay, poll_t1_retransmit and perhaps_cancel_dupe            *)
(* (crates/mesh-routing/src/router.rs) with packet_history.rs, on every    *)
(* node at once.                                                           *)
(*                                                                         *)
(* The graphs are those the lists of the neighbors settle on, and stay as  *)
(* they are while the packet travels: NeighborGraph models their changes.  *)
(* Slots carry no time: the nodes that wait may send in any order, which   *)
(* is more than clocks and channel access allow.  A frame reaches          *)
(* everybody who hears its sender, and a node may fail before its turn.    *)
(* Retransmissions are left to TxPath; the source sends once, so that the  *)
(* branch for a retry of the originator has nothing to take.  Stock nodes  *)
(* are external: they relay what they hear or they do not.                 *)
(***************************************************************************)
EXTENDS Integers, FiniteSets, Sequences, TLC

CONSTANTS
  Shapes,           \* networks: [hears, ours, routers], hears[n] being the nodes n hears
  HOPS,             \* the hop limit of the packet
  Kinds,            \* which packets are sent, a subset of {"b", "u"}
  MaxCrashes,
  SLOT, HALF, WINDOW_POSITIONS, GRAPH_MAX_DEPTH, COVERAGE_ETX_CEILING, OWNER_COST_BUCKET,
  UNVERIFIED_HOP_COST_FACTOR, NoPrice

NoNode == 0
AllNodes == UNION {DOMAIN sh.hears : sh \in {Shapes[i] : i \in DOMAIN Shapes}}

(* The tables are large enough for such a mesh, and nothing ages. *)
N(n) == INSTANCE UnicastPlan WITH
  Me <- n, Real <- AllNodes \ {n}, Placeholders <- {},
  MAX_GRAPH_NODES <- 9, MAX_EDGES_PER_NODE <- 9, MAX_DOWNSTREAM <- 9, MAX_CAPABILITY_RECORDS <- 9,
  NEIGHBOR_TTL <- 9, CAPABILITY_TTL <- 9, AgeEtx <- 1, Clock <- 64, PERIOD <- 9,
  PUBLISHER_SILENCE <- 9, MAX_CACHED_ROUTES <- 1, ROUTE_CACHE_TIMEOUT <- 1,
  MAX_HOP_HEALTH <- 1, HOP_HEALTH_SUSPECT_MISSES <- 1, HOP_HEALTH_SUSPECT_TTL <- 1
R == INSTANCE RouterTx WITH
  Unicasts <- {"u"}, Broadcasts <- {"b"}, OwnUnicasts <- {}, OwnBroadcasts <- {},
  MAX_PENDING_RELAYS <- 1, MAX_RELAY_STATES <- 1, MAX_PENDING_RELIABLE <- 1,
  MAX_PENDING_RETRANSMITS <- 1, NUM_RELIABLE_RETX <- 1, NAMED_FOLLOWUP_TRIES <- 1,
  NoSlot <- "none"

VARIABLES
  net,              \* the network, an index of Shapes
  pkt,              \* the packet: [k, src, dst, next, odd, text, reply]
  node,             \* what each node knows of it
  alive             \* the nodes that have not failed
vars == <<net, pkt, node, alive>>

Shape == Shapes[net]
Members == DOMAIN Shape.hears
Hearers(n) == {m \in Members : n \in Shape.hears[m]}

-----------------------------------------------------------------------------
(* The graph of a node: its own neighbors as it measured them, the lists of *)
(* the nodes of ours that are near enough, and the links back that it infers *)
(* for neighbors that list nobody.                                          *)

Near(sh, n) ==
  LET reach[k \in 0..GRAPH_MAX_DEPTH] ==
        IF k = 0 THEN {n} ELSE reach[k - 1] \cup UNION {sh.hears[m] : m \in reach[k - 1]}
  IN reach[GRAPH_MAX_DEPTH]
EdgeRec(src, hears) == [etx |-> 1, at |-> 0, src |-> src, hears |-> hears, heard |-> 0]
ViewOf(sh, n) ==
  LET lists == sh.ours \cap Near(sh, n)
      out(m) == [x \in sh.hears[m] |->
                  EdgeRec(IF m = n THEN "Reported" ELSE "Mirrored",
                          x \in sh.ours /\ m \in sh.hears[x])]
      back(m) == n :> EdgeRec("Inferred", TRUE)
      known == lists \cup sh.hears[n] \cup UNION {sh.hears[m] : m \in lists}
  IN [node |-> [m \in known |->
                 [class |-> "L1", hint |-> NoNode, full |-> 0, out |->
                   IF m \in lists THEN out(m)
                   ELSE IF m \in sh.hears[n] THEN back(m) ELSE << >>]],
      pend |-> [victim |-> NoNode, parent |-> NoNode, cost |-> 0],
      ds |-> {},
      caps |-> [m \in (known \ {n}) \cap (sh.ours \cup sh.routers) |->
                 [st |-> IF m \in sh.ours THEN "SrActive" ELSE "Unknown",
                  role |-> IF m \in sh.routers THEN "router" ELSE "client", at |-> 0]]]
Views == [i \in DOMAIN Shapes |-> [n \in Shapes[i].ours |-> ViewOf(Shapes[i], n)]]
RoleIn(sh, n) == IF n \in sh.routers THEN "router" ELSE "client"
RoutesTo == [i \in DOMAIN Shapes |-> [n \in Shapes[i].ours |-> [d \in DOMAIN Shapes[i].hears |->
               N(n)!CalculateRoute(Views[i][n], d, 0, RoleIn(Shapes[i], n), {})]]]

-----------------------------------------------------------------------------
(* One node.  max is the highest hop limit PacketHistory saw, or -1; frame  *)
(* what waits in the pending slot, flags its UnicastSlotFlags, from and     *)
(* heard the transmitters of the commit, tx the nodes on record as having   *)
(* sent the packet, insured the hop limit of the insurance and at its delay *)
(* or that of the relay.  again is not in the code: it marks that the relay *)
(* was planned a second time, for a better copy.                            *)

NoFlags == [backup |-> FALSE, flood |-> FALSE, nominated |-> NoNode, designated |-> 0, hops |-> 0]
Unseen == [r |-> R!NewRouter, max |-> -1, hops |-> 0, next |-> 0, flags |-> NoFlags,
           from |-> NoNode, heard |-> {}, tx |-> {}, insured |-> 0, at |-> 0, again |-> FALSE]

Context(n, q, f, repeat) ==
  [now |-> 0, relays |-> TRUE, dropped |-> {}, source |-> pkt.src, dest |-> pkt.dst, from |-> f.by,
   tx |-> q.tx, odd |-> pkt.odd, ack |-> pkt.text /\ f.by = pkt.src,
   role |-> RoleIn(Shape, n), active |-> TRUE, next |-> f.next, hops |-> f.hops,
   reply |-> pkt.reply, repeat |-> repeat]

(* The radio loop empties the list of cancelled frames: none is queued here. *)
Settled(r) == [r EXCEPT !.cancels = {}, !.planned = [k \in DOMAIN @ |-> 0]]
Wait(q, f, next, flags, at) ==
  [q EXCEPT !.r = Settled(R!StorePending(R!CommitRelay(@, pkt.k), pkt.k)),
            !.hops = f.hops - 1, !.next = next, !.flags = flags, !.from = f.by, !.heard = {},
            !.at = at]

(* evaluate_tx_plan for a broadcast: our own transmission goes on record as *)
(* soon as it is planned.                                                   *)
ByPlan(n, q, f, s, c, plan) ==
  IF plan.relay THEN Wait([q EXCEPT !.tx = @ \cup {n}], f, 0, NoFlags, plan.at)
  ELSE IF plan.given > 0 /\ N(n)!AnyHearsUs(s)
  THEN [q EXCEPT !.r = Settled(R!ScheduleT1(@, pkt.k)), !.from = f.by, !.insured = f.hops - 1,
                 !.at = N(n)!InsuranceDelay(s, c)]
  ELSE q
EvaluateBroadcast(n, q, f, s, c) ==
  IF N(n)!HealthyForBroadcast(s) THEN ByPlan(n, q, f, s, c, N(n)!PlanBroadcastRelay(s, c))
  ELSE Wait(q, f, 0, NoFlags, N(n)!UnrankedDelay(s, c))
EvaluateUnicast(n, q, f, verdict) ==
  IF verdict.relay THEN Wait(q, f, verdict.stamp, verdict.flags, 0) ELSE q
EvaluateTxPlan(n, q, f, repeat) ==
  IF pkt.k \in q.r.ourTx \/ f.hops = 0 \/ n = pkt.dst THEN q
  ELSE IF pkt.k = "b" THEN EvaluateBroadcast(n, q, f, Views[net][n], Context(n, q, f, FALSE))
  ELSE EvaluateUnicast(n, q, f,
         N(n)!EvaluateUnicast(Views[net][n], Context(n, q, f, repeat), RoutesTo[net][n][pkt.dst]))

(* perhaps_cancel_dupe: the copy is a rebroadcast, its sender is known. *)
Verdict(n, q, f, s, c) ==
  [nominated |-> FALSE, cancelingRole |-> c.role # "router",
   uncovered |-> N(n)!UniqueCoverage(s, c, {q.from} \cup q.heard) # {},
   dupeCancels |-> /\ pkt.k = "u" /\ c.role # "router"
                   /\ N(n)!DupeCancels(s, c, RoutesTo[net][n][pkt.dst].next, f.by, q.flags,
                                       [relay |-> f.by, next |-> f.next, hops |-> f.hops])]
HandleDuplicate(n, q, f) ==
  [q EXCEPT !.r = Settled(R!HandleDuplicate(@, pkt.k, FALSE,
                    Verdict(n, q, f, Views[net][n], Context(n, q, f, FALSE))))]

(* process_inbound: a new packet; a better copy of one whose relay waits, or *)
(* a unicast that names us and that we have not sent, which are planned      *)
(* afresh; any other copy.                                                   *)
DesignatedRepeat(n, q, f) ==
  pkt.k = "u" /\ n # pkt.dst /\ f.next = n /\ f.hops > 0 /\ pkt.k \notin q.r.ourTx
Upgrades(q, f) == f.hops > q.max /\ pkt.k \in q.r.pending /\ q.hops < f.hops
Repeats(n, q, f) == f.hops <= q.max /\ DesignatedRepeat(n, q, f)
Receive(n, q, f) ==
  LET new == q.max < 0
      q1 == [q EXCEPT !.max = IF f.hops > @ THEN f.hops ELSE @, !.tx = @ \cup {pkt.src, f.by},
                      !.again = @ \/ (~new /\ Upgrades(q, f))]
  IN IF new \/ Upgrades(q, f) \/ Repeats(n, q, f)
     THEN EvaluateTxPlan(n, [q1 EXCEPT !.r = Settled(R!Forget(@, pkt.k))], f, ~new /\ Repeats(n, q, f))
     ELSE HandleDuplicate(n, [q1 EXCEPT !.heard = @ \cup {f.by}], f)

(* A frame reaches those who hear it.  Of a stock node, and of the source,   *)
(* only what it has received is kept.                                        *)
Heard(n, q, f) ==
  IF n \in Shape.ours \ {pkt.src} THEN Receive(n, q, f)
  ELSE [q EXCEPT !.max = IF f.hops > @ THEN f.hops ELSE @, !.heard = @ \cup {f.by}]

-----------------------------------------------------------------------------
(* What is sent: a unicast may name a node that hears it. *)
Packets(sh) ==
  LET V == DOMAIN sh.hears
      b == [k : {"b"}, src : V, dst : {NoNode}, next : {0}, odd : BOOLEAN, text : BOOLEAN, reply : {FALSE}]
      u == [k : {"u"}, src : V, dst : V, next : {0} \cup V, odd : BOOLEAN, text : {FALSE}, reply : BOOLEAN]
  IN {p \in b \cup u : /\ p.k \in Kinds /\ p.src # p.dst
                       /\ p.next = 0 \/ p.src \in sh.hears[p.next]}
Init ==
  /\ net \in DOMAIN Shapes
  /\ pkt \in Packets(Shape)
  /\ node = [n \in Members |-> Unseen]
  /\ alive = Members

Sent(q) == [q EXCEPT !.r = R!NoteTxDone(@, pkt.k)]
Started == pkt.k \in node[pkt.src].r.ourTx

(* What a node may send, and its state once it has: the source its packet;   *)
(* a node of ours the relay that waits (poll_ready_relay) or the insurance   *)
(* (poll_t1_retransmit); a stock node what it heard, once.                   *)
Frame(n, hops, next) == [by |-> n, hops |-> hops, next |-> next]
Originations(n) ==
  IF n # pkt.src \/ Started THEN {}
  ELSE {[f |-> Frame(n, HOPS, pkt.next), q |-> [node[n] EXCEPT !.max = HOPS]]}
Relays(n) ==
  IF n \notin Shape.ours \/ pkt.k \notin node[n].r.pending THEN {}
  ELSE {[f |-> Frame(n, node[n].hops, node[n].next),
         q |-> [node[n] EXCEPT !.r = R!CancelPending(@, pkt.k)]]}
Insures(n) ==
  IF node[n].r.t1[1].st # "armed" \/ pkt.k \in node[n].r.ourTx THEN {}
  ELSE {[f |-> Frame(n, node[n].insured, 0), q |-> [node[n] EXCEPT !.r = R!FireT1(@, 1)]]}
StockRelays(n) ==
  IF n \in Shape.ours \cup {pkt.src, pkt.dst} \/ node[n].max < 1 \/ pkt.k \in node[n].r.ourTx THEN {}
  ELSE {[f |-> Frame(n, node[n].max - 1, 0), q |-> node[n]]}
Transmit(n) ==
  /\ n \in alive
  /\ \E x \in Originations(n) \cup Relays(n) \cup Insures(n) \cup StockRelays(n) :
       node' = [m \in Members |-> IF m = n THEN Sent(x.q)
                                 ELSE IF m \in Hearers(n) \cap alive THEN Heard(m, node[m], x.f)
                                 ELSE node[m]]
  /\ UNCHANGED <<net, pkt, alive>>

Crash(n) ==
  /\ Started /\ n \in alive \ {pkt.src} /\ Cardinality(Members \ alive) < MaxCrashes
  /\ alive' = alive \ {n}
  /\ UNCHANGED <<net, pkt, node>>

Next == \E n \in Members : Transmit(n) \/ Crash(n)
Spec == Init /\ [][Next]_vars

-----------------------------------------------------------------------------
Waiting(n) == pkt.k \in node[n].r.pending \/ node[n].r.t1[1].st = "armed"
Insuring(n) == node[n].r.t1[1].st = "armed"
Quiet == Started /\ \A n \in alive \cap Shape.ours : ~Waiting(n)
Has(n) == node[n].max >= 0
TwoWay(n) == Hearers(n) \cap Shape.hears[n]

(* Whom a node answers for: the neighbors whose links to it go both ways.    *)
(* Nobody can tell that a stock node does not hear who hears it, and a stock *)
(* node is left to its owner, which may fail.                                *)
Served(n) ==
  {m \in TwoWay(n) : m \in Shape.ours \/ (Hearers(m) \subseteq Shape.hears[m] /\ alive = Members)}
LeavesNobody(n) ==
  Has(n) /\ node[n].max > 0 => \A m \in Served(n) \cap alive : Has(m)

(* The nodes that relays along two-way links could bring the packet to. *)
Reachable(n) ==
  LET reach[k \in 0..HOPS] ==
        IF k = 0 THEN {n}
        ELSE reach[k - 1] \cup UNION {TwoWay(m) : m \in reach[k - 1] \cap (Shape.ours \cup {n})}
  IN reach[HOPS]
WellNamed ==
  \/ pkt.next = 0
  \/ pkt.src \in Shape.ours /\ pkt.next \in Shape.ours /\ pkt.next = RoutesTo[net][pkt.src][pkt.dst].next
Echo == pkt.reply /\ pkt.dst \in Shape.hears[pkt.src] /\ pkt.src \notin Shape.hears[pkt.dst]

-----------------------------------------------------------------------------
(* When nobody waits any more, a node that received a broadcast with hops to *)
(* spare has no neighbor without it: relays are elected, deferred and        *)
(* cancelled (plan_broadcast_relay, perhaps_cancel_dupe, T1) on different    *)
(* graphs and on copies heard in any order, one node may have failed, and    *)
(* still each neighbor got a copy.  A node that planned its relay again for  *)
(* a better copy is left to UpgradeStillRelays.                              *)
NobodyLeftOut ==
  pkt.k = "b" /\ Quiet => \A n \in alive \cap Shape.ours : node[n].again \/ LeavesNobody(n)

(* process_inbound replaces a waiting relay by one for a copy with more hops *)
(* (try_handle_upgraded): it is still the relay its neighbors depend on.     *)
UpgradeStillRelays ==
  pkt.k = "b" /\ Quiet => \A n \in alive \cap Shape.ours : node[n].again => LeavesNobody(n)

(* A relay that waits for a neighbor is kept until a copy covers that        *)
(* neighbor, so that a relay that never comes is backed up: a failure of one *)
(* node costs nobody the packet whom another live node of ours serves.       *)
OverlapBackedUp ==
  pkt.k = "b" /\ Quiet =>
    \A n \in alive \cap Shape.ours :
      Has(n) /\ node[n].max > 0 /\ ~node[n].again =>
        \A m \in TwoWay(n) \cap alive : Hearers(m) \subseteq Shape.hears[m] => Has(m)

(* The source of a text broadcast hears a copy of it back                    *)
(* (plan_acknowledgement), whichever node fails: where links go both ways,   *)
(* no two nodes each leave the witness to the other.                         *)
SourceAnswered ==
  /\ pkt.text /\ Quiet /\ pkt.src \in Shape.ours /\ Shape.routers \subseteq Shape.ours
  /\ \A n \in Members : Hearers(n) = Shape.hears[n]
  /\ TwoWay(pkt.src) \cap Shape.ours \cap alive # {}
  => node[pkt.src].heard # {}

(* Two nodes that stand in for the same frame and hear each other fire their *)
(* insurance at different times (insurance_rung_index), so that the first    *)
(* one can silence the other.                                                *)
DistinctInsurance ==
  \A n, m \in alive \cap Shape.ours :
    n # m /\ Insuring(n) /\ Insuring(m) /\ node[n].from = node[m].from
          /\ n \in TwoWay(m) => node[n].at # node[m].at

(* A unicast reaches its destination where relays of ours along two-way      *)
(* links reach it and nobody fails: of the nodes that rank themselves, stand *)
(* back for a named hop or drop their slot for a copy heard                  *)
(* (plan_unicast_relay, dupe_cancels), one always relays.  A reply whose     *)
(* destination does not hear the source while the source hears it is taken   *)
(* to have arrived (evaluate_tx_plan).                                       *)
Delivered ==
  pkt.k = "u" /\ Quiet /\ alive = Members /\ pkt.dst \in Reachable(pkt.src) /\ WellNamed /\ ~Echo
  => Has(pkt.dst)
=============================================================================
