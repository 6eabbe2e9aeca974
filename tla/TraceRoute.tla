----------------------------- MODULE TraceRoute -----------------------------
(***************************************************************************)
(* What a node writes into a traceroute that passes it                     *)
(* (crates/mesh-routing/src/traceroute.rs), and how far an answer may      *)
(* travel (routing_ack.rs).  A route discovery rd has two legs, "out" and  *)
(* "back", each with the nodes of the way and the signals measured on it.  *)
(* A signal is a number; its unit is left out, its sign decides how many   *)
(* bytes it takes.  An arrival via has the hop limit the packet started    *)
(* with (start) and the one it has left (limit), the relays it counts as   *)
(* taken (used), whether its payload shows that the sender fills in the    *)
(* start (known), and whether it names a next hop (named).                 *)
(***************************************************************************)
EXTENDS Integers, Sequences, FiniteSets

CONSTANTS RouteSize, RouteBytes,   \* entries of a leg, bytes of the payload
          NodeBytes, MinusBytes,   \* bytes of a node and of a negative signal
          HopLimit, HopMargin, LastHopBudget,
          NoNode

NoSignal == -128

(* The relays an arrival took, -1 when that cannot be told. *)
HopsAway(via, known) ==
  IF (via.start = 0 /\ ~known) \/ via.start < via.limit THEN -1 ELSE via.start - via.limit

HopLimitForResponse(via, known) ==
  LET used == HopsAway(via, known)
  IN IF used < 0 THEN HopLimit
     ELSE IF used > HopLimit THEN used
     ELSE IF via.start = 0 THEN 0
     ELSE IF used + HopMargin < HopLimit THEN used + HopMargin ELSE HopLimit

(* A neighbour that needs no relay gets its answer straight. *)
ResponseHops(via, known, lastHop) ==
  LET base == HopLimitForResponse(via, known)
  IN IF via.byte = 0 /\ lastHop /\ LastHopBudget < base THEN LastHopBudget ELSE base

Filled(s, n, x) == s \o [i \in 1..(IF n > Len(s) THEN n - Len(s) ELSE 0) |-> x]
Capped(n) == IF n > RouteSize THEN RouteSize ELSE n

(* Hops that wrote nothing become unknown ones. *)
FaultyInsertUnknownHops(leg, used) ==
  [leg EXCEPT !.snr = Filled(@, Capped(Len(leg.way)), NoSignal)]
InsertUnknownHops(leg, used) ==
  LET way == Filled(leg.way, Capped(used), NoNode)
  IN IF used < 0 THEN leg
     ELSE [way |-> way, snr |-> Filled(leg.snr, Capped(Len(way)), NoSignal)]

AppendIdAndSnr(leg, id, snr, snrOnly) ==
  [way |-> IF snrOnly \/ Len(leg.way) >= RouteSize THEN leg.way ELSE Append(leg.way, id),
   snr |-> IF Len(leg.snr) >= RouteSize THEN leg.snr ELSE Append(leg.snr, snr)]

AlterOnRelay(rd, leg, used, id, snr, atEnd) ==
  [rd EXCEPT ![leg] = AppendIdAndSnr(InsertUnknownHops(@, used), id, snr, atEnd)]

(* encode_route_discovery: empty lists cost nothing, the others a header. *)
Field(n) == IF n = 0 THEN 0 ELSE n + 2
LegBytes(leg) ==
  LET minus == Cardinality({i \in DOMAIN leg.snr : leg.snr[i] < 0})
  IN Field(NodeBytes * Len(leg.way)) + Field(Len(leg.snr) + (MinusBytes - 1) * minus)
Fits(rd) == LegBytes(rd["out"]) + LegBytes(rd["back"]) <= RouteBytes

(* A relay that cannot write its entry passes the packet on as it is. *)
RebuildRelay(rd, leg, used, id, snr) ==
  LET new == AlterOnRelay(rd, leg, used, id, snr, FALSE) IN IF Fits(new) THEN new ELSE rd
=============================================================================
