------------------------------ MODULE RateLimit ------------------------------
(***************************************************************************)
(* The rate limiter of the receive path: one budget per originator and     *)
(* kind of traffic, one per last hop that relays to this node, one shared  *)
(* budget for last hops that cannot be named, one per flooded destination, *)
(* and one that all recently minted identities share.  A limiter is a      *)
(* record l; every operator takes it with the packet and the time and      *)
(* returns the new limiter or a verdict.                                   *)
(*                                                                         *)
(* Time is the wrapping millisecond clock, Clock ticks long.  The latches  *)
(* boot_warmed and graduated are left out: they differ from the comparison *)
(* they remember only once a whole turn of the clock has passed.  So are   *)
(* the log events and the switch that no caller turns off.                 *)
(***************************************************************************)
EXTENDS Integers, Sequences, FiniteSets

CONSTANTS Clock, Window, Warmup, YoungAge, Refractory,  \* lengths of time
          Trip,                         \* packets of each kind that trip a budget
          YoungTrip, YoungClear, DestTrip, DestClear, DestMinSenders,
          RelayTripPackets, RelayClearPackets,
          RelayTripFloor, RelayTripCeil, RelayClearFloor, RelayClearCeil, RefAirtime,
          MaxOriginators, MaxRelays, MaxDests, MaxSenders, MaxYoung, MaxAlumni,
          Me, Broadcast, NoNode, Never

BucketKinds == {"text", "routing", "other", "unknown"}

(* A port number, or "none" when the payload could not be decoded. *)
BucketOf(port) ==
  CASE port = "none" -> "unknown"
    [] port = "text" -> "text"
    [] port \in {"ack", "topology", "traceroute"} -> "routing"
    [] OTHER -> "other"

Tier(port, primary) ==
  CASE port = "none" -> "low"
    [] port = "text" -> IF primary THEN "critical" ELSE "medium"
    [] port = "admin" -> "critical"
    [] port \in {"ack", "topology", "traceroute"} -> "high"
    [] OTHER -> "low"

CanRelay(port, primary, util) ==
  CASE Tier(port, primary) = "low" -> util < 25
    [] Tier(port, primary) = "medium" -> util < 30
    [] Tier(port, primary) = "high" -> util < 38
    [] OTHER -> TRUE

Larger(a, b) == IF a > b THEN a ELSE b
Clamp(x, lo, hi) == IF x < lo THEN lo ELSE IF x > hi THEN hi ELSE x
Elapsed(now, since) == (now - since) % Clock

-----------------------------------------------------------------------------
(* Buckets. *)

Fresh(now) == [start |-> now, n |-> 0, limited |-> FALSE, clear |-> 0]

Windows(b, now) == Elapsed(now, b.start) \div Window

LimitedAt(b, now, clear) ==
  /\ b.limited
  /\ \/ Windows(b, now) = 0
     \/ /\ Windows(b, now) = 1
        /\ b.n >= IF b.clear # 0 THEN b.clear ELSE clear

Roll(b, now, clear) ==
  IF Windows(b, now) = 0 THEN b
  ELSE [b EXCEPT !.limited = LimitedAt(b, now, clear), !.n = 0,
                 !.start = (b.start + Windows(b, now) * Window) % Clock]

(* A trip starts a new window and keeps the count. *)
TripOf(b, trip, now) ==
  IF ~b.limited /\ b.n >= trip THEN [b EXCEPT !.limited = TRUE, !.start = now] ELSE b

Counted(b, clear, charge, now) ==
  [Roll([b EXCEPT !.clear = clear], now, clear) EXCEPT !.n = @ + charge]
CheckAndUpdate(b, trip, clear, charge, now) ==
  TripOf(Counted(b, clear, charge, now), trip, now)

OriginatorClear(kind) == Larger(1, Trip[kind] \div 2)

(* The airtime a last hop may use: about RelayTripPackets packets like     *)
(* this one, less on a busy channel, between a floor and a ceiling.        *)
RelayTrip(air, util) ==
  LET busy == Clamp(util - 25, 0, 25)
  IN Clamp((RelayTripPackets * air * (50 - busy)) \div 50, RelayTripFloor, RelayTripCeil)
RelayClear(trip) ==
  Clamp((trip * RelayClearPackets) \div RelayTripPackets, RelayClearFloor, RelayClearCeil)

-----------------------------------------------------------------------------
(* Tables.  A full table gives up the entry that is not limited and is      *)
(* outside the graph, farthest away, or oldest, in this order.             *)

NewLimiter ==
  [orig |-> << >>, relays |-> << >>, dests |-> << >>, young |-> << >>, alumni |-> {},
   unresolved |-> Fresh(0), newcomers |-> Fresh(0), boot |-> Never, announced |-> Never]

Find(s, id) ==
  IF \E i \in DOMAIN s : s[i].id = id THEN CHOOSE i \in DOMAIN s : s[i].id = id ELSE 0

(* Strictly above in the lexicographic order of sequences of three. *)
Above(p, q) ==
  \E k \in 1..3 : p[k] > q[k] /\ \A j \in 1..(k - 1) : p[j] = q[j]

EvictionRank(proximity, id, age) ==
  <<IF proximity[id].in THEN 0 ELSE 1, proximity[id].hops, age>>

(* entries: one record per slot, [id, limited, age] *)
FaultyEvictionCandidate(entries, proximity) ==
  LET open == DOMAIN entries
      Rank(i) == EvictionRank(proximity, entries[i].id, entries[i].age)
  IN IF open = {} THEN 0
     ELSE CHOOSE i \in open : \A j \in open \ {i} :
            Above(Rank(i), Rank(j)) \/ (Rank(i) = Rank(j) /\ i < j)
EvictionCandidate(entries, proximity) ==
  LET open == {i \in DOMAIN entries : ~entries[i].limited}
      Rank(i) == EvictionRank(proximity, entries[i].id, entries[i].age)
  IN IF open = {} THEN 0
     ELSE CHOOSE i \in open : \A j \in open \ {i} :
            Above(Rank(i), Rank(j)) \/ (Rank(i) = Rank(j) /\ i < j)

(* The table with a slot for the entry, or as it was when every slot is    *)
(* taken by a limited node.                                                *)
Placed(s, max, entry, entries, proximity) ==
  IF Len(s) < max THEN Append(s, entry)
  ELSE LET v == EvictionCandidate(entries, proximity)
       IN IF v = 0 THEN s ELSE [s EXCEPT ![v] = entry]

OriginatorLimited(e, now) ==
  \E k \in BucketKinds : LimitedAt(e.b[k], now, OriginatorClear(k))

WithOriginator(s, id, now, proximity) ==
  IF Find(s, id) # 0 THEN [s EXCEPT ![Find(s, id)].seen = now]
  ELSE Placed(s, MaxOriginators,
              [id |-> id, seen |-> now, b |-> [k \in BucketKinds |-> Fresh(now)]],
              [i \in DOMAIN s |-> [id |-> s[i].id, limited |-> OriginatorLimited(s[i], now),
                                   age |-> Elapsed(now, s[i].seen)]], proximity)

WithRelay(s, id, now, proximity) ==
  IF Find(s, id) # 0 THEN s
  ELSE Placed(s, MaxRelays, [id |-> id, b |-> Fresh(now)],
              [i \in DOMAIN s |-> [id |-> s[i].id,
                                   limited |-> LimitedAt(s[i].b, now, RelayClearFloor),
                                   age |-> Elapsed(now, s[i].b.start)]], proximity)

WithDest(s, id, now, proximity) ==
  IF Find(s, id) # 0 THEN s
  ELSE Placed(s, MaxDests, [id |-> id, b |-> Fresh(now), senders |-> {}],
              [i \in DOMAIN s |-> [id |-> s[i].id, limited |-> LimitedAt(s[i].b, now, DestClear),
                                   age |-> Elapsed(now, s[i].b.start)]], proximity)

-----------------------------------------------------------------------------
(* Identities first heard after the warm-up are young for YoungAge and      *)
(* then alumni; those heard during the warm-up are alumni at once.         *)

WarmedUp(l, now) == l.boot # Never /\ Elapsed(now, l.boot) >= Warmup
YoungActive(s, now) == Elapsed(now, s.first) < YoungAge
YoungTableFull(l, now) ==
  Cardinality({i \in DOMAIN l.young : YoungActive(l.young[i], now)}) >= MaxYoung

AddAlumni(l, id) ==
  IF Cardinality(l.alumni) < MaxAlumni THEN [l EXCEPT !.alumni = @ \cup {id}] ELSE l

RemoveYoungAt(l, i) ==
  LET last == Len(l.young)
  IN [l EXCEPT !.young = SubSeq([l.young EXCEPT ![i] = l.young[last]], 1, last - 1)]

InsertYoung(l, id, now) == [l EXCEPT !.young = Append(@, [id |-> id, first |-> now])]

(* A graduated node stays in the young table while the alumni are full. *)
ExpireIfOld(l, id, now) ==
  LET i == Find(l.young, id)
      a == AddAlumni(l, id)
  IN IF i = 0 \/ (i # 0 /\ YoungActive(l.young[i], now)) \/ id \notin a.alumni THEN l
     ELSE RemoveYoungAt(a, i)

Arrive(l, id, now) ==
  LET aged == {i \in DOMAIN l.young : ~YoungActive(l.young[i], now)}
      first == CHOOSE i \in aged : \A j \in aged : i <= j
  IN IF Find(l.young, id) # 0 \/ id \in l.alumni THEN l
     ELSE IF ~WarmedUp(l, now) THEN AddAlumni(l, id)
     ELSE IF Len(l.young) < MaxYoung THEN InsertYoung(l, id, now)
     ELSE IF aged # {} THEN InsertYoung(RemoveYoungAt(AddAlumni(l, l.young[first].id), first), id, now)
     ELSE l

NoteOriginator(l, id, now) == Arrive(ExpireIfOld(l, id, now), id, now)

(* Unknown to both tables: young exactly when the young table is full. *)
FaultyIsYoung(l, id, now) ==
  Find(l.young, id) # 0 /\ YoungActive(l.young[Find(l.young, id)], now)
IsYoung(l, id, now) ==
  IF Find(l.young, id) # 0 THEN YoungActive(l.young[Find(l.young, id)], now)
  ELSE id \notin l.alumni /\ YoungTableFull(l, now)

(* The nodes that relay planning need not cover while young traffic is     *)
(* being dropped.                                                          *)
GateActive(l, now) == WarmedUp(l, now) /\ LimitedAt(l.newcomers, now, YoungClear)
CoverageBlocks(l, id, now) ==
  LET active == {l.young[i].id : i \in {j \in DOMAIN l.young : YoungActive(l.young[j], now)}}
      established == l.alumni \cup ({l.young[i].id : i \in DOMAIN l.young} \ active)
  IN /\ GateActive(l, now)
     /\ id # NoNode
     /\ IF YoungTableFull(l, now) THEN id \notin established ELSE id \in active

(* The diagnostic that names a few young nodes when their budget trips. *)
AnyRelayLimited(l, now) ==
  \/ LimitedAt(l.unresolved, now, RelayClearFloor)
  \/ \E i \in DOMAIN l.relays : LimitedAt(l.relays[i].b, now, RelayClearFloor)
MaybeAnnounce(l, util, now) ==
  IF \/ AnyRelayLimited(l, now)
     \/ util > 25
     \/ l.announced # Never /\ Elapsed(now, l.announced) < Refractory
  THEN l ELSE [l EXCEPT !.announced = now]

-----------------------------------------------------------------------------
(* Admission.  p: from, to, port, candidate (this node would relay it),    *)
(* relay (the last hop or NoNode), air, util, linked (this node has a      *)
(* neighbour), public (on the default channel).                            *)

Exempt(p) == p.from \in {NoNode, Me} \/ p.to = Me
IsUnicast(p) == p.to \notin {NoNode, Broadcast}
ResolvedRelay(p) == p.relay \notin {NoNode, Me}

ToLimitedDest(l, p, now) ==
  /\ p.public /\ IsUnicast(p)
  /\ \/ Find(l.orig, p.to) # 0 /\ OriginatorLimited(l.orig[Find(l.orig, p.to)], now)
     \/ Find(l.dests, p.to) # 0 /\ LimitedAt(l.dests[Find(l.dests, p.to)].b, now, DestClear)

ChargesDest(p) ==
  p.public /\ IsUnicast(p) /\ p.candidate /\ p.port \in {"position", "nodeinfo", "telemetry"}

(* One destination entry after a packet: the window rolls even when        *)
(* nothing is charged, and several senders are needed to trip.             *)
DestAfter(e, p, now) ==
  LET kept == IF Elapsed(now, e.b.start) >= Window THEN {} ELSE e.senders
      noted == IF ChargesDest(p) /\ (p.from \in kept \/ Cardinality(kept) < MaxSenders)
               THEN kept \cup {p.from} ELSE kept
      charge == IF ChargesDest(p) THEN 1 ELSE 0
      trips == e.b.limited \/ Cardinality(noted) >= DestMinSenders
  IN [e EXCEPT !.senders = noted,
               !.b = IF trips THEN CheckAndUpdate(@, DestTrip, DestClear, charge, now)
                     ELSE Counted(@, DestClear, charge, now)]

ChargeDest(l, p, now, proximity) ==
  LET s == IF ChargesDest(p) THEN WithDest(l.dests, p.to, now, proximity) ELSE l.dests
      i == Find(s, p.to)
  IN IF ~IsUnicast(p) \/ ~p.public THEN l
     ELSE IF i = 0 THEN [l EXCEPT !.dests = s]
     ELSE [l EXCEPT !.dests = [s EXCEPT ![i] = DestAfter(@, p, now)]]

DestFlagged(l, p) ==
  p.public /\ IsUnicast(p) /\ Find(l.dests, p.to) # 0 /\ l.dests[Find(l.dests, p.to)].b.limited

ChargeOriginator(l, p, now, proximity) ==
  LET s == WithOriginator(l.orig, p.from, now, proximity)
      i == Find(s, p.from)
      k == BucketOf(p.port)
  IN IF i = 0 THEN [l EXCEPT !.orig = s]
     ELSE [l EXCEPT !.orig = [s EXCEPT ![i].b[k] =
             CheckAndUpdate(@, Trip[k], OriginatorClear(k), 1, now)]]

OriginatorDrops(l, p) ==
  /\ Find(l.orig, p.from) # 0
  /\ l.orig[Find(l.orig, p.from)].b[BucketOf(p.port)].limited

ChargesYoung(l, p, now) ==
  BucketOf(p.port) # "unknown" /\ WarmedUp(l, now) /\ IsYoung(l, p.from, now)

ChargeYoung(l, p, now) ==
  LET b == CheckAndUpdate(l.newcomers, YoungTrip, YoungClear, 1, now)
      tripped == b.limited
                 /\ ~Roll([l.newcomers EXCEPT !.clear = YoungClear], now, YoungClear).limited
      charged == [l EXCEPT !.newcomers = b]
  IN IF ~ChargesYoung(l, p, now) THEN l
     ELSE IF tripped THEN MaybeAnnounce(charged, p.util, now) ELSE charged

YoungDrops(l, p, now) == ChargesYoung(l, p, now) /\ l.newcomers.limited

(* The shared bucket starts its first window at the first candidate. *)
ChargeRelay(l, p, now, proximity) ==
  LET air == IF p.air = 0 THEN RefAirtime ELSE p.air
      trip == RelayTrip(air, p.util)
      u == IF l.unresolved.start = 0 /\ l.unresolved.n = 0 /\ ~l.unresolved.limited
           THEN [l.unresolved EXCEPT !.start = now] ELSE l.unresolved
      s == IF ResolvedRelay(p) THEN WithRelay(l.relays, p.relay, now, proximity) ELSE l.relays
      i == Find(s, p.relay)
  IN IF ResolvedRelay(p)
     THEN [l EXCEPT !.unresolved = u,
             !.relays = IF i = 0 THEN s
                        ELSE [s EXCEPT ![i].b = CheckAndUpdate(@, trip, RelayClear(trip), air, now)]]
     ELSE [l EXCEPT !.unresolved =
             IF p.linked THEN CheckAndUpdate(u, trip, RelayClear(trip), air, now) ELSE u]

RelayDrops(l, p) ==
  IF ResolvedRelay(p) THEN Find(l.relays, p.relay) # 0 /\ l.relays[Find(l.relays, p.relay)].b.limited
  ELSE p.linked /\ l.unresolved.limited

(* should_drop: a packet to a banned destination charges nobody else, and  *)
(* a packet that is dropped anyway is not charged to its last hop.         *)
AfterOriginator(l, p, now, proximity) ==
  LET noted == IF BucketOf(p.port) = "unknown" THEN l ELSE NoteOriginator(l, p.from, now)
  IN ChargeYoung(ChargeOriginator(noted, p, now, proximity), p, now)

SenderDrops(l, p, now) == OriginatorDrops(l, p) \/ YoungDrops(l, p, now)

AfterSender(l, p, now, proximity) ==
  IF p.candidate /\ ~SenderDrops(l, p, now)
  THEN LET r == ChargeRelay(l, p, now, proximity) IN [l |-> r, drop |-> RelayDrops(r, p)]
  ELSE [l |-> l, drop |-> SenderDrops(l, p, now)]

AfterDest(l, p, now, proximity) ==
  IF DestFlagged(l, p) \/ ToLimitedDest(l, p, now) THEN [l |-> l, drop |-> TRUE]
  ELSE AfterSender(AfterOriginator(l, p, now, proximity), p, now, proximity)

ShouldDrop(l, p, now, proximity) ==
  IF Exempt(p) THEN [l |-> l, drop |-> FALSE]
  ELSE AfterDest(ChargeDest([l EXCEPT !.boot = IF @ = Never THEN now ELSE @], p, now, proximity),
                 p, now, proximity)

(* would_drop: the same question without a charge, asked again before a    *)
(* queued frame goes on the air.                                           *)
FaultyWouldDrop(l, p, now) ==
  /\ ~Exempt(p)
  /\ LET o == Find(l.orig, p.from)
         k == BucketOf(p.port)
     IN \/ ToLimitedDest(l, p, now)
        \/ o # 0 /\ LimitedAt(l.orig[o].b[k], now, OriginatorClear(k))
        \/ p.candidate /\ ResolvedRelay(p) /\ Find(l.relays, p.relay) # 0
           /\ LimitedAt(l.relays[Find(l.relays, p.relay)].b, now, RelayClearFloor)
WouldDrop(l, p, now) ==
  /\ ~Exempt(p)
  /\ LET o == Find(l.orig, p.from)
         k == BucketOf(p.port)
     IN \/ ToLimitedDest(l, p, now)
        \/ o # 0 /\ LimitedAt(l.orig[o].b[k], now, OriginatorClear(k))
        \/ k # "unknown" /\ WarmedUp(l, now) /\ IsYoung(l, p.from, now)
           /\ LimitedAt(l.newcomers, now, YoungClear)
        \/ /\ p.candidate
           /\ IF ResolvedRelay(p)
              THEN Find(l.relays, p.relay) # 0
                   /\ LimitedAt(l.relays[Find(l.relays, p.relay)].b, now, RelayClearFloor)
              ELSE p.linked /\ LimitedAt(l.unresolved, now, RelayClearFloor)
=============================================================================
