------------------------------- MODULE Inbound -------------------------------
(***************************************************************************)
(* What the router does with a frame from the air before it plans a relay: *)
(* decode it, recognise a copy, name the last hop, ask the rate limiter,   *)
(* hand the payload to its module and queue the answer or the              *)
(* acknowledgement.  The radio loop polls the queued answers.              *)
(*                                                                         *)
(* A packet is a record [id, from, to, dest, port, enc, ask, ack, ref,     *)
(* read, dfu, key, candidate, air, util, public]: dest is the destination  *)
(* its payload names, enc is "channel", the key the sender encrypts for us *)
(* with, or "garbage"; ask is want_response, ack is want_ack, ref says     *)
(* that it carries a request id, read marks an idempotent admin request,   *)
(* key is the key a node info announces.  A copy comes straight from the   *)
(* originator (byte 0) or from a relay named by its byte, with a signal.   *)
(* A packet with id 0 stands for a stream of packets, each with an id of   *)
(* its own.                                                                *)
(*                                                                         *)
(* The graph is modelled elsewhere; here it is the price of each direct    *)
(* link, which a direct frame sets and ageing removes.  A scene fixes      *)
(* what the surroundings send, so that the checks of separate concerns do  *)
(* not multiply.                                                           *)
(***************************************************************************)
EXTENDS Integers, Sequences, FiniteSets

CONSTANTS Nodes, Me, Broadcast, NoNode, Never, None, Low(_),
          Scenes,   \* [packets, via, way, lastHops, proximity, adminKeys, fixed, acts,
                    \*  start, last, frames]
          Clock, Window, Warmup, YoungAge, Refractory, Trip,
          YoungTrip, YoungClear, DestTrip, DestClear, DestMinSenders,
          RelayTripPackets, RelayClearPackets,
          RelayTripFloor, RelayTripCeil, RelayClearFloor, RelayClearCeil, RefAirtime,
          MaxOriginators, MaxRelays, MaxDests, MaxSenders, MaxYoung, MaxAlumni,
          IdTtl, MaxCandidates, MaxBuckets, HistorySize,
          PkiWindow, PkiAttempts, MaxAdmin, MaxPeers, ReplyCooldown,
          OwnBroadcasts, Period,
          RouteSize, RouteBytes, NodeBytes, MinusBytes, HopLimit, HopMargin, LastHopBudget

VARIABLES
  scene, now, ticks, frames,  \* the surroundings, the clock, how far both went
  lim,                        \* NodeRateLimiter
  cache, links,               \* RelayIdentityCache; the price of each direct link
  hist,                       \* PacketHistory: [ring, stored]
  ctx,                        \* admin_reply_remote_pk, admin_reply_use_pki, pki_work_*
  box,                        \* the pending_* slots and what fills them
  seen                        \* observer: what was admitted, banned, heard, answered

vars == <<scene, now, ticks, frames, lim, cache, links, hist, ctx, box, seen>>

L == INSTANCE RateLimit
I == INSTANCE RelayIdentity
T == INSTANCE TraceRoute

NoKey == "nokey"
Age(t) == (now - t) % Clock

-----------------------------------------------------------------------------
(* The history is a ring: what is stored beyond its size overwrites the    *)
(* oldest.  stored counts what was written; the code keeps it modulo the   *)
(* size, as the head of the ring.                                          *)

NewHistory == [ring |-> << >>, stored |-> 0]
IsDuplicate(h, p) == p.id # 0 /\ \E i \in DOMAIN h.ring : h.ring[i] = p.id
Pushed(ring, id) ==
  IF Len(ring) < HistorySize THEN Append(ring, id) ELSE Append(Tail(ring), id)
Observe(h, p) ==
  IF IsDuplicate(h, p) THEN h
  ELSE [ring |-> Pushed(h.ring, p.id), stored |-> h.stored + 1]

-----------------------------------------------------------------------------
(* Decoding.  A frame for us that the channel key does not open is tried   *)
(* with the admin keys and the key its sender announced, each trial paid   *)
(* from a budget that a new period refills.                                *)

PeerKey(b, n) ==
  IF \E e \in b.peers : e.id = n THEN (CHOOSE e \in b.peers : e.id = n).key ELSE NoKey

Candidates(p) ==
  LET peer == PeerKey(box, p.from)
  IN IF peer = NoKey \/ \E i \in DOMAIN scene.adminKeys : scene.adminKeys[i] = peer
     THEN scene.adminKeys ELSE Append(scene.adminKeys, peer)

OpenedBy(keys, enc) ==
  IF \E i \in DOMAIN keys : keys[i] = enc THEN CHOOSE i \in DOMAIN keys : keys[i] = enc ELSE 0

(* work: the budget after the trials. *)
TryPkiDecrypt(p) ==
  LET keys == Candidates(p)
      at == OpenedBy(keys, p.enc)
      needed == IF at = 0 THEN Len(keys) ELSE at
      w == IF keys # << >> /\ Age(ctx.since) >= PkiWindow
           THEN [since |-> now, used |-> 0] ELSE [since |-> ctx.since, used |-> ctx.used]
      room == PkiAttempts - w.used
      plain == [ok |-> FALSE, pk |-> NoKey, pki |-> FALSE, err |-> "none",
                since |-> w.since, used |-> w.used + IF needed < room THEN needed ELSE room]
  IN IF needed > room THEN plain
     ELSE IF at # 0 THEN [plain EXCEPT !.ok = TRUE, !.pk = keys[at], !.pki = TRUE]
     ELSE [plain EXCEPT !.err = IF keys = << >> THEN "unknownkey" ELSE "failed"]

FaultyDecodePayload(p) ==
  IF p.enc # "channel" /\ p.to = Me THEN TryPkiDecrypt(p)
  ELSE [ok |-> p.enc = "channel", pk |-> ctx.pk, pki |-> ctx.pki, err |-> "none",
        since |-> ctx.since, used |-> ctx.used]
DecodePayload(p) ==
  IF p.enc # "channel" /\ p.to = Me THEN TryPkiDecrypt(p)
  ELSE [ok |-> p.enc = "channel", pk |-> NoKey, pki |-> FALSE, err |-> "none",
        since |-> ctx.since, used |-> ctx.used]

ReplyContext(d) == [pk |-> d.pk, pki |-> d.pki, since |-> d.since, used |-> d.used]

-----------------------------------------------------------------------------
(* Answers.  An answer names the request, what it says, and how it is      *)
(* encrypted: on the channel or for a key; open: the copy it answers could *)
(* be decoded.                                                             *)

Hops(p, via, known) == T!ResponseHops(via, known, p.from \in scene.lastHops)
Reply(p, says, enc, via, hops) ==
  [to |-> p.from, req |-> p.id, says |-> says, enc |-> enc, took |-> via.used, hops |-> hops,
   open |-> TRUE]
Answer(p, says, enc, via) == Reply(p, says, enc, via, Hops(p, via, via.known))

RemotePkForErrorReply(b, p, d) == IF d.pk # NoKey THEN d.pk ELSE PeerKey(b, p.from)
OnKeyOrChannel(key) == IF key = NoKey THEN "channel" ELSE key

(* The first free slot, or else the one that waits longest. *)
AdminSlot(b) ==
  LET free == {i \in DOMAIN b.admin : b.admin[i] = None}
      Waits(i) == Age(b.admin[i].at)
  IN IF free # {} THEN CHOOSE i \in free : \A j \in free : i <= j
     ELSE CHOOSE i \in DOMAIN b.admin : \A j \in DOMAIN b.admin :
            Waits(i) > Waits(j) \/ (Waits(i) = Waits(j) /\ i <= j)
EnqueueAdminTx(b, r) ==
  [b EXCEPT !.admin[AdminSlot(b)] = [r |-> r, at |-> now], !.suppress = TRUE,
            !.answers = @ \cup {r}]

(* An answer of the admin module for a key may always take one hop. *)
AtLeastOne(hops) == IF hops = 0 THEN 1 ELSE hops
ScheduleAdminRoutingError(b, p, d, via, known, error) ==
  LET enc == OnKeyOrChannel(RemotePkForErrorReply(b, p, d))
      hops == Hops(p, via, known)
  IN EnqueueAdminTx(b, Reply(p, error, enc, via, IF enc = "channel" THEN hops ELSE AtLeastOne(hops)))

ScheduleAdminResponse(b, p, d, via) ==
  EnqueueAdminTx(b, Reply(p, "response", d.pk, via,
                          AtLeastOne(T!HopLimitForResponse(via, via.known))))

(* What handle_admin may answer: the authority of the key and the session  *)
(* decide, both modelled in NodeAdmin, like what else an accepted request  *)
(* changes.                                                                *)
AdminOutcomes(p, d) ==
  IF ~d.pki THEN {"unauthorized"}
  ELSE IF OpenedBy(scene.adminKeys, d.pk) = 0 THEN {"unauthorized"}
  ELSE IF p.read THEN {"response"} ELSE {"done", "refused"}

ProcessAdminRx(b, p, d, via, outcome) ==
  IF outcome = "response" THEN ScheduleAdminResponse(b, p, d, via)
  ELSE [ScheduleAdminRoutingError(b, p, d, via, via.known, outcome)
        EXCEPT !.ran = IF outcome = "done" THEN Append(@, [id |-> p.id, at |-> hist.stored]) ELSE @]

MaybeArmOtaDfu(b, p, d, via) ==
  IF d.pki /\ OpenedBy(scene.adminKeys, d.pk) # 0 /\ via.byte = 0 /\ p.dfu
  THEN [b EXCEPT !.dfu = Answer(p, "dfu", d.pk, via)] ELSE b

(* One slot: a second request replaces the answer that still waits.  A     *)
(* route that no longer fits gets no answer.                               *)
Leg(p) == IF p.ref THEN "back" ELSE "out"
MaybeScheduleTracerouteResponse(b, p, via) ==
  LET rd == T!AlterOnRelay(p.rd, Leg(p), T!HopsAway(via, via.known), Me, via.snr, TRUE)
      r == Answer(p, "route", "channel", via)
  IN IF p.to # Me \/ ~p.ask \/ ~T!Fits(rd) THEN b
     ELSE [b EXCEPT !.trace = r, !.suppress = TRUE, !.answers = @ \cup {r},
                    !.traced = @ \cup {[leg |-> rd[Leg(p)], via |-> via, end |-> TRUE]}]

MaybeScheduleNodeinfoReply(b, p, via) ==
  IF b.cool.to = p.from /\ b.cool.at # Never /\ Age(b.cool.at) < ReplyCooldown THEN b
  ELSE [b EXCEPT !.info = Reply(p, "info", "channel", via, HopLimit), !.cool = [to |-> p.from, at |-> now]]

(* The cache of announced keys gives up the peer heard longest ago. *)
CacheUpsert(peers, entry) ==
  LET others == {e \in peers : e.id # entry.id}
      oldest == CHOOSE e \in others : \A f \in others : Age(f.at) <= Age(e.at)
  IN IF others = peers /\ Cardinality(peers) >= MaxPeers
     THEN (peers \ {oldest}) \cup {entry} ELSE others \cup {entry}
ProcessNodeinfoRx(b, p) ==
  [b EXCEPT !.peers = CacheUpsert(@, [id |-> p.from, key |-> p.key, at |-> now])]

Dispatch(b, p, d, via, outcome) ==
  IF ~d.ok THEN IF p.to = Me /\ d.err # "none"
                THEN ScheduleAdminRoutingError(b, p, d, via, FALSE, d.err) ELSE b
  ELSE CASE p.port = "nodeinfo" ->
              IF p.ask /\ (p.to \in {Me, Broadcast} \/ p.dest = Me) THEN MaybeScheduleNodeinfoReply(b, p, via)
              ELSE ProcessNodeinfoRx(b, p)
         [] p.port = "traceroute" -> MaybeScheduleTracerouteResponse(b, p, via)
         [] p.port = "admin" /\ p.to = Me -> ProcessAdminRx(b, p, d, via, outcome)
         [] p.port = "text" /\ p.to = Me -> MaybeArmOtaDfu(b, p, d, via)
         [] OTHER -> b

(* One slot for acknowledgements: a second one is dropped, not queued. *)
AckNakFrame(p, d, says, key, via, hops) ==
  [Reply(p, says, OnKeyOrChannel(key), via, hops) EXCEPT !.open = d.ok]
ScheduleAckNak(b, p, d, says, via, hops) ==
  LET key == IF d.pki THEN RemotePkForErrorReply(b, p, d) ELSE NoKey
      r == AckNakFrame(p, d, says, key, via, hops)
  IN IF b.ack # None THEN b ELSE [b EXCEPT !.ack = r, !.answers = @ \cup {r}]

(* A request gets the hop budget of an answer; a response is acknowledged  *)
(* only if it came straight or names a next hop.                          *)
ProcessReliableRx(b, p, d, via) ==
  IF p.to # Me \/ ~p.ack \/ b.suppress \/ (d.ok /\ p.port = "ack") THEN b
  ELSE IF ~d.ok THEN ScheduleAckNak(b, p, d, "nochannel", via, Hops(p, via, FALSE))
  ELSE IF ~p.ref THEN ScheduleAckNak(b, p, d, "ack", via, Hops(p, via, via.known))
  ELSE IF via.named \/ T!HopsAway(via, via.known) = 0 THEN ScheduleAckNak(b, p, d, "ack", via, 0)
  ELSE b

(* A copy of what is already known: only the originator's own repetition   *)
(* of a reliable packet is answered, a read by running it again.           *)
IsRepeatedReliableTx(d, via) == T!HopsAway(via, d.ok /\ via.known) = 0
FaultyHandleDuplicateRx(b, p, d, via, outcome) ==
  IF p.to # Me \/ ~IsRepeatedReliableTx(d, via) \/ ~p.ack \/ (d.ok /\ p.port = "ack") THEN b
  ELSE IF d.ok /\ p.port = "admin" THEN ProcessAdminRx(b, p, d, via, outcome)
  ELSE ScheduleAckNak(b, p, d, "ack", via, 0)
HandleDuplicateRx(b, p, d, via, outcome) ==
  IF p.to # Me \/ ~IsRepeatedReliableTx(d, via) \/ ~p.ack \/ (d.ok /\ p.port = "ack") THEN b
  ELSE IF d.ok /\ p.port = "admin" /\ p.read THEN ProcessAdminRx(b, p, d, via, outcome)
  ELSE ScheduleAckNak(b, p, d, "ack", via, 0)

-----------------------------------------------------------------------------
(* The rate limiter's view of a packet.  A relayed copy is charged to the  *)
(* node its byte resolves to, or to nobody in particular.                  *)

Resolves(byte, signal) == I!ResolveRelayIdentity(cache, byte, links, signal, now)

LimiterPacket(p, via, d) ==
  [from |-> p.from, to |-> p.to, port |-> IF d.ok THEN p.port ELSE "none",
   candidate |-> p.candidate,
   relay |-> IF via.byte = 0 THEN p.from ELSE Resolves(via.byte, via.signal),
   air |-> p.air, util |-> p.util, linked |-> \E n \in Nodes : links[n] # 0,
   public |-> p.public]

(* A forward that waits in the transmit queue, asked again.  Of the primary *)
(* channel only the public one is told apart here.                         *)
QueuedFrameAllowed(p) ==
  ~L!WouldDrop(lim, p, now) /\ L!CanRelay(p.port, p.public, p.util)

-----------------------------------------------------------------------------
(* The observer: the clock without its wrap (ticks), when each node was    *)
(* first heard, when it was last heard straight and what the relay cache   *)
(* kept of that, the bans that began in the last Window, the arrivals from *)
(* newcomers that were admitted in it, and the last verdict.               *)

BanNames == ({"originator"} \X Nodes \X L!BucketKinds) \cup ({"relay", "dest"} \X Nodes \X {"all"})
BanTable(l, b) == IF b[1] = "originator" THEN l.orig ELSE IF b[1] = "relay" THEN l.relays ELSE l.dests
BanClear(b) ==
  IF b[1] = "originator" THEN L!OriginatorClear(b[3])
  ELSE IF b[1] = "relay" THEN RelayClearFloor ELSE DestClear
BanBuckets(l, b) ==
  {IF b[1] = "originator" THEN e.b[b[3]] ELSE e.b :
     e \in {BanTable(l, b)[i] : i \in {i \in DOMAIN BanTable(l, b) : BanTable(l, b)[i].id = b[2]}}}
Bans(l) == {b \in BanNames : \E x \in BanBuckets(l, b) : L!LimitedAt(x, now, BanClear(b))}

(* A budget that trips opens a window of its own. *)
Tripped(l, m) == {b \in Bans(m) \ Bans(l) : \E x \in BanBuckets(m, b) : x.start = now}

Newcomer(s, n) ==
  /\ s.first[n] # Never
  /\ s.first[n] - s.boot >= Warmup
  /\ ticks - s.first[n] < YoungAge

Judged(lp, l, m, drop) ==
  LET known == lp.port # "none"
      s == [seen EXCEPT !.boot = IF @ = Never THEN ticks ELSE @,
                        !.first[lp.from] = IF @ = Never /\ known THEN ticks ELSE @]
      bans == {[ban |-> b, at |-> ticks] : b \in Tripped(l, m)}
  IN [s EXCEPT !.bans = @ \cup bans,
               !.minted = IF known /\ ~drop /\ Newcomer(s, lp.from)
                          THEN @ \cup {[at |-> ticks, frame |-> frames]} ELSE @,
               !.last = IF lp.candidate THEN [p |-> lp, drop |-> drop] ELSE None]

(* What the cache keeps of a node it was just told of: its entry, only the *)
(* overflow mark of a full bucket, or nothing when its byte has no bucket  *)
(* because all of them are taken.                                          *)
KeptOf(c, n) ==
  LET mine == {b \in c : b.byte = Low(n)}
  IN IF \E b \in mine : \E e \in b.heard : e.id = n THEN "entry"
     ELSE IF mine # {} THEN "mark" ELSE "nothing"

Remembered(s, c, n) == [s EXCEPT !.heard[n] = ticks, !.kept[n] = KeptOf(c, n)]

(* A mark goes with its bucket. *)
Pruned(s, c) ==
  [s EXCEPT !.kept = [m \in Nodes |->
     IF @[m] = "mark" /\ \A b \in c : b.byte # Low(m) THEN "nothing" ELSE @[m]]]

NothingHeard(s) ==
  [s EXCEPT !.heard = [n \in Nodes |-> Never], !.kept = [n \in Nodes |-> "nothing"]]

-----------------------------------------------------------------------------
(* What the senders of a scene do.  Copies of a packet with an id are the  *)
(* same packet, and only packets to this node have one: copies in transit  *)
(* are the subject of Mesh.  A copy that arrived straight, or that does    *)
(* not say where its hop limit started, counts no hops.                    *)

ASSUME HopBudgets ==
  HopLimit \in Nat /\ HopMargin \in Nat /\ LastHopBudget \in Nat /\ RouteSize \in Nat

ASSUME HistoryHoldsSome == HistorySize \in Nat \ {0}

ASSUME ScenePackets ==
  \A s \in Scenes :
    /\ \A p \in s.packets :
         /\ p.enc # NoKey /\ p.id \in Nat /\ (p.to # Me => p.id = 0)
         /\ \A q \in s.packets :
              p.id = q.id /\ p.id # 0 => p.from = q.from /\ p.enc = q.enc /\ p.ref = q.ref
    /\ \A v \in s.via :
         /\ v.start \in Nat /\ v.limit \in Nat /\ (v.byte = 0 => v.start = v.limit)
         /\ v.used = IF v.limit <= v.start THEN v.start - v.limit ELSE 0

(* The frames of a scene come from its nodes; proximity says how near each *)
(* of them is.                                                             *)
ASSUME SceneNodes ==
  /\ IsFiniteSet(Nodes)
  /\ \A s \in Scenes :
       /\ \A p \in s.packets : p.from \in Nodes /\ p.to \in Nodes \cup {Me, NoNode, Broadcast}
       /\ \A n \in Nodes : s.proximity[n].hops \in Nat

(* The clock turns more slowly than an entry of the relay cache or the     *)
(* window of a budget lasts.                                               *)
ASSUME Clocks ==
  /\ Clock \in Nat /\ IdTtl \in Nat /\ IdTtl < Clock /\ Never \notin Nat
  /\ Window \in Nat /\ Window > 0 /\ Window <= Clock
  /\ NoNode \notin Nodes
  /\ \A s \in Scenes : s.start \in 0..(Clock - 1)

(* This node does not send to itself.  A scene is shorter than a turn of    *)
(* the clock, as long as RateLimit leaves the latches of the warm-up out.  *)
ASSUME SceneTimes ==
  /\ Warmup \in Nat /\ YoungAge \in Nat /\ YoungTrip \in Nat \ {0} /\ MaxYoung \in Nat
  /\ Me \notin Nodes
  /\ \A s \in Scenes : s.last \in Nat /\ s.last < Clock

(* Before us, the nodes on the way wrote their own name or nobody's, at    *)
(* most one entry each; if the arrival does not count its hops, each wrote *)
(* one.  The route has room for us.                                        *)
ASSUME SceneTraces ==
  \A s \in Scenes : \A p \in s.packets, v \in s.via :
    p.port = "traceroute" =>
      LET leg == p.rd[Leg(p)]
      IN /\ DOMAIN p.rd = {"out", "back"}
         /\ DOMAIN leg = {"way", "snr"} /\ leg.way \in Seq(Nodes \cup {NoNode}) /\ leg.snr \in Seq(Int)
         /\ Len(leg.way) <= v.used /\ Len(leg.snr) <= v.used /\ v.used < RouteSize
         /\ \A i \in DOMAIN leg.way : leg.way[i] \in {NoNode, s.way[i]}
         /\ T!HopsAway(v, v.known) < 0 => Len(leg.way) = v.used /\ Len(leg.snr) = v.used

-----------------------------------------------------------------------------
(* Some scenes start with the clock about to wrap. *)

Init ==
  /\ scene \in Scenes
  /\ now = scene.start
  /\ ticks = 0 /\ frames = 0
  /\ lim = L!NewLimiter
  /\ cache = {} /\ links = [n \in Nodes |-> 0]
  /\ hist = NewHistory
  /\ ctx = [pk |-> NoKey, pki |-> FALSE, since |-> 0, used |-> 0]
  /\ box = [peers |-> {}, admin |-> [i \in 1..MaxAdmin |-> None], ack |-> None, dfu |-> None,
            trace |-> None, info |-> None, own |-> {},
            sent |-> [k \in OwnBroadcasts |-> Never],
            cool |-> [to |-> NoNode, at |-> Never], suppress |-> FALSE,
            answers |-> {}, traced |-> {}, ran |-> << >>]
  /\ seen = [boot |-> Never, first |-> [n \in Nodes |-> Never],
             heard |-> [n \in Nodes |-> Never], kept |-> [n \in Nodes |-> "nothing"], bans |-> {},
             minted |-> {}, last |-> None]

Arrives == frames < scene.frames /\ frames' = frames + 1

(* A traceroute that will be relayed gets our entry. *)
Traced(b, p, via) ==
  IF p.port # "traceroute" \/ ~p.candidate THEN b
  ELSE LET rd == T!RebuildRelay(p.rd, Leg(p), T!HopsAway(via, via.known), Me, via.snr)
       IN IF rd = p.rd THEN b
          ELSE [b EXCEPT !.traced = @ \cup {[leg |-> rd[Leg(p)], via |-> via, end |-> FALSE]}]

(* process_inbound for a packet that is not for this node.  A dropped      *)
(* packet still measures the link it came over.  Relaying what is admitted *)
(* is modelled in Mesh.                                                    *)
Transit(p, via) ==
  /\ p.to # Me /\ Arrives
  /\ LET d == DecodePayload(p)
         lp == LimiterPacket(p, via, d)
         v == L!ShouldDrop(lim, lp, now, scene.proximity)
         direct == via.byte = 0
         c == IF direct /\ ~v.drop THEN I!RememberRelayIdentity(cache, p.from, now) ELSE cache
         s == Judged(lp, lim, v.l, v.drop)
     IN /\ ctx' = ReplyContext(d)
        /\ lim' = v.l
        /\ links' = IF direct THEN [links EXCEPT ![p.from] = via.signal] ELSE links
        /\ cache' = c
        /\ box' = IF v.drop THEN [box EXCEPT !.suppress = FALSE]
                  ELSE Traced(Dispatch([box EXCEPT !.suppress = FALSE], p, d, via, None), p, via)
        /\ hist' = Observe(hist, p)
        /\ seen' = IF direct /\ ~v.drop THEN Remembered(s, c, p.from) ELSE s
  /\ UNCHANGED <<scene, now, ticks>>

(* process_inbound for a packet to this node, which the limiter exempts.   *)
(* A duplicate still measures the link it came over.                       *)
ForUs(p, via) ==
  /\ p.to = Me /\ Arrives
  /\ LET d == DecodePayload(p)
         direct == via.byte = 0
         new == ~IsDuplicate(hist, p)
         c == IF direct /\ new THEN I!RememberRelayIdentity(cache, p.from, now) ELSE cache
         b == [box EXCEPT !.suppress = FALSE]
     IN /\ ctx' = ReplyContext(d)
        /\ \E outcome \in AdminOutcomes(p, d) :
             box' = IF new THEN ProcessReliableRx(Dispatch(b, p, d, via, outcome), p, d, via)
                    ELSE HandleDuplicateRx(b, p, d, via, outcome)
        /\ hist' = Observe(hist, p)
        /\ links' = IF direct THEN [links EXCEPT ![p.from] = via.signal] ELSE links
        /\ cache' = c
        /\ seen' = [IF direct /\ new THEN Remembered(seen, c, p.from) ELSE seen EXCEPT !.last = None]
  /\ UNCHANGED <<scene, now, ticks, lim>>

Tick ==
  /\ ticks < scene.last
  /\ now' = (now + 1) % Clock /\ ticks' = ticks + 1
  /\ seen' = [seen EXCEPT !.last = None,
                !.bans = {b \in @ : ticks' - b.at < Window},
                !.minted = {e \in @ : ticks' - e.at < Window}]
  /\ UNCHANGED <<scene, frames, lim, cache, links, hist, ctx, box>>

-----------------------------------------------------------------------------
(* The node's own broadcasts.  The node information shares its slot with   *)
(* the answers to requests for it.                                         *)

Due(b, k) == b.sent[k] = Never \/ Age(b.sent[k]) >= Period[k]
Announcement == [to |-> Broadcast, req |-> 0, says |-> "info", enc |-> "channel",
                 took |-> 0, hops |-> HopLimit, open |-> TRUE]

ScheduleInfo(b) ==
  IF b.info # None THEN b ELSE [b EXCEPT !.info = Announcement, !.sent["info"] = now]
ScheduleDue(b) ==
  LET c == IF Due(b, "info") THEN ScheduleInfo(b) ELSE b
      fire == {k \in {"telemetry", "position"} :
                 k \notin b.own /\ Due(b, k) /\ (k = "position" => scene.fixed)}
      kept == IF scene.fixed THEN b.own ELSE b.own \ {"position"}
  IN [c EXCEPT !.own = kept \cup fire,
               !.sent = [k \in OwnBroadcasts |-> IF k \in fire THEN now ELSE @[k]]]

Maintain ==
  /\ "maintain" \in scene.acts
  /\ cache' = I!PruneRelayIdentity(cache, now)
  /\ seen' = Pruned(seen, cache')
  /\ box' = ScheduleDue(box)
  /\ UNCHANGED <<scene, now, ticks, frames, lim, links, hist, ctx>>

(* The graph ages a link out. *)
Forget(n) ==
  /\ "forget" \in scene.acts /\ links[n] # 0
  /\ links' = [links EXCEPT ![n] = 0]
  /\ UNCHANGED <<scene, now, ticks, frames, lim, cache, hist, ctx, box, seen>>

(* The radio loop takes a frame; a reply of the admin module stays in its  *)
(* slot until it is in the transmit queue.                                 *)
PollAck == box.ack # None /\ box' = [box EXCEPT !.ack = None]
PollDfu == box.dfu # None /\ box' = [box EXCEPT !.dfu = None]
PollNodeinfo == box.info # None /\ box' = [box EXCEPT !.info = None]
PollTraceroute == box.trace # None /\ box' = [box EXCEPT !.trace = None]
PollOwn(k) == k \in box.own /\ box' = [box EXCEPT !.own = @ \ {k}]
PollAdmin(i) == box.admin[i] # None /\ box' = [box EXCEPT !.admin[i] = None]
Poll ==
  /\ "poll" \in scene.acts
  /\ \/ PollAck \/ PollDfu \/ PollNodeinfo \/ PollTraceroute
     \/ \E k \in OwnBroadcasts : PollOwn(k)
     \/ \E i \in 1..MaxAdmin : PollAdmin(i)
  /\ UNCHANGED <<scene, now, ticks, frames, lim, cache, links, hist, ctx, seen>>

(* New radio settings: the queued answers go.  Another preset also makes   *)
(* what was heard on the old one worthless.                                *)
RadioReconfigured(preset) ==
  /\ "reconfigure" \in scene.acts /\ Arrives
  /\ LET b == [box EXCEPT !.ack = None, !.trace = None, !.admin = [i \in 1..MaxAdmin |-> None]]
     IN IF preset
        THEN /\ box' = ScheduleInfo([b EXCEPT !.sent["info"] = Never])
             /\ cache' = {} /\ links' = [n \in Nodes |-> 0]
             /\ seen' = NothingHeard(seen)
        ELSE /\ box' = b
             /\ UNCHANGED <<cache, links, seen>>
  /\ UNCHANGED <<scene, now, ticks, lim, hist, ctx>>

Next ==
  \/ \E p \in scene.packets, via \in scene.via : Transit(p, via)
  \/ \E p \in scene.packets, via \in scene.via : ForUs(p, via)
  \/ Tick \/ Maintain \/ Poll
  \/ \E n \in Nodes : Forget(n)
  \/ \E preset \in BOOLEAN : RadioReconfigured(preset)

Spec == Init /\ [][Next]_vars

-----------------------------------------------------------------------------
(* Whatever arrives in whichever order, the tables stay within their       *)
(* sizes, each node has one entry in each, and the trials of keys stay     *)
(* within their budget.                                                    *)
TypeOK ==
  /\ now \in 0..(Clock - 1) /\ frames <= scene.frames
  /\ \A t \in {<<lim.orig, MaxOriginators>>, <<lim.relays, MaxRelays>>, <<lim.dests, MaxDests>>,
               <<lim.young, MaxYoung>>} :
       Len(t[1]) <= t[2] /\ \A i, j \in DOMAIN t[1] : t[1][i].id = t[1][j].id => i = j
  /\ Cardinality(lim.alumni) <= MaxAlumni
  /\ Cardinality(cache) <= MaxBuckets /\ Cardinality(box.peers) <= MaxPeers
  /\ \A b, c \in cache : b.byte = c.byte => b = c
  /\ ctx.used <= PkiAttempts

(* The check that queued_frame_allowed repeats just before a frame goes on *)
(* the air gives the verdict that admission gave, as long as no time has   *)
(* passed: a frame is not admitted and then discarded, and none that was   *)
(* refused would get through.  And the nodes that coverage_gate takes out  *)
(* of relay planning are exactly those whose packets the limiter drops for *)
(* being young.                                                            *)
QueueAgrees ==
  /\ seen.last # None =>
       (QueuedFrameAllowed(seen.last.p)
          <=> ~seen.last.drop /\ L!CanRelay(seen.last.p.port, seen.last.p.public, seen.last.p.util))
  /\ \A n \in Nodes :
       L!CoverageBlocks(lim, n, now) <=> L!GateActive(lim, now) /\ L!IsYoung(lim, n, now)

(* A ban lasts: an originator, last hop or destination that trips its      *)
(* budget stays limited for a whole window, however many other nodes       *)
(* compete for the slots of the tables.                                    *)
BanHolds == \A b \in seen.bans : b.ban \in Bans(lim)

(* Minting identities buys one budget: in any span of one window at most   *)
(* two budgets' worth of packets from nodes first heard after the warm-up  *)
(* is admitted, even when there are more of them than the table of young   *)
(* nodes holds.  Only packets this node can decode count: the others make  *)
(* nobody known and are not charged to that budget.                        *)
MintedShareOneBudget == Cardinality(seen.minted) <= 2 * (YoungTrip - 1)

(* A relay byte without a direct neighbour behind it stands for a node     *)
(* only if no other node with that byte was heard straight, on this        *)
(* preset, during the lifetime of an entry: a wrong name would credit      *)
(* coverage that does not exist.  Two kinds of nodes the code forgets      *)
(* sooner, and the byte may then name a node although another was heard:   *)
(* one that met a full bucket left only the overflow mark, which pruning   *)
(* drops when the entries of the bucket have all expired                   *)
(* (prune_relay_identity_cache), and one that found every bucket taken by  *)
(* other bytes left nothing (remember_relay_identity).                     *)
ByteNamesOne ==
  \A n \in Nodes :
    /\ n = Resolves(Low(n), 0)
    /\ \A m \in Nodes : Low(m) = Low(n) => links[m] = 0
    => \A m \in Nodes \ {n} :
         Low(m) = Low(n) /\ seen.kept[m] # "nothing" => ticks - seen.heard[m] > IdTtl

(* An answer is of use: an acknowledgement is encrypted on the key path of *)
(* its request (on the channel, or for the key that opened the request),   *)
(* whatever was decoded in between, and the answer to a request may take   *)
(* as many hops as the copy it answers took.  (A copy that cannot be       *)
(* opened any more is acknowledged on the channel.)                        *)
AnswerUsable ==
  \A r \in box.answers, p \in scene.packets :
    r.req = p.id /\ p.id # 0 =>
      /\ r.says = "ack" /\ r.open => r.enc = p.enc
      /\ ~p.ref => r.hops >= r.took

(* What a traceroute tells is true: every entry that this node passes on   *)
(* or answers with names the node at that place of the way or nobody, the  *)
(* way is as long as the packet's hops, and every hop has its signal.      *)
RouteTellsWay ==
  \A t \in box.traced :
    /\ \A i \in DOMAIN t.leg.way :
         t.leg.way[i] \in {NoNode, IF i = t.via.used + 1 THEN Me ELSE scene.way[i]}
    /\ Len(t.leg.way) = IF t.end THEN t.via.used ELSE t.via.used + 1
    /\ Len(t.leg.snr) = t.via.used + 1

(* An admin request that changes something runs once within the window of  *)
(* the packet history: however often its sender repeats it, it runs again  *)
(* only when at least HistorySize other packets were stored in between.    *)
(* (Then the ring has overwritten it, and the repetition passes for new.)  *)
WritesRunOnce ==
  \A i, j \in DOMAIN box.ran :
    i < j /\ box.ran[i].id = box.ran[j].id /\ box.ran[i].id # 0 =>
      box.ran[j].at - box.ran[i].at > HistorySize

(* What the contract says of copies: "A duplicate of a want_ack unicast is *)
(* acknowledged again the same way. A module reply still replaces the      *)
(* ACK."  So a request that was refused is not acknowledged later on.      *)
RefusalStands ==
  \A r, s \in box.answers :
    r.req = s.req /\ s.says = "ack" =>
      r.says \notin {"unauthorized", "refused", "unknownkey", "failed", "nochannel"}
=============================================================================
