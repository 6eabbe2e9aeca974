---------------------------- MODULE InboundProofs ----------------------------
(***************************************************************************)
(* Proofs about the receive path, for every scene, table size and length   *)
(* of the clock: a write runs once, an answer can be used, a route tells   *)
(* the way.                                                                *)
(***************************************************************************)
EXTENDS Inbound, SequenceTheorems, FiniteSetTheorems, TLAPS

(* The parts of the inductive invariant, for a scene s. *)
BoxFields ==
  {"peers", "admin", "ack", "dfu", "trace", "info", "own", "sent", "cool", "suppress",
   "answers", "traced", "ran"}

Usable(s, r) ==
  \A p \in s.packets :
    r.req = p.id /\ p.id # 0 =>
      /\ r.says = "ack" /\ r.open => r.enc = p.enc
      /\ ~p.ref => r.hops >= r.took

Tells(s, t) ==
  /\ \A i \in DOMAIN t.leg.way :
       t.leg.way[i] \in {NoNode, IF i = t.via.used + 1 THEN Me ELSE s.way[i]}
  /\ Len(t.leg.way) = IF t.end THEN t.via.used ELSE t.via.used + 1
  /\ Len(t.leg.snr) = t.via.used + 1

Honest(s, b) ==
  /\ DOMAIN b = BoxFields
  /\ \A r \in b.answers : Usable(s, r)
  /\ \A t \in b.traced : Tells(s, t)

(* The ring holds the last ids that were stored. *)
Ring(h) ==
  /\ h.ring \in Seq(Nat) /\ h.stored \in Nat
  /\ Len(h.ring) = IF h.stored < HistorySize THEN h.stored ELSE HistorySize

(* What has run was stored before, where the ring still has it unless it   *)
(* overwrote it, and what ran again did so only beyond the ring's window.  *)
Ran(p) == [id |-> p.id, at |-> hist.stored]
Apart(r) ==
  \A i, j \in DOMAIN r : i < j /\ r[i].id = r[j].id /\ r[i].id # 0 => r[j].at - r[i].at > HistorySize
InRing(h, e) ==
  /\ e.at < h.stored
  /\ h.stored - e.at <= Len(h.ring) => h.ring[Len(h.ring) + 1 - (h.stored - e.at)] = e.id
RanOnce(h, b) ==
  /\ Ring(h)
  /\ b.ran \in Seq([id : Nat, at : Nat])
  /\ \A i \in DOMAIN b.ran : InRing(h, b.ran[i])
  /\ Apart(b.ran)

BoxInv == scene \in Scenes /\ Honest(scene, box) /\ RanOnce(hist, box)

-----------------------------------------------------------------------------
(* Hop budgets and keys. *)

(* The hops a copy counts are those between its two hop limits. *)
LEMMA ViaFacts ==
  ASSUME NEW s \in Scenes, NEW via \in s.via
  PROVE  /\ via.used \in Nat /\ via.start \in Nat /\ via.limit \in Nat
         /\ via.used = IF via.limit <= via.start THEN via.start - via.limit ELSE 0
         /\ via.byte = 0 => via.used = 0
         /\ \A known : T!HopsAway(via, known) \in {-1, via.used}
<1>1. /\ via.start \in Nat /\ via.limit \in Nat /\ (via.byte = 0 => via.start = via.limit)
      /\ via.used = IF via.limit <= via.start THEN via.start - via.limit ELSE 0
  BY ScenePackets
<1>2. via.used \in Nat BY <1>1
<1>3. \A known : T!HopsAway(via, known) \in {-1, via.used} BY <1>1 DEF T!HopsAway
<1>4. QED BY <1>1, <1>2, <1>3

(* An answer may take as many hops as the copy it answers took. *)
LEMMA HopsEnough ==
  ASSUME NEW s \in Scenes, NEW via \in s.via, NEW known, NEW lastHop
  PROVE  /\ T!HopLimitForResponse(via, known) \in Nat
         /\ T!HopLimitForResponse(via, known) >= via.used
         /\ T!ResponseHops(via, known, lastHop) \in Nat
         /\ T!ResponseHops(via, known, lastHop) >= via.used
<1>1. /\ via.used \in Nat /\ via.start \in Nat /\ via.limit \in Nat
      /\ via.used = IF via.limit <= via.start THEN via.start - via.limit ELSE 0
      /\ via.byte = 0 => via.used = 0
  BY ViaFacts
<1>2. T!HopLimitForResponse(via, known) \in Nat /\ T!HopLimitForResponse(via, known) >= via.used
  BY <1>1, HopBudgets DEF T!HopLimitForResponse, T!HopsAway
<1>3. QED BY <1>1, <1>2, HopBudgets DEF T!ResponseHops

(* Only what the channel or the key of the packet opens is decoded. *)
LEMMA DecodeFacts ==
  ASSUME NEW p, NEW d, d = DecodePayload(p), d.ok
  PROVE  /\ d.pki => d.pk = p.enc
         /\ ~d.pki => p.enc = "channel"
<1>1. CASE p.enc # "channel" /\ p.to = Me
  <2>1. d = TryPkiDecrypt(p) BY <1>1 DEF DecodePayload
  <2> DEFINE keys == Candidates(p)
             at == OpenedBy(keys, p.enc)
  <2>2. at # 0 => keys[at] = p.enc BY DEF OpenedBy
  <2> HIDE DEF keys
  <2>3. d.pki /\ at # 0 /\ d.pk = keys[at]
    BY <2>1 DEF TryPkiDecrypt, keys
  <2>4. QED BY <2>2, <2>3
<1>2. CASE ~(p.enc # "channel" /\ p.to = Me)
  BY <1>2 DEF DecodePayload
<1>3. QED BY <1>1, <1>2

-----------------------------------------------------------------------------
(* What the handlers leave in the box.  Each keeps the box honest; only an *)
(* accepted write extends what has run.                                    *)

(* One more answer of use. *)
LEMMA AnswerStep ==
  ASSUME NEW s, NEW b, Honest(s, b), NEW r, Usable(s, r), NEW c,
         DOMAIN c = BoxFields, c.answers = b.answers \cup {r}, c.traced = b.traced
  PROVE  Honest(s, c)
BY DEF Honest

LEMMA EnqueueStep ==
  ASSUME NEW s, NEW b, Honest(s, b), NEW r, Usable(s, r)
  PROVE  Honest(s, EnqueueAdminTx(b, r)) /\ EnqueueAdminTx(b, r).ran = b.ran
<1> DEFINE c == EnqueueAdminTx(b, r)
<1>1. DOMAIN b = BoxFields BY DEF Honest
<1>2. DOMAIN c = BoxFields /\ c.answers = b.answers \cup {r} /\ c.traced = b.traced /\ c.ran = b.ran
  BY <1>1 DEF EnqueueAdminTx, BoxFields
<1>3. QED BY <1>2, AnswerStep

(* A reply to p over enough hops, if it is no acknowledgement or is        *)
(* encrypted like the packet it acknowledges.                              *)
LEMMA ReplyUsable ==
  ASSUME NEW s \in Scenes, NEW p \in s.packets, NEW r, r.req = p.id,
         p.ref \/ r.hops >= r.took,
         r.says = "ack" /\ r.open => r.enc = p.enc
  PROVE  Usable(s, r)
<1>1. \A q \in s.packets : p.id = q.id /\ p.id # 0 => p.enc = q.enc /\ p.ref = q.ref
  BY ScenePackets
<1>2. QED BY <1>1 DEF Usable

LEMMA RoutingErrorStep ==
  ASSUME scene \in Scenes, NEW p \in scene.packets, NEW via \in scene.via, NEW b, Honest(scene, b),
         NEW d, NEW known, NEW error, error # "ack"
  PROVE  /\ Honest(scene, ScheduleAdminRoutingError(b, p, d, via, known, error))
         /\ ScheduleAdminRoutingError(b, p, d, via, known, error).ran = b.ran
<1> DEFINE enc == OnKeyOrChannel(RemotePkForErrorReply(b, p, d))
           h == Hops(p, via, known)
           g == IF enc = "channel" THEN h ELSE AtLeastOne(h)
           r == Reply(p, error, enc, via, g)
<1>1. h \in Nat /\ h >= via.used BY HopsEnough DEF Hops
<1>2. via.used \in Nat BY ViaFacts
<1> HIDE DEF h
<1>3. g >= via.used BY <1>1, <1>2 DEF AtLeastOne
<1> HIDE DEF g, enc
<1>4. r.req = p.id /\ r.hops = g /\ r.took = via.used /\ r.says # "ack" BY DEF Reply
<1>5. Usable(scene, r)
  <2> HIDE DEF r
  <2> QED BY <1>3, <1>4, ReplyUsable
<1>6. ScheduleAdminRoutingError(b, p, d, via, known, error) = EnqueueAdminTx(b, r)
  BY DEF ScheduleAdminRoutingError, r, g, h, enc
<1> HIDE DEF r
<1>7. QED BY <1>5, <1>6, EnqueueStep

LEMMA ResponseStep ==
  ASSUME scene \in Scenes, NEW p \in scene.packets, NEW via \in scene.via, NEW b, Honest(scene, b),
         NEW d
  PROVE  /\ Honest(scene, ScheduleAdminResponse(b, p, d, via))
         /\ ScheduleAdminResponse(b, p, d, via).ran = b.ran
<1> DEFINE h == T!HopLimitForResponse(via, via.known)
           g == AtLeastOne(h)
           pk == d.pk
           r == Reply(p, "response", pk, via, g)
<1>1. h \in Nat /\ h >= via.used
  <2> DEFINE known == via.known
             last == 0
  <2> HIDE DEF known
  <2>1. T!HopLimitForResponse(via, known) \in Nat /\ T!HopLimitForResponse(via, known) >= via.used
    BY HopsEnough
  <2> QED BY <2>1 DEF known
<1>2. via.used \in Nat BY ViaFacts
<1> HIDE DEF h
<1>3. g >= via.used BY <1>1, <1>2 DEF AtLeastOne
<1> HIDE DEF g, pk
<1>4. r.req = p.id /\ r.hops = g /\ r.took = via.used /\ r.says # "ack" BY DEF Reply
<1>5. Usable(scene, r)
  <2> HIDE DEF r
  <2> QED BY <1>3, <1>4, ReplyUsable
<1>6. ScheduleAdminResponse(b, p, d, via) = EnqueueAdminTx(b, r)
  BY DEF ScheduleAdminResponse, r, g, h, pk
<1> HIDE DEF r
<1>7. QED BY <1>5, <1>6, EnqueueStep

-----------------------------------------------------------------------------
(* Traceroutes. *)

LEMMA SeqMonotone ==
  ASSUME NEW S, NEW R, S \subseteq R, NEW s \in Seq(S)
  PROVE  s \in Seq(R)
<1>1. Len(s) \in Nat /\ s \in [1..Len(s) -> S] BY LenProperties
<1>2. s \in [1..Len(s) -> R] BY <1>1
<1>3. QED BY <1>1, <1>2, SeqDef

(* A leg filled up to n entries keeps what it had. *)
LEMMA FilledFacts ==
  ASSUME NEW S, NEW s \in Seq(S), NEW n \in Nat, Len(s) <= n, NEW x \in S
  PROVE  /\ T!Filled(s, n, x) \in Seq(S)
         /\ Len(T!Filled(s, n, x)) = n
         /\ \A i \in 1..n : T!Filled(s, n, x)[i] = IF i <= Len(s) THEN s[i] ELSE x
<1> DEFINE k == n - Len(s)
           e == [i \in 1..k |-> x]
<1>1. k \in Nat /\ Len(s) \in Nat /\ Len(s) + k = n OBVIOUS
<1>2. k = IF n > Len(s) THEN n - Len(s) ELSE 0 BY <1>1
<1> HIDE DEF k
<1>3. e \in Seq(S) /\ Len(e) = k BY <1>1
<1>4. \A i \in 1..k : e[i] = x OBVIOUS
<1>5. T!Filled(s, n, x) = s \o e BY <1>2 DEF T!Filled
<1> HIDE DEF e
<1>6. /\ s \o e \in Seq(S) /\ Len(s \o e) = Len(s) + k
      /\ \A i \in 1..(Len(s) + k) : (s \o e)[i] = IF i <= Len(s) THEN s[i] ELSE e[i - Len(s)]
  BY <1>3, ConcatProperties
<1>7. \A i \in 1..n : i > Len(s) => i - Len(s) \in 1..k
  BY <1>1
<1>8. QED BY <1>1, <1>4, <1>5, <1>6, <1>7

(* The unknown hops are filled in: one entry for each hop of the arrival. *)
LEMMA UnknownFilled ==
  ASSUME NEW s \in Scenes, NEW p \in s.packets, NEW via \in s.via, p.port = "traceroute",
         NEW g, g = T!InsertUnknownHops(p.rd[Leg(p)], T!HopsAway(via, via.known))
  PROVE  /\ g.way \in Seq(Nodes \cup {NoNode}) /\ g.snr \in Seq(Int)
         /\ Len(g.way) = via.used /\ Len(g.snr) = via.used
         /\ \A i \in 1..via.used : g.way[i] \in {NoNode, s.way[i]}
<1> DEFINE leg == p.rd[Leg(p)]
           used == T!HopsAway(via, via.known)
           way == T!Filled(leg.way, T!Capped(used), NoNode)
<1>1. /\ DOMAIN leg = {"way", "snr"} /\ leg.way \in Seq(Nodes \cup {NoNode}) /\ leg.snr \in Seq(Int)
      /\ Len(leg.way) <= via.used /\ Len(leg.snr) <= via.used /\ via.used < RouteSize
      /\ \A i \in DOMAIN leg.way : leg.way[i] \in {NoNode, s.way[i]}
      /\ used < 0 => Len(leg.way) = via.used /\ Len(leg.snr) = via.used
  BY SceneTraces
<1>2. via.used \in Nat BY ViaFacts
<1>3. used \in Int /\ (used < 0 \/ used = via.used) BY <1>2, ViaFacts
<1> HIDE DEF leg, used
<1>4. CASE used < 0
  <2>1. g = leg BY <1>4 DEF T!InsertUnknownHops, leg, used
  <2>2. QED BY <2>1, <1>1, <1>2, <1>4
<1>5. CASE used = via.used
  <2>1. T!Capped(used) = via.used BY <1>1, <1>2, <1>5, HopBudgets DEF T!Capped
  <2>2. g = [way |-> way, snr |-> T!Filled(leg.snr, T!Capped(Len(way)), T!NoSignal)]
    BY <1>2, <1>5 DEF T!InsertUnknownHops, leg, used
  <2>3. /\ way \in Seq(Nodes \cup {NoNode}) /\ Len(way) = via.used
        /\ \A i \in 1..via.used : way[i] = IF i <= Len(leg.way) THEN leg.way[i] ELSE NoNode
    <3> DEFINE D == Nodes \cup {NoNode}
               w == leg.way
               u == via.used
               x == NoNode
               f == T!Filled(w, u, x)
    <3>1. w \in Seq(D) /\ x \in D /\ Len(w) \in Nat /\ u \in Nat /\ Len(w) <= u BY <1>1, <1>2
    <3> HIDE DEF D, w, u, x
    <3>2. f \in Seq(D) /\ Len(f) = u /\ \A i \in 1..u : f[i] = IF i <= Len(w) THEN w[i] ELSE x
      BY <3>1, FilledFacts
    <3> HIDE DEF f
    <3>3. way = f BY <2>1 DEF f, w, u, x
    <3>4. QED BY <3>2, <3>3 DEF D, w, u, x
  <2> HIDE DEF way
  <2>4. T!Capped(Len(way)) = via.used BY <2>3, <1>1, <1>2, HopBudgets DEF T!Capped
  <2>5. T!Filled(leg.snr, via.used, T!NoSignal) \in Seq(Int) /\ Len(T!Filled(leg.snr, via.used, T!NoSignal)) = via.used
    <3> DEFINE w == leg.snr
               u == via.used
               f == T!Filled(w, u, T!NoSignal)
    <3>1. w \in Seq(Int) /\ Len(w) \in Nat /\ u \in Nat /\ Len(w) <= u BY <1>1, <1>2
    <3>2. T!NoSignal \in Int BY DEF T!NoSignal
    <3> HIDE DEF w, u
    <3>3. f \in Seq(Int) /\ Len(f) = u BY <3>1, <3>2, FilledFacts
    <3>4. QED BY <3>3 DEF f, w, u
  <2>6. g.way = way /\ g.snr = T!Filled(leg.snr, via.used, T!NoSignal) BY <2>2, <2>4
  <2>7. \A i \in 1..via.used : way[i] \in {NoNode, s.way[i]}
    <3> TAKE i \in 1..via.used
    <3>1. CASE i <= Len(leg.way)
      <4>1. i \in DOMAIN leg.way BY <3>1, <1>1, <1>2
      <4>2. QED BY <4>1, <3>1, <2>3, <1>1
    <3>2. CASE ~(i <= Len(leg.way)) BY <3>2, <2>3
    <3>3. QED BY <3>1, <3>2
  <2>8. QED BY <2>3, <2>5, <2>6, <2>7
<1>6. QED BY <1>3, <1>4, <1>5

(* With our entry, or our signal at the end of the way, the leg tells it. *)
LEMMA LegTells ==
  ASSUME NEW s \in Scenes, NEW p \in s.packets, NEW via \in s.via, p.port = "traceroute",
         NEW end \in BOOLEAN, NEW rd,
         rd = T!AlterOnRelay(p.rd, Leg(p), T!HopsAway(via, via.known), Me, via.snr, end)
  PROVE  Tells(s, [leg |-> rd[Leg(p)], via |-> via, end |-> end])
<1> DEFINE g == T!InsertUnknownHops(p.rd[Leg(p)], T!HopsAway(via, via.known))
           h == T!AppendIdAndSnr(g, Me, via.snr, end)
           t == [leg |-> rd[Leg(p)], via |-> via, end |-> end]
<1>1. Leg(p) \in DOMAIN p.rd BY SceneTraces DEF Leg
<1>2. rd[Leg(p)] = h BY <1>1 DEF T!AlterOnRelay
<1>3. /\ g.way \in Seq(Nodes \cup {NoNode}) /\ g.snr \in Seq(Int)
      /\ Len(g.way) = via.used /\ Len(g.snr) = via.used
      /\ \A i \in 1..via.used : g.way[i] \in {NoNode, s.way[i]}
  BY UnknownFilled
<1>4. via.used \in Nat /\ via.used < RouteSize BY ViaFacts, SceneTraces
<1> HIDE DEF g
<1>5. h.snr = Append(g.snr, via.snr) /\ h.way = IF end THEN g.way ELSE Append(g.way, Me)
  <2>1. ~(Len(g.way) >= RouteSize) /\ ~(Len(g.snr) >= RouteSize) BY <1>3, <1>4, HopBudgets
  <2>2. QED BY <2>1 DEF T!AppendIdAndSnr
<1> HIDE DEF h
<1>6. Len(h.snr) = via.used + 1
  <2>1. g.snr \in Seq(Int \cup {via.snr}) BY <1>3, SeqMonotone
  <2>2. QED BY <2>1, <1>3, <1>5
<1>7. CASE end
  <2>1. h.way = g.way /\ DOMAIN g.way = 1..via.used BY <1>7, <1>3, <1>5
  <2>2. \A i \in 1..via.used : i # via.used + 1 BY <1>4
  <2>3. t.leg = h /\ t.via = via /\ t.end BY <1>2, <1>7
  <2> HIDE DEF t
  <2>4. Tells(s, t) BY <2>1, <2>2, <2>3, <1>3, <1>6 DEF Tells
  <2>5. QED BY <2>4 DEF t
<1>8. CASE ~end
  <2> DEFINE S == Nodes \cup {NoNode, Me}
  <2>1. g.way \in Seq(S) BY <1>3, SeqMonotone
  <2>2. Me \in S OBVIOUS
  <2> HIDE DEF S
  <2>3. h.way = Append(g.way, Me) BY <1>8, <1>5
  <2>4. /\ Len(h.way) = via.used + 1 /\ DOMAIN h.way = 1..(via.used + 1)
        /\ h.way[via.used + 1] = Me /\ \A i \in 1..via.used : h.way[i] = g.way[i]
    BY <2>1, <2>2, <2>3, <1>3, <1>4, AppendProperties
  <2>5. \A i \in 1..(via.used + 1) : i = via.used + 1 \/ (i # via.used + 1 /\ i \in 1..via.used)
    BY <1>4
  <2>6. t.leg = h /\ t.via = via /\ ~t.end BY <1>2, <1>8
  <2> HIDE DEF t
  <2>7. \A i \in DOMAIN h.way : h.way[i] \in {NoNode, IF i = via.used + 1 THEN Me ELSE s.way[i]}
    BY <2>4, <2>5, <1>3
  <2>8. Tells(s, t) BY <2>4, <2>6, <2>7, <1>6 DEF Tells
  <2>9. QED BY <2>8 DEF t
<1>9. QED BY <1>7, <1>8

-----------------------------------------------------------------------------
(* The handlers that may answer. *)

LEMMA AdminStep ==
  ASSUME scene \in Scenes, NEW p \in scene.packets, NEW via \in scene.via, NEW b, Honest(scene, b),
         NEW d, NEW outcome, outcome # "ack"
  PROVE  LET c == ProcessAdminRx(b, p, d, via, outcome)
         IN /\ Honest(scene, c)
            /\ c.ran = IF outcome = "done" THEN Append(b.ran, Ran(p)) ELSE b.ran
<1> DEFINE c == ProcessAdminRx(b, p, d, via, outcome)
<1>1. CASE outcome = "response"
  BY <1>1, ResponseStep DEF ProcessAdminRx
<1>2. CASE outcome # "response"
  <2> DEFINE known == via.known
             e == ScheduleAdminRoutingError(b, p, d, via, known, outcome)
  <2> HIDE DEF known
  <2>1. Honest(scene, e) /\ e.ran = b.ran BY RoutingErrorStep
  <2>2. c = [e EXCEPT !.ran = IF outcome = "done" THEN Append(@, Ran(p)) ELSE @]
    BY <1>2 DEF ProcessAdminRx, known, Ran
  <2> HIDE DEF e, c
  <2>3. DOMAIN e = BoxFields BY <2>1 DEF Honest
  <2>4. /\ DOMAIN c = BoxFields /\ c.answers = e.answers /\ c.traced = e.traced
        /\ c.ran = IF outcome = "done" THEN Append(e.ran, Ran(p)) ELSE e.ran
    BY <2>2, <2>3 DEF BoxFields
  <2>5. Honest(scene, c) BY <2>1, <2>4 DEF Honest
  <2>6. QED BY <2>1, <2>4, <2>5 DEF c
<1>3. QED BY <1>1, <1>2

LEMMA DfuStep ==
  ASSUME NEW s, NEW b, Honest(s, b), NEW p, NEW via, NEW d
  PROVE  Honest(s, MaybeArmOtaDfu(b, p, d, via)) /\ MaybeArmOtaDfu(b, p, d, via).ran = b.ran
<1>1. DOMAIN b = BoxFields BY DEF Honest
<1> DEFINE r == Answer(p, "dfu", d.pk, via)
           c == [b EXCEPT !.dfu = r]
<1>2. MaybeArmOtaDfu(b, p, d, via) \in {b, c} BY DEF MaybeArmOtaDfu
<1> HIDE DEF r
<1>3. DOMAIN c = BoxFields /\ c.answers = b.answers /\ c.traced = b.traced /\ c.ran = b.ran
  BY <1>1 DEF BoxFields
<1> HIDE DEF c
<1>4. Honest(s, c) BY <1>3 DEF Honest
<1>5. QED BY <1>2, <1>3, <1>4

LEMMA NodeinfoSteps ==
  ASSUME NEW s, NEW b, Honest(s, b), NEW p, NEW via
  PROVE  /\ Honest(s, MaybeScheduleNodeinfoReply(b, p, via))
         /\ MaybeScheduleNodeinfoReply(b, p, via).ran = b.ran
         /\ Honest(s, ProcessNodeinfoRx(b, p)) /\ ProcessNodeinfoRx(b, p).ran = b.ran
<1>1. DOMAIN b = BoxFields BY DEF Honest
<1> DEFINE r == Reply(p, "info", "channel", via, HopLimit)
           cool == [to |-> p.from, at |-> now]
           c == [b EXCEPT !.info = r, !.cool = cool]
           e == CacheUpsert(b.peers, [id |-> p.from, key |-> p.key, at |-> now])
           f == [b EXCEPT !.peers = e]
<1>2. MaybeScheduleNodeinfoReply(b, p, via) \in {b, c} BY DEF MaybeScheduleNodeinfoReply
<1>3. ProcessNodeinfoRx(b, p) = f BY <1>1 DEF ProcessNodeinfoRx, BoxFields
<1> HIDE DEF r, cool, e
<1>4. DOMAIN c = BoxFields /\ c.answers = b.answers /\ c.traced = b.traced /\ c.ran = b.ran
  BY <1>1 DEF BoxFields
<1>5. DOMAIN f = BoxFields /\ f.answers = b.answers /\ f.traced = b.traced /\ f.ran = b.ran
  BY <1>1 DEF BoxFields
<1> HIDE DEF c, f
<1>6. Honest(s, c) /\ Honest(s, f) BY <1>4, <1>5 DEF Honest
<1>7. QED BY <1>2, <1>3, <1>4, <1>5, <1>6

LEMMA TracerouteStep ==
  ASSUME scene \in Scenes, NEW p \in scene.packets, NEW via \in scene.via, NEW b, Honest(scene, b),
         p.port = "traceroute"
  PROVE  LET c == MaybeScheduleTracerouteResponse(b, p, via)
         IN Honest(scene, c) /\ c.ran = b.ran
<1> DEFINE yes == TRUE
           used == T!HopsAway(via, via.known)
           rd == T!AlterOnRelay(p.rd, Leg(p), used, Me, via.snr, yes)
           r == Answer(p, "route", "channel", via)
           t == [leg |-> rd[Leg(p)], via |-> via, end |-> yes]
           c == [b EXCEPT !.trace = r, !.suppress = TRUE, !.answers = @ \cup {r}, !.traced = @ \cup {t}]
<1>1. MaybeScheduleTracerouteResponse(b, p, via) \in {b, c} BY DEF MaybeScheduleTracerouteResponse
<1>2. Usable(scene, r)
  <2> DEFINE known == via.known
             last == p.from \in scene.lastHops
             h == T!ResponseHops(via, known, last)
  <2> HIDE DEF known, last
  <2>1. h >= via.used BY HopsEnough
  <2>2. r.req = p.id /\ r.hops = h /\ r.took = via.used /\ r.says # "ack"
    BY DEF Answer, Reply, Hops, known, last
  <2> HIDE DEF r, h
  <2>3. QED BY <2>1, <2>2, ReplyUsable
<1>3. Tells(scene, t)
  <2>1. yes \in BOOLEAN OBVIOUS
  <2> HIDE DEF yes
  <2>2. QED BY <2>1, LegTells
<1>4. DOMAIN b = BoxFields BY DEF Honest
<1> HIDE DEF r, t
<1>5. /\ DOMAIN c = BoxFields /\ c.answers = b.answers \cup {r} /\ c.traced = b.traced \cup {t}
      /\ c.ran = b.ran
  BY <1>4 DEF BoxFields
<1> HIDE DEF c
<1>6. Honest(scene, c) BY <1>2, <1>3, <1>5 DEF Honest
<1>7. QED BY <1>1, <1>5, <1>6

LEMMA TracedStep ==
  ASSUME scene \in Scenes, NEW p \in scene.packets, NEW via \in scene.via, NEW b, Honest(scene, b)
  PROVE  Honest(scene, Traced(b, p, via)) /\ Traced(b, p, via).ran = b.ran
<1>1. CASE p.port # "traceroute" \/ ~p.candidate BY <1>1 DEF Traced
<1>2. CASE p.port = "traceroute" /\ p.candidate
  <2> DEFINE no == FALSE
             used == T!HopsAway(via, via.known)
             rd == T!RebuildRelay(p.rd, Leg(p), used, Me, via.snr)
             new == T!AlterOnRelay(p.rd, Leg(p), used, Me, via.snr, no)
             t == [leg |-> new[Leg(p)], via |-> via, end |-> no]
             c == [b EXCEPT !.traced = @ \cup {t}]
  <2>1. rd = p.rd \/ rd = new BY DEF T!RebuildRelay
  <2>2. Traced(b, p, via) = IF rd = p.rd THEN b
                            ELSE [b EXCEPT !.traced = @ \cup {[leg |-> rd[Leg(p)], via |-> via, end |-> no]}]
    BY <1>2 DEF Traced
  <2>3. Tells(scene, t)
    <3>1. no \in BOOLEAN OBVIOUS
    <3> HIDE DEF no
    <3>2. QED BY <3>1, <1>2, LegTells
  <2> HIDE DEF rd, new
  <2>4. Traced(b, p, via) \in {b, c} BY <2>1, <2>2
  <2>5. DOMAIN b = BoxFields BY DEF Honest
  <2> HIDE DEF t
  <2>6. DOMAIN c = BoxFields /\ c.answers = b.answers /\ c.traced = b.traced \cup {t} /\ c.ran = b.ran
    BY <2>5 DEF BoxFields
  <2> HIDE DEF c
  <2>7. Honest(scene, c) BY <2>3, <2>6 DEF Honest
  <2>8. QED BY <2>4, <2>6, <2>7
<1>3. QED BY <1>1, <1>2

LEMMA AckNakStep ==
  ASSUME scene \in Scenes, NEW p \in scene.packets, NEW via \in scene.via, NEW b, Honest(scene, b),
         NEW d, d = DecodePayload(p), NEW says, NEW hops, p.ref \/ hops >= via.used
  PROVE  LET c == ScheduleAckNak(b, p, d, says, via, hops)
         IN Honest(scene, c) /\ c.ran = b.ran
<1> DEFINE key == IF d.pki THEN RemotePkForErrorReply(b, p, d) ELSE NoKey
           r == AckNakFrame(p, d, says, key, via, hops)
           c == [b EXCEPT !.ack = r, !.answers = @ \cup {r}]
<1>1. ScheduleAckNak(b, p, d, says, via, hops) \in {b, c} BY DEF ScheduleAckNak
<1>2. /\ r.req = p.id /\ r.hops = hops /\ r.took = via.used /\ r.open = d.ok
      /\ r.enc = OnKeyOrChannel(key)
  BY DEF AckNakFrame, Reply
<1>3. p.enc # NoKey BY ScenePackets
<1>4. d.ok => OnKeyOrChannel(key) = p.enc
  BY <1>3, DecodeFacts DEF OnKeyOrChannel, RemotePkForErrorReply
<1> HIDE DEF r, key
<1>5. Usable(scene, r) BY <1>2, <1>4, ReplyUsable
<1>6. DOMAIN b = BoxFields BY DEF Honest
<1>7. DOMAIN c = BoxFields /\ c.answers = b.answers \cup {r} /\ c.traced = b.traced /\ c.ran = b.ran
  BY <1>6 DEF BoxFields
<1> HIDE DEF c
<1>8. Honest(scene, c) BY <1>5, <1>7, AnswerStep
<1>9. QED BY <1>1, <1>7, <1>8

LEMMA ReliableStep ==
  ASSUME scene \in Scenes, NEW p \in scene.packets, NEW via \in scene.via, NEW b, Honest(scene, b),
         NEW d, d = DecodePayload(p)
  PROVE  LET c == ProcessReliableRx(b, p, d, via)
         IN Honest(scene, c) /\ c.ran = b.ran
<1> DEFINE no == FALSE
           known == via.known
           last == p.from \in scene.lastHops
           h == T!ResponseHops(via, no, last)
           g == T!ResponseHops(via, known, last)
           nak == "nochannel"
           ack == "ack"
<1>1. h >= via.used /\ g >= via.used
  <2> HIDE DEF no, known, last
  <2>1. QED BY HopsEnough
<1>2. \/ ProcessReliableRx(b, p, d, via) \in
           {b, ScheduleAckNak(b, p, d, nak, via, h), ScheduleAckNak(b, p, d, ack, via, g)}
      \/ (p.ref /\ ProcessReliableRx(b, p, d, via) = ScheduleAckNak(b, p, d, ack, via, 0))
  BY DEF ProcessReliableRx, Hops
<1> HIDE DEF h, g, nak, ack
<1>3. /\ Honest(scene, ScheduleAckNak(b, p, d, nak, via, h)) /\ ScheduleAckNak(b, p, d, nak, via, h).ran = b.ran
      /\ Honest(scene, ScheduleAckNak(b, p, d, ack, via, g)) /\ ScheduleAckNak(b, p, d, ack, via, g).ran = b.ran
  BY <1>1, AckNakStep
<1>4. p.ref => /\ Honest(scene, ScheduleAckNak(b, p, d, ack, via, 0))
               /\ ScheduleAckNak(b, p, d, ack, via, 0).ran = b.ran
  BY AckNakStep
<1>5. QED BY <1>2, <1>3, <1>4

LEMMA DuplicateStep ==
  ASSUME scene \in Scenes, NEW p \in scene.packets, NEW via \in scene.via, NEW b, Honest(scene, b),
         NEW d, d = DecodePayload(p), NEW outcome \in AdminOutcomes(p, d)
  PROVE  LET c == HandleDuplicateRx(b, p, d, via, outcome)
         IN Honest(scene, c) /\ c.ran = b.ran
<1> DEFINE e == ProcessAdminRx(b, p, d, via, outcome)
           ack == "ack"
           c == HandleDuplicateRx(b, p, d, via, outcome)
<1>1. outcome # "ack" /\ (p.read => outcome # "done") BY DEF AdminOutcomes
<1>2. p.read => Honest(scene, e) /\ e.ran = b.ran BY <1>1, AdminStep
<1>3. \/ c = b
      \/ p.read /\ c = e
      \/ IsRepeatedReliableTx(d, via) /\ c = ScheduleAckNak(b, p, d, ack, via, 0)
  BY DEF HandleDuplicateRx
<1>4. IsRepeatedReliableTx(d, via) => via.used = 0
  BY ViaFacts DEF IsRepeatedReliableTx
<1> HIDE DEF ack, e, c
<1>5. IsRepeatedReliableTx(d, via) =>
        /\ Honest(scene, ScheduleAckNak(b, p, d, ack, via, 0))
        /\ ScheduleAckNak(b, p, d, ack, via, 0).ran = b.ran
  BY <1>4, AckNakStep
<1>6. QED BY <1>2, <1>3, <1>5 DEF c

LEMMA DispatchStep ==
  ASSUME scene \in Scenes, NEW p \in scene.packets, NEW via \in scene.via, NEW b, Honest(scene, b),
         NEW d, d = DecodePayload(p), NEW outcome, p.to = Me => outcome # "ack"
  PROVE  LET c == Dispatch(b, p, d, via, outcome)
         IN /\ Honest(scene, c)
            /\ c.ran = b.ran \/ (p.to = Me /\ c.ran = Append(b.ran, Ran(p)))
<1> DEFINE no == FALSE
           err == d.err
           c == Dispatch(b, p, d, via, outcome)
<1>1. CASE ~d.ok
  <2>1. err # "ack"
    BY DEF DecodePayload, TryPkiDecrypt
  <2>2. c \in {b, ScheduleAdminRoutingError(b, p, d, via, no, err)} BY <1>1 DEF Dispatch
  <2> HIDE DEF no, err, c
  <2>3. QED BY <2>1, <2>2, RoutingErrorStep DEF c
<1>2. CASE d.ok
  <2>1. CASE p.port = "nodeinfo"
    <3>1. c \in {MaybeScheduleNodeinfoReply(b, p, via), ProcessNodeinfoRx(b, p)}
      BY <1>2, <2>1 DEF Dispatch
    <3> HIDE DEF c
    <3>2. QED BY <3>1, NodeinfoSteps DEF c
  <2>2. CASE p.port = "traceroute"
    <3>1. c = MaybeScheduleTracerouteResponse(b, p, via) BY <1>2, <2>2 DEF Dispatch
    <3> HIDE DEF c
    <3>2. QED BY <3>1, <2>2, TracerouteStep DEF c
  <2>3. CASE p.port = "admin" /\ p.to = Me
    <3>1. c = ProcessAdminRx(b, p, d, via, outcome) BY <1>2, <2>3 DEF Dispatch
    <3> DEFINE e == ProcessAdminRx(b, p, d, via, outcome)
    <3>2. Honest(scene, e) /\ e.ran = IF outcome = "done" THEN Append(b.ran, Ran(p)) ELSE b.ran
      BY <2>3, AdminStep
    <3> HIDE DEF c, e
    <3>3. Honest(scene, c) /\ (c.ran = b.ran \/ c.ran = Append(b.ran, Ran(p))) BY <3>1, <3>2 DEF e
    <3>4. QED BY <3>3, <2>3 DEF c
  <2>4. CASE p.port = "text" /\ p.to = Me
    <3>1. c = MaybeArmOtaDfu(b, p, d, via) BY <1>2, <2>4 DEF Dispatch
    <3> HIDE DEF c
    <3>2. QED BY <3>1, DfuStep DEF c
  <2>5. CASE /\ p.port # "nodeinfo" /\ p.port # "traceroute"
             /\ ~(p.port = "admin" /\ p.to = Me) /\ ~(p.port = "text" /\ p.to = Me)
    <3>1. c = b BY <1>2, <2>5 DEF Dispatch
    <3>2. QED BY <3>1
  <2>6. QED BY <2>1, <2>2, <2>3, <2>4, <2>5
<1>3. QED BY <1>1, <1>2

-----------------------------------------------------------------------------
(* The whole steps. *)

(* Fields that no property of the box is about. *)
LEMMA OtherFields ==
  ASSUME NEW s, NEW b, Honest(s, b), NEW c, DOMAIN c = BoxFields,
         c.answers = b.answers, c.traced = b.traced, c.ran = b.ran
  PROVE  Honest(s, c) /\ \A h : RanOnce(h, b) => RanOnce(h, c)
BY DEF Honest, RanOnce

(* Storing an id moves what the ring holds by one place. *)
LEMMA PushFacts ==
  ASSUME NEW h, Ring(h), NEW id \in Nat
  PROVE  LET r == Pushed(h.ring, id)
         IN /\ r \in Seq(Nat)
            /\ Len(r) = IF h.stored + 1 < HistorySize THEN h.stored + 1 ELSE HistorySize
            /\ r[Len(r)] = id
            /\ \A k \in Nat : k >= 1 /\ k < Len(r) => /\ k <= Len(h.ring)
                                                   /\ r[Len(r) - k] = h.ring[Len(h.ring) + 1 - k]
<1> DEFINE g == h.ring
           n == Len(g)
           r == Pushed(g, id)
<1>1. g \in Seq(Nat) /\ n \in Nat /\ h.stored \in Nat
  BY DEF Ring
<1>2. n = IF h.stored < HistorySize THEN h.stored ELSE HistorySize BY DEF Ring
<1>3. HistorySize \in Nat /\ HistorySize > 0 BY HistoryHoldsSome
<1> HIDE DEF g
<1>4. CASE n < HistorySize
  <2>1. r = Append(g, id) BY <1>4 DEF Pushed
  <2>2. r \in Seq(Nat) /\ Len(r) = n + 1 /\ r[n + 1] = id /\ \A i \in 1..n : r[i] = g[i]
    BY <2>1, <1>1, AppendProperties
  <2> HIDE DEF r, n
  <2>3. Len(r) = IF h.stored + 1 < HistorySize THEN h.stored + 1 ELSE HistorySize
    BY <2>2, <1>1, <1>2, <1>3, <1>4
  <2>4. \A k \in Nat : k >= 1 /\ k < Len(r) => k <= n /\ r[Len(r) - k] = g[n + 1 - k]
    <3> SUFFICES ASSUME NEW k \in Nat, k >= 1, k < Len(r) PROVE k <= n /\ r[Len(r) - k] = g[n + 1 - k]
      OBVIOUS
    <3>1. k <= n /\ n + 1 - k \in 1..n BY <2>2, <1>1
    <3>2. Len(r) - k = n + 1 - k BY <2>2, <1>1
    <3>3. QED BY <3>1, <3>2, <2>2
  <2>5. QED BY <2>2, <2>3, <2>4 DEF g, n, r
<1>5. CASE ~(n < HistorySize)
  <2> DEFINE q == Tail(g)
  <2>1. n = HistorySize /\ n >= 1 /\ g # << >> BY <1>1, <1>2, <1>3, <1>5
  <2>2. r = Append(q, id) BY <1>5 DEF Pushed
  <2>3. q \in Seq(Nat) /\ Len(q) = n - 1 /\ \A i \in 1..(n - 1) : q[i] = g[i + 1]
    BY <2>1, <1>1, HeadTailProperties
  <2> HIDE DEF q
  <2>4. r \in Seq(Nat) /\ Len(r) = Len(q) + 1 /\ r[Len(q) + 1] = id /\ \A i \in 1..Len(q) : r[i] = q[i]
    BY <2>2, <2>3, AppendProperties
  <2> HIDE DEF r, n
  <2>5. Len(r) = n /\ r[n] = id /\ \A i \in 1..(n - 1) : r[i] = g[i + 1] BY <2>1, <2>3, <2>4, <1>1
  <2>6. Len(r) = IF h.stored + 1 < HistorySize THEN h.stored + 1 ELSE HistorySize
    BY <2>1, <2>5, <1>1, <1>2, <1>3
  <2>7. \A k \in Nat : k >= 1 /\ k < Len(r) => k <= n /\ r[Len(r) - k] = g[n + 1 - k]
    <3> SUFFICES ASSUME NEW k \in Nat, k >= 1, k < Len(r) PROVE k <= n /\ r[Len(r) - k] = g[n + 1 - k]
      OBVIOUS
    <3>1. k <= n /\ n - k \in 1..(n - 1) /\ (n - k) + 1 = n + 1 - k BY <2>5, <1>1
    <3>2. Len(r) - k = n - k BY <2>5
    <3>3. QED BY <3>1, <3>2, <2>5
  <2>8. QED BY <2>4, <2>5, <2>6, <2>7 DEF g, n, r
<1>6. QED BY <1>4, <1>5

LEMMA OneFurther ==
  \A a, b \in Nat : a + 1 - (b + 1) = a - b /\ (b + 1 <= a => b < a)
OBVIOUS

(* A packet stored for the first time, or again after it was overwritten,  *)
(* may run.                                                                *)
LEMMA RunStep ==
  ASSUME NEW p, p.id \in Nat, ~IsDuplicate(hist, p), NEW b, RanOnce(hist, b), NEW c,
         c.ran = b.ran \/ c.ran = Append(b.ran, Ran(p))
  PROVE  RanOnce(Observe(hist, p), c)
<1> DEFINE h == hist
           f == Observe(h, p)
           g == h.ring
           n == Len(g)
           r == b.ran
           R == [id : Nat, at : Nat]
           e == Ran(p)
<1>1. f = [ring |-> Pushed(g, p.id), stored |-> h.stored + 1] BY DEF Observe
<1>2. f.ring = Pushed(g, p.id) /\ f.stored = h.stored + 1 BY <1>1
<1>3. Ring(h) /\ g \in Seq(Nat) /\ n \in Nat /\ h.stored \in Nat /\ n <= h.stored
  <2>1. Ring(h) BY DEF RanOnce
  <2>2. QED BY <2>1, HistoryHoldsSome DEF Ring
<1>4. r \in Seq(R) /\ (\A i \in DOMAIN r : InRing(h, r[i])) /\ Apart(r) BY DEF RanOnce
<1>5. e \in R /\ e.id = p.id /\ e.at = h.stored BY <1>3 DEF Ran
<1>6. p.id # 0 => \A i \in 1..n : g[i] # p.id BY <1>3 DEF IsDuplicate
<1>7. /\ f.ring \in Seq(Nat)
      /\ Len(f.ring) = IF f.stored < HistorySize THEN f.stored ELSE HistorySize
      /\ f.ring[Len(f.ring)] = p.id
      /\ \A k \in Nat : k >= 1 /\ k < Len(f.ring) =>
           k <= n /\ f.ring[Len(f.ring) - k] = g[n + 1 - k]
  <2> DEFINE id == p.id
  <2> HIDE DEF id, h
  <2>1. /\ Pushed(g, id) \in Seq(Nat)
        /\ Len(Pushed(g, id)) = IF h.stored + 1 < HistorySize THEN h.stored + 1 ELSE HistorySize
        /\ Pushed(g, id)[Len(Pushed(g, id))] = id
        /\ \A k \in Nat : k >= 1 /\ k < Len(Pushed(g, id)) =>
             k <= n /\ Pushed(g, id)[Len(Pushed(g, id)) - k] = g[n + 1 - k]
    BY <1>3, PushFacts DEF id
  <2>2. QED BY <1>2, <2>1 DEF id
<1>8. Ring(f) BY <1>2, <1>3, <1>7 DEF Ring
<1> HIDE DEF e, f, h, g, n, r
<1>9. \A i \in DOMAIN r : InRing(f, r[i])
  <2> SUFFICES ASSUME NEW i \in DOMAIN r PROVE InRing(f, r[i]) OBVIOUS
  <2> DEFINE x == r[i]
             k == h.stored - x.at
  <2>1. x \in R /\ InRing(h, x)
    <3> HIDE DEF R
    <3>1. QED BY <1>4
  <2>2. x.at \in Nat /\ x.at < h.stored BY <2>1 DEF InRing
  <2> HIDE DEF x
  <2>3. k \in Nat /\ k >= 1 /\ f.stored - x.at = k + 1
    <3> DEFINE u == h.stored
               v == x.at
               w == f.stored
    <3>1. u \in Nat /\ v \in Nat /\ v < u BY <2>2, <1>3
    <3>2. w = u + 1 BY <1>2
    <3>3. k = u - v OBVIOUS
    <3> HIDE DEF u, v, w, k
    <3>4. k \in Nat /\ k >= 1 /\ w - v = k + 1 BY <3>1, <3>2, <3>3
    <3>5. QED BY <3>4 DEF v, w
  <2>4. k <= n => g[n + 1 - k] = x.id BY <2>1 DEF InRing, g, n
  <2>5. Len(f.ring) \in Nat BY <1>7
  <2> HIDE DEF k
  <2>6. Len(f.ring) + 1 - (k + 1) = Len(f.ring) - k BY Zenon, <2>3, <2>5, OneFurther
  <2>7. k + 1 <= Len(f.ring) => k < Len(f.ring) BY Zenon, <2>3, <2>5, OneFurther
  <2>8. k + 1 <= Len(f.ring) => f.ring[Len(f.ring) + 1 - (k + 1)] = x.id
    BY <2>3, <2>4, <2>6, <2>7, <1>7
  <2>9. x.at < f.stored BY <2>2, <1>2, <1>3
  <2>10. InRing(f, x) BY <2>3, <2>8, <2>9 DEF InRing
  <2>11. QED BY <2>10 DEF x
<1>10. ASSUME c.ran = r PROVE RanOnce(f, c) BY <1>4, <1>8, <1>9, <1>10 DEF RanOnce
<1>11. ASSUME c.ran = Append(r, e) PROVE RanOnce(f, c)
  <2> DEFINE m == Len(r)
             a == Append(r, e)
  <2>1. m \in Nat /\ DOMAIN r = 1..m BY <1>4
  <2>2. a \in Seq(R) /\ Len(a) = m + 1 /\ a[m + 1] = e /\ \A i \in 1..m : a[i] = r[i]
    <3> HIDE DEF R
    <3>1. QED BY <1>4, <1>5, AppendProperties
  <2>3. DOMAIN a = 1..(m + 1) BY <2>2
  <2> HIDE DEF a, m
  <2>4. InRing(f, e)
    <3>1. e.at < f.stored /\ f.stored - e.at = 1 BY <1>2, <1>3, <1>5
    <3>2. Len(f.ring) \in Nat /\ Len(f.ring) + 1 - 1 = Len(f.ring) BY <1>7
    <3>3. QED BY <3>1, <3>2, <1>5, <1>7 DEF InRing
  <2>5. \A i \in 1..(m + 1) : i \in 1..m \/ i = m + 1 BY <2>1
  <2>6. \A i \in DOMAIN a : InRing(f, a[i]) BY <1>9, <2>1, <2>2, <2>3, <2>4, <2>5
  <2>7. \A i \in 1..m : r[i].id = p.id /\ p.id # 0 => h.stored - r[i].at > HistorySize
    <3> SUFFICES ASSUME NEW i \in 1..m, r[i].id = p.id, p.id # 0,
                        ~(h.stored - r[i].at > HistorySize)
                 PROVE  FALSE
      OBVIOUS
    <3> DEFINE x == r[i]
               k == h.stored - x.at
    <3>1. x \in R /\ InRing(h, x)
      <4> HIDE DEF R
      <4>1. QED BY <1>4, <2>1
    <3>2. x.at \in Nat /\ x.at < h.stored /\ (k <= n => g[n + 1 - k] = x.id)
      BY <3>1 DEF InRing, g, n
    <3> HIDE DEF x
    <3>3. k \in Nat /\ k >= 1 /\ k <= h.stored BY <3>2, <1>3
    <3>4. k <= HistorySize
      <4>1. ~(k > HistorySize) BY DEF x
      <4>2. QED BY <4>1, <3>3, HistoryHoldsSome
    <3>5. k <= n BY <1>3, <3>3, <3>4, HistoryHoldsSome DEF Ring, g, n
    <3> HIDE DEF k
    <3>6. n + 1 - k \in 1..n BY <3>3, <3>5, <1>3
    <3>7. g[n + 1 - k] = p.id BY <3>2, <3>5 DEF x
    <3>8. QED BY <1>6, <3>6, <3>7
  <2>8. Apart(a)
    <3> SUFFICES ASSUME NEW i \in 1..(m + 1), NEW j \in 1..(m + 1), i < j,
                        a[i].id = a[j].id, a[i].id # 0
                 PROVE  a[j].at - a[i].at > HistorySize
      BY <2>3 DEF Apart
    <3>1. i \in 1..m BY <2>1
    <3>2. CASE j \in 1..m BY <3>1, <3>2, <1>4, <2>1, <2>2 DEF Apart
    <3>3. CASE j = m + 1
      <4>1. a[j] = e /\ a[i] = r[i] BY <3>1, <3>3, <2>2
      <4>2. h.stored - r[i].at > HistorySize BY <4>1, <3>1, <2>7, <1>5
      <4>3. QED BY <4>1, <4>2, <1>5
    <3>4. QED BY <3>2, <3>3, <2>5
  <2>9. QED BY <1>8, <1>11, <2>2, <2>6, <2>8 DEF RanOnce, a
<1>12. QED BY <1>10, <1>11 DEF e, f, h, r

LEMMA SuppressCleared ==
  ASSUME NEW s, NEW b, Honest(s, b)
  PROVE  Honest(s, [b EXCEPT !.suppress = FALSE]) /\ [b EXCEPT !.suppress = FALSE].ran = b.ran
<1> DEFINE c == [b EXCEPT !.suppress = FALSE]
<1>1. DOMAIN b = BoxFields BY DEF Honest
<1>2. DOMAIN c = BoxFields /\ c.answers = b.answers /\ c.traced = b.traced /\ c.ran = b.ran
  BY <1>1 DEF BoxFields
<1> HIDE DEF c
<1>3. Honest(s, c) BY <1>2, OtherFields
<1>4. QED BY <1>2, <1>3 DEF c

LEMMA TransitBox ==
  ASSUME BoxInv, NEW p \in scene.packets, NEW via \in scene.via, Transit(p, via)
  PROVE  BoxInv'
<1> DEFINE d == DecodePayload(p)
           b == [box EXCEPT !.suppress = FALSE]
           e == Dispatch(b, p, d, via, None)
<1>1. p.to # Me /\ scene' = scene /\ hist' = Observe(hist, p) BY DEF Transit
<1>2. box' = b \/ box' = Traced(e, p, via) BY DEF Transit
<1>3. Honest(scene, box) /\ RanOnce(hist, box) /\ scene \in Scenes BY DEF BoxInv
<1>4. Honest(scene, b) /\ b.ran = box.ran BY <1>3, SuppressCleared
<1> DEFINE o == None
<1> HIDE DEF d, b, o
<1>5. Honest(scene, Dispatch(b, p, d, via, o)) /\ Dispatch(b, p, d, via, o).ran = b.ran
  BY <1>1, <1>3, <1>4, DispatchStep DEF d
<1>6. Honest(scene, e) /\ e.ran = b.ran BY <1>5 DEF o
<1> HIDE DEF e
<1>7. Honest(scene, Traced(e, p, via)) /\ Traced(e, p, via).ran = e.ran BY <1>3, <1>6, TracedStep
<1>8. Honest(scene, box') /\ box'.ran = box.ran BY <1>2, <1>4, <1>6, <1>7
<1>9. RanOnce(Observe(hist, p), box')
  <2>1. p.id = 0 BY <1>1, <1>3, ScenePackets
  <2>2. p.id \in Nat /\ ~IsDuplicate(hist, p) BY <2>1 DEF IsDuplicate
  <2>3. QED BY <2>2, <1>3, <1>8, RunStep
<1>10. QED BY <1>1, <1>3, <1>8, <1>9 DEF BoxInv

LEMMA ForUsBox ==
  ASSUME BoxInv, NEW p \in scene.packets, NEW via \in scene.via, ForUs(p, via)
  PROVE  BoxInv'
<1> DEFINE d == DecodePayload(p)
           b == [box EXCEPT !.suppress = FALSE]
<1>1. p.to = Me /\ scene' = scene /\ hist' = Observe(hist, p) BY DEF ForUs
<1>2. PICK outcome \in AdminOutcomes(p, d) :
        box' = IF ~IsDuplicate(hist, p) THEN ProcessReliableRx(Dispatch(b, p, d, via, outcome), p, d, via)
               ELSE HandleDuplicateRx(b, p, d, via, outcome)
  BY DEF ForUs
<1>3. Honest(scene, box) /\ RanOnce(hist, box) /\ scene \in Scenes BY DEF BoxInv
<1>4. Honest(scene, b) /\ b.ran = box.ran BY <1>3, SuppressCleared
<1>5. d = DecodePayload(p) OBVIOUS
<1> HIDE DEF d, b
<1>6. CASE IsDuplicate(hist, p)
  <2>1. box' = HandleDuplicateRx(b, p, d, via, outcome) BY <1>2, <1>6
  <2>2. Honest(scene, box') /\ box'.ran = b.ran BY <2>1, <1>3, <1>4, <1>5, DuplicateStep
  <2>3. hist' = hist BY <1>1, <1>6 DEF Observe
  <2>4. RanOnce(hist, box') BY <1>3, <1>4, <2>2 DEF RanOnce
  <2>5. QED BY <1>1, <1>3, <2>2, <2>3, <2>4 DEF BoxInv
<1>7. CASE ~IsDuplicate(hist, p)
  <2> DEFINE e == Dispatch(b, p, d, via, outcome)
  <2>1. box' = ProcessReliableRx(e, p, d, via) BY <1>2, <1>7
  <2>2. outcome # "ack" BY DEF AdminOutcomes
  <2>3. Honest(scene, e) /\ (e.ran = b.ran \/ e.ran = Append(b.ran, Ran(p)))
    BY <2>2, <1>3, <1>4, <1>5, DispatchStep
  <2> HIDE DEF e
  <2>4. Honest(scene, box') /\ box'.ran = e.ran BY <2>1, <2>3, <1>3, <1>5, ReliableStep
  <2>5. box'.ran = box.ran \/ box'.ran = Append(box.ran, Ran(p)) BY <2>3, <2>4, <1>4
  <2>6. p.id \in Nat BY <1>3, ScenePackets
  <2>7. RanOnce(Observe(hist, p), box') BY <2>5, <2>6, <1>3, <1>7, RunStep
  <2>8. QED BY <1>1, <1>3, <2>4, <2>7 DEF BoxInv
<1>8. QED BY <1>6, <1>7

LEMMA InfoStep ==
  ASSUME NEW b, DOMAIN b = BoxFields
  PROVE  LET c == ScheduleInfo(b)
         IN DOMAIN c = BoxFields /\ c.answers = b.answers /\ c.traced = b.traced /\ c.ran = b.ran
BY DEF ScheduleInfo, BoxFields

LEMMA DueStep ==
  ASSUME NEW b, DOMAIN b = BoxFields
  PROVE  LET c == ScheduleDue(b)
         IN DOMAIN c = BoxFields /\ c.answers = b.answers /\ c.traced = b.traced /\ c.ran = b.ran
<1> DEFINE e == IF Due(b, "info") THEN ScheduleInfo(b) ELSE b
           fire == {k \in {"telemetry", "position"} :
                      k \notin b.own /\ Due(b, k) /\ (k = "position" => scene.fixed)}
           kept == IF scene.fixed THEN b.own ELSE b.own \ {"position"}
           own == kept \cup fire
           sent == [k \in OwnBroadcasts |-> IF k \in fire THEN now ELSE e.sent[k]]
           c == [e EXCEPT !.own = own, !.sent = sent]
<1>1. DOMAIN e = BoxFields /\ e.answers = b.answers /\ e.traced = b.traced /\ e.ran = b.ran
  BY InfoStep
<1>2. ScheduleDue(b) = [e EXCEPT !.own = own, !.sent = [k \in OwnBroadcasts |-> IF k \in fire THEN now ELSE @[k]]]
  BY DEF ScheduleDue
<1> HIDE DEF e, fire, own
<1>3. ScheduleDue(b) = c BY <1>1, <1>2 DEF BoxFields
<1> HIDE DEF sent
<1>4. DOMAIN c = BoxFields /\ c.answers = e.answers /\ c.traced = e.traced /\ c.ran = e.ran
  BY <1>1 DEF BoxFields
<1>5. QED BY <1>1, <1>3, <1>4

LEMMA OtherStepsBox ==
  ASSUME BoxInv,
         \/ Tick \/ Maintain \/ Poll \/ \E n \in Nodes : Forget(n)
         \/ \E preset \in BOOLEAN : RadioReconfigured(preset)
         \/ UNCHANGED vars
  PROVE  BoxInv'
<1>1. Honest(scene, box) /\ RanOnce(hist, box) /\ scene \in Scenes /\ DOMAIN box = BoxFields
  BY DEF BoxInv, Honest
<1>2. scene' = scene /\ hist' = hist
  BY DEF Tick, Maintain, Poll, Forget, RadioReconfigured, vars
<1>3. DOMAIN box' = BoxFields /\ box'.answers = box.answers /\ box'.traced = box.traced /\ box'.ran = box.ran
  <2>1. CASE Tick \/ (\E n \in Nodes : Forget(n)) \/ UNCHANGED vars
    BY <2>1, <1>1 DEF Tick, Forget, vars
  <2>2. CASE Maintain BY <2>2, <1>1, DueStep DEF Maintain
  <2>3. CASE Poll
    BY <2>3, <1>1 DEF Poll, PollAck, PollDfu, PollNodeinfo, PollTraceroute, PollOwn, PollAdmin, BoxFields
  <2>4. ASSUME NEW preset \in BOOLEAN, RadioReconfigured(preset)
        PROVE  DOMAIN box' = BoxFields /\ box'.answers = box.answers /\ box'.traced = box.traced /\ box'.ran = box.ran
    <3> DEFINE a == [i \in 1..MaxAdmin |-> None]
               b == [box EXCEPT !.ack = None, !.trace = None, !.admin = a]
               c == [b EXCEPT !.sent["info"] = Never]
    <3>1. box' = b \/ box' = ScheduleInfo(c) BY <2>4 DEF RadioReconfigured
    <3> HIDE DEF a
    <3>2. DOMAIN b = BoxFields /\ b.answers = box.answers /\ b.traced = box.traced /\ b.ran = box.ran
      BY <1>1 DEF BoxFields
    <3> HIDE DEF b
    <3>3. DOMAIN c = BoxFields /\ c.answers = b.answers /\ c.traced = b.traced /\ c.ran = b.ran
      BY <3>2 DEF BoxFields
    <3> HIDE DEF c
    <3>4. QED BY <3>1, <3>2, <3>3, InfoStep
  <2>5. QED BY <2>1, <2>2, <2>3, <2>4
<1>4. Honest(scene, box') /\ RanOnce(hist, box') BY <1>1, <1>3, OtherFields
<1>5. QED BY <1>1, <1>2, <1>4 DEF BoxInv

(* The inductive invariant of the box: the answers that were queued can be *)
(* used, the routes passed on are true, what ran was stored in the         *)
(* history, and runs of one id lie apart.  The last two belong together:   *)
(* they lie apart only because the ring holds an id that ran until         *)
(* HistorySize others were stored.                                         *)
THEOREM BoxInvariant == Spec => []BoxInv
<1>1. Init => BoxInv
  <2> SUFFICES ASSUME Init PROVE BoxInv OBVIOUS
  <2>1. DOMAIN box = BoxFields /\ box.answers = {} /\ box.traced = {} /\ box.ran = << >>
    BY DEF Init, BoxFields
  <2>2. scene \in Scenes BY DEF Init
  <2>3. hist = NewHistory BY DEF Init
  <2>4. RanOnce(hist, box)
    <3>1. Ring(hist) BY <2>3, HistoryHoldsSome DEF Ring, NewHistory
    <3>2. box.ran \in Seq([id : Nat, at : Nat]) /\ DOMAIN box.ran = {} BY <2>1
    <3>3. QED BY <3>1, <3>2 DEF RanOnce, Apart
  <2>5. QED BY <2>1, <2>2, <2>4 DEF BoxInv, Honest
<1>2. BoxInv /\ [Next]_vars => BoxInv'
  <2> SUFFICES ASSUME BoxInv, [Next]_vars PROVE BoxInv' OBVIOUS
  <2>1. CASE \E p \in scene.packets, via \in scene.via : Transit(p, via) BY <2>1, TransitBox
  <2>2. CASE \E p \in scene.packets, via \in scene.via : ForUs(p, via) BY <2>2, ForUsBox
  <2>3. QED BY <2>1, <2>2, OtherStepsBox DEF Next
<1>3. QED BY <1>1, <1>2, PTL DEF Spec

(* For every size of the history: an admin request that changes something  *)
(* runs once within the history's window, since a copy of it is            *)
(* acknowledged, not run (handle_duplicate_rx).  It can run again only     *)
(* after at least HistorySize other packets were stored (PacketHistory).   *)
THEOREM WriteRunsOnce == Spec => []WritesRunOnce
<1>1. BoxInv => WritesRunOnce BY DEF BoxInv, RanOnce, Apart, WritesRunOnce
<1>2. QED BY <1>1, BoxInvariant, PTL

(* Every queued answer takes the key path of its request and has a hop     *)
(* budget that reaches back (process_reliable_rx, response_header,         *)
(* hop_limit_for_response).                                                *)
THEOREM AnswersUsable == Spec => []AnswerUsable
<1>1. BoxInv => AnswerUsable BY DEF BoxInv, Honest, Usable, AnswerUsable
<1>2. QED BY <1>1, BoxInvariant, PTL

(* A traceroute that this node passes on or answers tells the way          *)
(* (insert_unknown_hops, append_id_and_snr, rebuild_relay).                *)
THEOREM RoutesTellWay == Spec => []RouteTellsWay
<1>1. BoxInv => RouteTellsWay BY DEF BoxInv, Honest, Tells, RouteTellsWay
<1>2. QED BY <1>1, BoxInvariant, PTL

-----------------------------------------------------------------------------
(* The wrapping clock. *)

LEMMA ModFacts ==
  ASSUME NEW C \in Nat, C > 0, NEW x \in Int
  PROVE  x % C \in 0..(C - 1) /\ x \div C \in Int /\ x = C * (x \div C) + (x % C)
OBVIOUS

LEMMA MulGe ==
  ASSUME NEW C \in Nat, C > 0, NEW n \in Int, n >= 1
  PROVE  C * n >= C
OBVIOUS

(* A remainder is the only number below the modulus at that distance. *)
LEMMA ModUnique ==
  ASSUME NEW C \in Nat, C > 0, NEW q \in Int, NEW r \in 0..(C - 1), NEW x \in Int, x = C * q + r
  PROVE  x % C = r
<1> DEFINE d == x \div C
           m == x % C
<1>1. d \in Int /\ m \in 0..(C - 1) /\ x = C * d + m BY ModFacts
<1> HIDE DEF d, m
<1>2. C * (d - q) = r - m /\ C * (q - d) = m - r BY <1>1
<1>3. d - q = 0 \/ d - q >= 1 \/ q - d >= 1 BY <1>1
<1>4. d - q >= 1 => C * (d - q) >= C BY <1>1, MulGe
<1>5. q - d >= 1 => C * (q - d) >= C BY <1>1, MulGe
<1>6. d = q BY <1>1, <1>2, <1>3, <1>4, <1>5
<1>7. m = r BY <1>6, <1>1
<1>8. QED BY <1>7 DEF m

(* Shorter than a turn of the clock, the difference of two readings is the *)
(* time between them.                                                      *)
LEMMA Wrapped ==
  ASSUME NEW C \in Nat, C > 0, NEW a \in Int, NEW k \in 0..(C - 1)
  PROVE  (((a + k) % C) - (a % C)) % C = k
<1> DEFINE q == a \div C
           r == a % C
<1>1. q \in Int /\ r \in 0..(C - 1) /\ a = C * q + r BY ModFacts
<1> HIDE DEF q, r
<1>2. CASE r + k < C
  <2>1. r + k \in 0..(C - 1) /\ a + k \in Int /\ a + k = C * q + (r + k) BY <1>1, <1>2
  <2>2. (a + k) % C = r + k BY <2>1, <1>1, ModUnique
  <2>3. (r + k) - r = k /\ k \in Int /\ 0 \in Int /\ k = C * 0 + k BY <1>1
  <2>4. k % C = k BY <2>3, ModUnique
  <2>5. QED BY <2>2, <2>3, <2>4 DEF r
<1>3. CASE ~(r + k < C)
  <2>1. /\ r + k - C \in 0..(C - 1) /\ a + k \in Int /\ q + 1 \in Int
        /\ a + k = C * (q + 1) + (r + k - C)
    BY <1>1, <1>3
  <2>2. (a + k) % C = r + k - C BY <2>1, ModUnique
  <2>3. (r + k - C) - r = k - C /\ k - C \in Int /\ -1 \in Int /\ k - C = C * (-1) + k BY <1>1
  <2>4. (k - C) % C = k BY <2>3, ModUnique
  <2>5. QED BY <2>2, <2>3, <2>4 DEF r
<1>4. QED BY <1>2, <1>3

-----------------------------------------------------------------------------
(* Relay identities.  A reading of the clock at tick t, and what a bucket  *)
(* b knows of a node m heard at tick t that left an entry or a mark (x):   *)
(* its entry, or that the bucket overflowed since.                         *)

At(s, t) == (s.start + t) % Clock

BucketFields == {"byte", "heard", "overflow"}
SeenFields == {"boot", "first", "heard", "kept", "bans", "minted", "last"}

Bucketed(c) ==
  /\ \A b \in c : DOMAIN b = BucketFields /\ IsFiniteSet(b.heard)
  /\ \A a, b \in c : a.byte = b.byte => a = b

Covers(s, tk, b, m, t, x) ==
  \/ [id |-> m, at |-> At(s, t)] \in b.heard
  \/ x = "mark" /\ \E u \in Nat : t <= u /\ u <= tk /\ b.overflow = At(s, u)

Recalls(s, tk, c, h, k) ==
  \A m \in Nodes : k[m] # "nothing" =>
    /\ h[m] \in Nat /\ h[m] <= tk
    /\ tk - h[m] <= IdTtl /\ Low(m) # 0 =>
         \E b \in c : b.byte = Low(m) /\ Covers(s, tk, b, m, h[m], k[m])

IdInv ==
  /\ scene \in Scenes /\ ticks \in Nat /\ now = At(scene, ticks)
  /\ DOMAIN links = Nodes /\ DOMAIN seen = SeenFields
  /\ DOMAIN seen.heard = Nodes /\ DOMAIN seen.kept = Nodes
  /\ Bucketed(cache)
  /\ Recalls(scene, ticks, cache, seen.heard, seen.kept)

LEMMA ClockPositive == Clock \in Nat /\ Clock > 0 /\ IdTtl \in Nat /\ IdTtl < Clock
BY Clocks

LEMMA AtFacts ==
  ASSUME NEW s \in Scenes, NEW t \in Nat
  PROVE  At(s, t) \in Nat /\ At(s, t) # Never
<1>1. s.start \in Nat BY Clocks
<1>2. At(s, t) \in 0..(Clock - 1)
  <2> DEFINE x == s.start + t
  <2>1. x \in Int BY <1>1
  <2> HIDE DEF x
  <2>2. x % Clock \in 0..(Clock - 1) BY <2>1, ClockPositive, ModFacts
  <2>3. QED BY <2>2 DEF At, x
<1>3. QED BY <1>2, Clocks

LEMMA AgeOf ==
  ASSUME NEW s \in Scenes, NEW t \in Nat, NEW u \in Nat, t <= u, u - t < Clock
  PROVE  I!Since(At(s, u), At(s, t)) = u - t
<1> DEFINE a == s.start + t
           k == u - t
<1>1. s.start \in Nat BY Clocks
<1>2. a \in Int /\ k \in 0..(Clock - 1) /\ a + k = s.start + u BY <1>1, ClockPositive
<1> HIDE DEF a, k
<1>3. (((a + k) % Clock) - (a % Clock)) % Clock = k BY <1>2, ClockPositive, Wrapped
<1>4. At(s, u) = (a + k) % Clock /\ At(s, t) = a % Clock BY <1>2 DEF At, a
<1>5. QED BY <1>3, <1>4 DEF I!Since, k

LEMMA NextReading ==
  ASSUME NEW s \in Scenes, NEW t \in Nat
  PROVE  (At(s, t) + 1) % Clock = At(s, t + 1)
<1> DEFINE a == s.start + t
           q == a \div Clock
           r == a % Clock
           y == r + 1
           p == y \div Clock
           m == y % Clock
<1>1. s.start \in Nat BY Clocks
<1>2. a \in Int /\ s.start + (t + 1) = a + 1 BY <1>1
<1> HIDE DEF a
<1>3. q \in Int /\ r \in 0..(Clock - 1) /\ a = Clock * q + r BY <1>2, ClockPositive, ModFacts
<1> HIDE DEF q, r
<1>4. y \in Int BY <1>3
<1> HIDE DEF y
<1>5. p \in Int /\ m \in 0..(Clock - 1) /\ y = Clock * p + m BY <1>4, ClockPositive, ModFacts
<1> HIDE DEF p, m
<1>6. a + 1 \in Int /\ q + p \in Int /\ a + 1 = Clock * (q + p) + m
  BY <1>2, <1>3, <1>5, ClockPositive DEF y
<1>7. (a + 1) % Clock = m BY <1>5, <1>6, ClockPositive, ModUnique
<1>8. QED BY <1>2, <1>7 DEF At, m, y, r, a

(* An entry no older than IdTtl counts as fresh. *)
LEMMA EntryFresh ==
  ASSUME NEW s \in Scenes, NEW tk \in Nat, NEW t \in Nat, t <= tk, tk - t <= IdTtl, NEW b, NEW m,
         [id |-> m, at |-> At(s, t)] \in b.heard
  PROVE  [id |-> m, at |-> At(s, t)] \in I!FreshEntries(b, At(s, tk))
<1>1. I!Since(At(s, tk), At(s, t)) = tk - t BY ClockPositive, AgeOf
<1>2. QED BY <1>1, ClockPositive DEF I!FreshEntries

(* Noting a node keeps what the bucket knows of the others and records it, *)
(* by its entry or by the mark of the overflow.                            *)
LEMMA NotedFacts ==
  ASSUME NEW s \in Scenes, NEW tk \in Nat, NEW id, NEW b,
         DOMAIN b = BucketFields, IsFiniteSet(b.heard)
  PROVE  LET c == I!Noted(b, id, At(s, tk))
         IN /\ DOMAIN c = BucketFields /\ IsFiniteSet(c.heard) /\ c.byte = b.byte
            /\ \/ [id |-> id, at |-> At(s, tk)] \in c.heard
               \/ c.overflow = At(s, tk) /\ \A e \in c.heard : e.id # id
            /\ \A m, t, x : m # id /\ t \in Nat /\ t <= tk /\ tk - t <= IdTtl /\ Covers(s, tk, b, m, t, x)
                 => Covers(s, tk, c, m, t, x)
<1> DEFINE c == I!Noted(b, id, At(s, tk))
           kept == I!FreshEntries(b, At(s, tk))
           others == {e \in kept : e.id # id}
           mine == [id |-> id, at |-> At(s, tk)]
           with == others \cup {mine}
<1>1. IsFiniteSet(kept) BY FS_Subset DEF I!FreshEntries
<1>2. IsFiniteSet(others) BY <1>1, FS_Subset
<1>3. IsFiniteSet(with) BY <1>2, FS_AddElement
<1>4. \A m, t : m # id /\ t \in Nat /\ t <= tk /\ tk - t <= IdTtl /\ [id |-> m, at |-> At(s, t)] \in b.heard
        => [id |-> m, at |-> At(s, t)] \in others
  BY EntryFresh
<1>5. \/ c = [b EXCEPT !.heard = with]
      \/ others = kept /\ c = [b EXCEPT !.heard = kept, !.overflow = At(s, tk)]
  BY DEF I!Noted
<1>6. others \subseteq kept /\ mine \in with /\ \A e \in others : e.id # id OBVIOUS
<1> HIDE DEF c, kept
<1>7. CASE c = [b EXCEPT !.heard = with]
  <2> HIDE DEF with
  <2>1. DOMAIN c = BucketFields /\ c.heard = with /\ c.byte = b.byte /\ c.overflow = b.overflow
    BY <1>7 DEF BucketFields
  <2>2. mine \in c.heard BY <2>1, <1>6
  <2>3. others \subseteq with BY DEF with
  <2> HIDE DEF others
  <2>4. \A m, t, x : m # id /\ t \in Nat /\ t <= tk /\ tk - t <= IdTtl /\ Covers(s, tk, b, m, t, x)
          => Covers(s, tk, c, m, t, x)
    BY <2>1, <2>3, <1>4 DEF Covers
  <2>5. QED BY <2>1, <2>2, <2>4, <1>3 DEF c
<1>8. CASE others = kept /\ c = [b EXCEPT !.heard = kept, !.overflow = At(s, tk)]
  <2>1. DOMAIN c = BucketFields /\ c.heard = kept /\ c.byte = b.byte /\ c.overflow = At(s, tk)
    BY <1>8 DEF BucketFields
  <2>2. \A e \in c.heard : e.id # id BY <2>1, <1>6, <1>8
  <2> HIDE DEF others
  <2>3. \A m, t, x : m # id /\ t \in Nat /\ t <= tk /\ tk - t <= IdTtl /\ Covers(s, tk, b, m, t, x)
          => Covers(s, tk, c, m, t, x)
    BY <2>1, <1>4, <1>8 DEF Covers
  <2>4. QED BY <2>1, <2>2, <2>3, <1>1 DEF c
<1>9. QED BY <1>5, <1>7, <1>8

(* The instances of the modules count as this module does. *)
LEMMA SameCardinality ==
  ASSUME NEW S
  PROVE  I!Cardinality(S) = Cardinality(S)
BY DEF I!Cardinality, Cardinality

(* The bucket of a byte is the one with that byte, if there is one. *)
LEMMA BucketOfByte ==
  ASSUME NEW c, Bucketed(c), NEW byte
  PROVE  /\ \A b \in c : b.byte = byte => I!Bucket(c, byte) = b
         /\ (\A b \in c : b.byte # byte) =>
              I!Bucket(c, byte) = [byte |-> byte, heard |-> {}, overflow |-> Never]
         /\ I!Bucket(c, byte).byte = byte
         /\ DOMAIN I!Bucket(c, byte) = BucketFields /\ IsFiniteSet(I!Bucket(c, byte).heard)
<1>1. CASE \E b \in c : b.byte = byte
  <2>1. I!Bucket(c, byte) \in c /\ I!Bucket(c, byte).byte = byte BY <1>1 DEF I!Bucket
  <2>2. QED BY <1>1, <2>1 DEF Bucketed
<1>2. CASE \A b \in c : b.byte # byte
  <2>1. I!Bucket(c, byte) = [byte |-> byte, heard |-> {}, overflow |-> Never] BY <1>2 DEF I!Bucket
  <2>2. IsFiniteSet({}) BY FS_EmptySet
  <2>3. QED BY <1>2, <2>1, <2>2 DEF BucketFields
<1>3. QED BY <1>1, <1>2

LEMMA RememberStep ==
  ASSUME NEW s \in Scenes, NEW tk \in Nat, NEW c, Bucketed(c), NEW h, NEW k,
         DOMAIN h = Nodes, DOMAIN k = Nodes, Recalls(s, tk, c, h, k), NEW n \in Nodes,
         NEW d, d = I!RememberRelayIdentity(c, n, At(s, tk))
  PROVE  Bucketed(d) /\ Recalls(s, tk, d, [h EXCEPT ![n] = tk], [k EXCEPT ![n] = KeptOf(d, n)])
<1> DEFINE old == I!Bucket(c, Low(n))
           new == I!Noted(old, n, At(s, tk))
           g == [h EXCEPT ![n] = tk]
           x == KeptOf(d, n)
           f == [k EXCEPT ![n] = x]
<1>1. old.byte = Low(n) /\ DOMAIN old = BucketFields /\ IsFiniteSet(old.heard)
  BY BucketOfByte
<1>2. \/ d = c /\ (n = NoNode \/ Low(n) = 0 \/ old \notin c)
      \/ d = (c \ {old}) \cup {new}
  BY DEF I!RememberRelayIdentity
<1>3. \A m \in Nodes : g[m] = (IF m = n THEN tk ELSE h[m]) /\ f[m] = IF m = n THEN x ELSE k[m]
  OBVIOUS
<1>4. CASE d = c /\ (n = NoNode \/ Low(n) = 0 \/ old \notin c)
  <2>1. Low(n) # 0 => x = "nothing"
    <3> SUFFICES ASSUME Low(n) # 0 PROVE x = "nothing" OBVIOUS
    <3>1. old \notin c BY <1>4, Clocks
    <3>2. \A b \in c : b.byte # Low(n) BY <3>1, BucketOfByte
    <3>3. QED BY <1>4, <3>2 DEF KeptOf
  <2> HIDE DEF g, f, x
  <2>2. Recalls(s, tk, c, g, f)
    <3> SUFFICES ASSUME NEW m \in Nodes, f[m] # "nothing"
                 PROVE  /\ g[m] \in Nat /\ g[m] <= tk
                        /\ tk - g[m] <= IdTtl /\ Low(m) # 0 =>
                             \E b \in c : b.byte = Low(m) /\ Covers(s, tk, b, m, g[m], f[m])
      BY DEF Recalls
    <3>1. CASE m = n BY <3>1, <1>3, <2>1
    <3>2. CASE m # n BY <3>2, <1>3 DEF Recalls
    <3>3. QED BY <3>1, <3>2
  <2>3. QED BY <1>4, <2>2 DEF g, f, x
<1>5. CASE d = (c \ {old}) \cup {new}
  <2>1. /\ DOMAIN new = BucketFields /\ IsFiniteSet(new.heard) /\ new.byte = Low(n)
        /\ \/ [id |-> n, at |-> At(s, tk)] \in new.heard
           \/ new.overflow = At(s, tk) /\ \A e \in new.heard : e.id # n
        /\ \A m, t, y : m # n /\ t \in Nat /\ t <= tk /\ tk - t <= IdTtl /\ Covers(s, tk, old, m, t, y)
             => Covers(s, tk, new, m, t, y)
    <3> HIDE DEF old
    <3>1. QED BY <1>1, NotedFacts
  <2>2. \A b \in c : b.byte = Low(n) => b = old BY BucketOfByte
  <2> HIDE DEF old, new
  <2>3. Bucketed(d) BY <1>5, <2>1, <2>2 DEF Bucketed
  <2>4. Covers(s, tk, new, n, tk, x)
    <3>1. CASE [id |-> n, at |-> At(s, tk)] \in new.heard BY <3>1 DEF Covers
    <3>2. CASE new.overflow = At(s, tk) /\ \A e \in new.heard : e.id # n
      <4>1. {b \in d : b.byte = Low(n)} = {new} BY <1>5, <2>1, <2>2
      <4>2. x = "mark" BY <4>1, <3>2 DEF KeptOf
      <4>3. QED BY <4>2, <3>2 DEF Covers
    <3>3. QED BY <3>1, <3>2, <2>1
  <2> HIDE DEF g, f, x
  <2>5. Recalls(s, tk, d, g, f)
    <3> SUFFICES ASSUME NEW m \in Nodes, f[m] # "nothing"
                 PROVE  /\ g[m] \in Nat /\ g[m] <= tk
                        /\ tk - g[m] <= IdTtl /\ Low(m) # 0 =>
                             \E b \in d : b.byte = Low(m) /\ Covers(s, tk, b, m, g[m], f[m])
      BY DEF Recalls
    <3>1. CASE m = n BY <3>1, <1>3, <1>5, <2>1, <2>4
    <3>2. CASE m # n
      <4>1. g[m] = h[m] /\ f[m] = k[m] BY <3>2, <1>3
      <4>2. g[m] \in Nat /\ g[m] <= tk BY <4>1 DEF Recalls
      <4>3. ASSUME tk - g[m] <= IdTtl, Low(m) # 0
            PROVE  \E b \in d : b.byte = Low(m) /\ Covers(s, tk, b, m, g[m], f[m])
        <5>1. PICK b \in c : b.byte = Low(m) /\ Covers(s, tk, b, m, g[m], f[m])
          BY <4>1, <4>3 DEF Recalls
        <5>2. CASE b = old BY <5>1, <5>2, <4>2, <4>3, <3>2, <2>1, <1>1, <1>5
        <5>3. CASE b # old BY <5>1, <5>3, <1>5
        <5>4. QED BY <5>2, <5>3
      <4>4. QED BY <4>2, <4>3
    <3>3. QED BY <3>1, <3>2
  <2>6. QED BY <2>3, <2>5 DEF g, f, x
<1>6. QED BY <1>2, <1>4, <1>5

(* Pruning drops an entry only when it is too old, and a mark only with    *)
(* its bucket.                                                             *)
KeptAfter(k, c) ==
  [m \in Nodes |-> IF k[m] = "mark" /\ \A b \in c : b.byte # Low(m) THEN "nothing" ELSE k[m]]

LEMMA PruneStep ==
  ASSUME NEW s \in Scenes, NEW tk \in Nat, NEW c, Bucketed(c), NEW h, NEW k, Recalls(s, tk, c, h, k),
         NEW d, d = I!PruneRelayIdentity(c, At(s, tk))
  PROVE  Bucketed(d) /\ Recalls(s, tk, d, h, KeptAfter(k, d))
<1> DEFINE Left(b) == [b EXCEPT !.heard = I!FreshEntries(b, At(s, tk))]
           f == KeptAfter(k, d)
<1>1. /\ \A b \in d : \E a \in c : b = Left(a)
      /\ \A a \in c : I!FreshEntries(a, At(s, tk)) # {} => Left(a) \in d
  BY DEF I!PruneRelayIdentity
<1>2. \A a \in c : /\ DOMAIN Left(a) = BucketFields /\ Left(a).byte = a.byte
                   /\ Left(a).overflow = a.overflow
                   /\ Left(a).heard = I!FreshEntries(a, At(s, tk))
                   /\ IsFiniteSet(Left(a).heard)
  <2> SUFFICES ASSUME NEW a \in c
               PROVE  /\ DOMAIN Left(a) = BucketFields /\ Left(a).byte = a.byte
                      /\ Left(a).overflow = a.overflow
                      /\ Left(a).heard = I!FreshEntries(a, At(s, tk))
                      /\ IsFiniteSet(Left(a).heard)
    OBVIOUS
  <2>1. DOMAIN a = BucketFields /\ IsFiniteSet(a.heard) BY DEF Bucketed
  <2>2. IsFiniteSet(I!FreshEntries(a, At(s, tk))) BY <2>1, FS_Subset DEF I!FreshEntries
  <2>3. QED BY <2>1, <2>2 DEF BucketFields
<1> HIDE DEF Left
<1>3. Bucketed(d) BY <1>1, <1>2 DEF Bucketed
<1>4. Recalls(s, tk, d, h, f)
  <2> SUFFICES ASSUME NEW m \in Nodes, f[m] # "nothing"
               PROVE  /\ h[m] \in Nat /\ h[m] <= tk
                      /\ tk - h[m] <= IdTtl /\ Low(m) # 0 =>
                           \E b \in d : b.byte = Low(m) /\ Covers(s, tk, b, m, h[m], f[m])
    BY DEF Recalls
  <2>1. f[m] = k[m] /\ (k[m] = "mark" => \E b \in d : b.byte = Low(m)) BY DEF KeptAfter
  <2> HIDE DEF f
  <2>2. h[m] \in Nat /\ h[m] <= tk BY <2>1 DEF Recalls
  <2>3. ASSUME tk - h[m] <= IdTtl, Low(m) # 0
        PROVE  \E b \in d : b.byte = Low(m) /\ Covers(s, tk, b, m, h[m], f[m])
    <3>1. PICK a \in c : a.byte = Low(m) /\ Covers(s, tk, a, m, h[m], k[m])
      BY <2>1, <2>3 DEF Recalls
    <3>2. CASE [id |-> m, at |-> At(s, h[m])] \in a.heard
      <4>1. [id |-> m, at |-> At(s, h[m])] \in I!FreshEntries(a, At(s, tk))
        <5> DEFINE t == h[m]
        <5>1. t \in Nat /\ t <= tk /\ tk - t <= IdTtl /\ [id |-> m, at |-> At(s, t)] \in a.heard
          BY <2>2, <2>3, <3>2
        <5> HIDE DEF t
        <5>2. [id |-> m, at |-> At(s, t)] \in I!FreshEntries(a, At(s, tk)) BY <5>1, EntryFresh
        <5>3. QED BY <5>2 DEF t
      <4>2. Left(a) \in d BY <4>1, <1>1
      <4>3. QED BY <4>1, <4>2, <3>1, <1>2 DEF Covers
    <3>3. CASE k[m] = "mark" /\ \E u \in Nat : h[m] <= u /\ u <= tk /\ a.overflow = At(s, u)
      <4>1. PICK b \in d : b.byte = Low(m) BY <3>3, <2>1
      <4>2. b = Left(a) BY <4>1, <3>1, <1>1, <1>2 DEF Bucketed
      <4>3. QED BY <4>1, <4>2, <3>3, <2>1, <1>2 DEF Covers
    <3>4. QED BY <3>1, <3>2, <3>3 DEF Covers
  <2>4. QED BY <2>2, <2>3
<1>5. QED BY <1>3, <1>4

LEMMA RememberedHeard ==
  ASSUME NEW s, DOMAIN s = SeenFields, NEW c, NEW n
  PROVE  /\ DOMAIN Remembered(s, c, n) = SeenFields
         /\ Remembered(s, c, n).heard = [s.heard EXCEPT ![n] = ticks]
         /\ Remembered(s, c, n).kept = [s.kept EXCEPT ![n] = KeptOf(c, n)]
BY DEF Remembered, SeenFields

LEMMA PrunedHeard ==
  ASSUME NEW s, DOMAIN s = SeenFields, NEW c
  PROVE  /\ DOMAIN Pruned(s, c) = SeenFields
         /\ Pruned(s, c).heard = s.heard /\ Pruned(s, c).kept = KeptAfter(s.kept, c)
BY DEF Pruned, KeptAfter, SeenFields

LEMMA NothingHeardFields ==
  ASSUME NEW s, DOMAIN s = SeenFields
  PROVE  /\ DOMAIN NothingHeard(s) = SeenFields
         /\ NothingHeard(s).heard = [n \in Nodes |-> Never]
         /\ NothingHeard(s).kept = [n \in Nodes |-> "nothing"]
BY DEF NothingHeard, SeenFields

LEMMA JudgedHeard ==
  ASSUME DOMAIN seen = SeenFields, NEW lp, NEW l, NEW m, NEW drop
  PROVE  /\ DOMAIN Judged(lp, l, m, drop) = SeenFields
         /\ Judged(lp, l, m, drop).heard = seen.heard /\ Judged(lp, l, m, drop).kept = seen.kept
BY DEF Judged, SeenFields

(* A frame that came straight, handled in full. *)
LEMMA HeardIds ==
  ASSUME IdInv, NEW n \in Nodes, NEW s, DOMAIN s = SeenFields, s.heard = seen.heard, s.kept = seen.kept,
         NEW c, c = I!RememberRelayIdentity(cache, n, At(scene, ticks))
  PROVE  LET r == Remembered(s, c, n)
         IN /\ DOMAIN r = SeenFields /\ DOMAIN r.heard = Nodes /\ DOMAIN r.kept = Nodes
            /\ Bucketed(c) /\ Recalls(scene, ticks, c, r.heard, r.kept)
<1> DEFINE h == seen.heard
           k == seen.kept
           r == Remembered(s, c, n)
<1>1. /\ scene \in Scenes /\ ticks \in Nat /\ Bucketed(cache)
      /\ DOMAIN h = Nodes /\ DOMAIN k = Nodes /\ Recalls(scene, ticks, cache, h, k)
  BY DEF IdInv
<1>2. /\ DOMAIN r = SeenFields /\ r.heard = [h EXCEPT ![n] = ticks]
      /\ r.kept = [k EXCEPT ![n] = KeptOf(c, n)]
  BY RememberedHeard
<1> HIDE DEF h, k, r
<1>3. Bucketed(c) /\ Recalls(scene, ticks, c, [h EXCEPT ![n] = ticks], [k EXCEPT ![n] = KeptOf(c, n)])
  BY <1>1, RememberStep
<1>4. QED BY <1>1, <1>2, <1>3 DEF r

LEMMA TransitIds ==
  ASSUME IdInv, NEW p \in scene.packets, NEW via, Transit(p, via)
  PROVE  IdInv'
<1>1. /\ scene \in Scenes /\ ticks \in Nat /\ now = At(scene, ticks)
      /\ DOMAIN links = Nodes /\ DOMAIN seen = SeenFields
      /\ DOMAIN seen.heard = Nodes /\ DOMAIN seen.kept = Nodes
      /\ Bucketed(cache) /\ Recalls(scene, ticks, cache, seen.heard, seen.kept)
  BY DEF IdInv
<1>2. scene' = scene /\ ticks' = ticks /\ now' = now BY DEF Transit
<1>3. DOMAIN links' = Nodes BY <1>1 DEF Transit
<1> DEFINE d == DecodePayload(p)
           lp == LimiterPacket(p, via, d)
           v == L!ShouldDrop(lim, lp, now, scene.proximity)
           s == Judged(lp, lim, v.l, v.drop)
           n == p.from
           c == I!RememberRelayIdentity(cache, n, At(scene, ticks))
           r == Remembered(s, c, n)
<1>4. \/ cache' = cache /\ seen' = s
      \/ cache' = c /\ seen' = r
  BY <1>1 DEF Transit
<1> HIDE DEF lp, v
<1>5. DOMAIN s = SeenFields /\ s.heard = seen.heard /\ s.kept = seen.kept BY <1>1, JudgedHeard
<1> HIDE DEF s
<1>6. CASE cache' = cache /\ seen' = s
  BY <1>1, <1>2, <1>3, <1>5, <1>6 DEF IdInv
<1>7. CASE cache' = c /\ seen' = r
  <2>1. n \in Nodes BY <1>1, SceneNodes
  <2>2. c = I!RememberRelayIdentity(cache, n, At(scene, ticks)) OBVIOUS
  <2> HIDE DEF c, n
  <2>3. /\ DOMAIN r = SeenFields /\ DOMAIN r.heard = Nodes /\ DOMAIN r.kept = Nodes
        /\ Bucketed(c) /\ Recalls(scene, ticks, c, r.heard, r.kept)
    BY <2>1, <2>2, <1>5, HeardIds
  <2> HIDE DEF r
  <2>4. QED BY <2>3, <1>1, <1>2, <1>3, <1>7 DEF IdInv
<1>8. QED BY <1>4, <1>6, <1>7

LEMMA ForUsIds ==
  ASSUME IdInv, NEW p \in scene.packets, NEW via, ForUs(p, via)
  PROVE  IdInv'
<1>1. /\ scene \in Scenes /\ ticks \in Nat /\ now = At(scene, ticks)
      /\ DOMAIN links = Nodes /\ DOMAIN seen = SeenFields
      /\ DOMAIN seen.heard = Nodes /\ DOMAIN seen.kept = Nodes
      /\ Bucketed(cache) /\ Recalls(scene, ticks, cache, seen.heard, seen.kept)
  BY DEF IdInv
<1>2. scene' = scene /\ ticks' = ticks /\ now' = now BY DEF ForUs
<1>3. DOMAIN links' = Nodes BY <1>1 DEF ForUs
<1> DEFINE n == p.from
           c == I!RememberRelayIdentity(cache, n, At(scene, ticks))
           r == Remembered(seen, c, n)
<1>4. \/ cache' = cache /\ seen' = [seen EXCEPT !.last = None]
      \/ cache' = c /\ seen' = [r EXCEPT !.last = None]
  BY <1>1 DEF ForUs
<1>5. n \in Nodes BY <1>1, SceneNodes
<1>6. c = I!RememberRelayIdentity(cache, n, At(scene, ticks)) OBVIOUS
<1> HIDE DEF n, c
<1>7. /\ DOMAIN r = SeenFields /\ DOMAIN r.heard = Nodes /\ DOMAIN r.kept = Nodes
      /\ Bucketed(c) /\ Recalls(scene, ticks, c, r.heard, r.kept)
  BY <1>1, <1>5, <1>6, HeardIds
<1> HIDE DEF r
<1>8. CASE cache' = cache /\ seen' = [seen EXCEPT !.last = None]
  <2>1. DOMAIN seen' = SeenFields /\ seen'.heard = seen.heard /\ seen'.kept = seen.kept
    BY <1>1, <1>8 DEF SeenFields
  <2>2. QED BY <1>1, <1>2, <1>3, <1>8, <2>1 DEF IdInv
<1>9. CASE cache' = c /\ seen' = [r EXCEPT !.last = None]
  <2>1. DOMAIN seen' = SeenFields /\ seen'.heard = r.heard /\ seen'.kept = r.kept
    BY <1>7, <1>9 DEF SeenFields
  <2>2. QED BY <1>1, <1>2, <1>3, <1>7, <1>9, <2>1 DEF IdInv
<1>10. QED BY <1>4, <1>8, <1>9

LEMMA TickIds ==
  ASSUME IdInv, Tick
  PROVE  IdInv'
<1>1. /\ scene \in Scenes /\ ticks \in Nat /\ now = At(scene, ticks)
      /\ DOMAIN links = Nodes /\ DOMAIN seen = SeenFields
      /\ DOMAIN seen.heard = Nodes /\ DOMAIN seen.kept = Nodes
      /\ Bucketed(cache) /\ Recalls(scene, ticks, cache, seen.heard, seen.kept)
  BY DEF IdInv
<1>2. scene' = scene /\ ticks' = ticks + 1 /\ now' = (now + 1) % Clock /\ cache' = cache /\ links' = links
  BY DEF Tick
<1>3. now' = At(scene, ticks + 1) BY <1>1, <1>2, NextReading
<1>4. DOMAIN seen' = SeenFields /\ seen'.heard = seen.heard /\ seen'.kept = seen.kept
  BY <1>1 DEF Tick, SeenFields
<1>5. Recalls(scene, ticks + 1, cache, seen.heard, seen.kept)
  <2>1. \A b, m, t, x : Covers(scene, ticks, b, m, t, x) => Covers(scene, ticks + 1, b, m, t, x)
    BY <1>1 DEF Covers
  <2>2. QED BY <1>1, <2>1, ClockPositive DEF Recalls
<1>6. QED BY <1>1, <1>2, <1>3, <1>4, <1>5 DEF IdInv

LEMMA OtherStepsIds ==
  ASSUME IdInv,
         \/ Maintain \/ Poll \/ (\E n \in Nodes : Forget(n))
         \/ (\E preset \in BOOLEAN : RadioReconfigured(preset))
         \/ UNCHANGED vars
  PROVE  IdInv'
<1>1. /\ scene \in Scenes /\ ticks \in Nat /\ now = At(scene, ticks)
      /\ DOMAIN links = Nodes /\ DOMAIN seen = SeenFields
      /\ DOMAIN seen.heard = Nodes /\ DOMAIN seen.kept = Nodes
      /\ Bucketed(cache) /\ Recalls(scene, ticks, cache, seen.heard, seen.kept)
  BY DEF IdInv
<1>2. scene' = scene /\ ticks' = ticks /\ now' = now /\ DOMAIN links' = Nodes
  BY <1>1 DEF Maintain, Poll, Forget, RadioReconfigured, vars
<1>3. CASE cache' = cache /\ seen' = seen BY <1>1, <1>2, <1>3 DEF IdInv
<1>4. CASE Maintain
  <2> DEFINE c == I!PruneRelayIdentity(cache, At(scene, ticks))
             h == seen.heard
             k == seen.kept
             r == Pruned(seen, c)
  <2>1. cache' = c /\ seen' = r BY <1>1, <1>4 DEF Maintain
  <2>2. Recalls(scene, ticks, cache, h, k) /\ DOMAIN h = Nodes BY <1>1
  <2>3. c = I!PruneRelayIdentity(cache, At(scene, ticks)) OBVIOUS
  <2> HIDE DEF c
  <2>4. DOMAIN r = SeenFields /\ r.heard = h /\ r.kept = KeptAfter(k, c) BY <1>1, PrunedHeard
  <2> HIDE DEF r, h, k
  <2>5. Bucketed(c) /\ Recalls(scene, ticks, c, h, KeptAfter(k, c)) BY <1>1, <2>2, <2>3, PruneStep
  <2>6. DOMAIN KeptAfter(k, c) = Nodes BY DEF KeptAfter
  <2>7. QED BY <1>1, <1>2, <2>1, <2>2, <2>4, <2>5, <2>6 DEF IdInv
<1>5. CASE cache' = {} /\ seen' = NothingHeard(seen)
  <2> DEFINE r == NothingHeard(seen)
  <2>1. DOMAIN r = SeenFields /\ r.heard = [n \in Nodes |-> Never] /\ r.kept = [n \in Nodes |-> "nothing"]
    BY <1>1, NothingHeardFields
  <2> HIDE DEF r
  <2>2. Bucketed({}) /\ Recalls(scene, ticks, {}, r.heard, r.kept) BY <2>1 DEF Bucketed, Recalls
  <2>3. cache' = {} /\ seen' = r BY <1>5 DEF r
  <2>4. QED BY <1>1, <1>2, <2>1, <2>2, <2>3 DEF IdInv
<1>6. QED BY <1>3, <1>4, <1>5 DEF Poll, Forget, RadioReconfigured, vars

(* Every node heard within IdTtl that left an entry still has it, and one  *)
(* that left only a mark has an overflow mark that is no older, or its     *)
(* entry, as long as the bucket is there.  A younger mark may replace an   *)
(* older one, and pruning drops a mark only with its bucket.               *)
THEOREM IdInvariant == Spec => []IdInv
<1>1. Init => IdInv
  <2> SUFFICES ASSUME Init PROVE IdInv OBVIOUS
  <2>1. scene \in Scenes /\ ticks = 0 /\ now = scene.start /\ cache = {} BY DEF Init
  <2>2. now = At(scene, ticks)
    <3> DEFINE x == scene.start
    <3>1. x \in 0..(Clock - 1) BY <2>1, Clocks
    <3>2. x \in Int /\ x = Clock * 0 + x /\ 0 \in Int BY <3>1, ClockPositive
    <3> HIDE DEF x
    <3>3. x % Clock = x BY <3>1, <3>2, ClockPositive, ModUnique
    <3>4. x + 0 = x BY <3>2
    <3>5. QED BY <2>1, <3>3, <3>4 DEF At, x
  <2>3. /\ DOMAIN links = Nodes /\ DOMAIN seen = SeenFields
        /\ seen.heard = [n \in Nodes |-> Never] /\ seen.kept = [n \in Nodes |-> "nothing"]
    BY DEF Init, SeenFields
  <2>4. Bucketed(cache) /\ Recalls(scene, ticks, cache, seen.heard, seen.kept)
    BY <2>1, <2>3 DEF Bucketed, Recalls
  <2>5. QED BY <2>1, <2>2, <2>3, <2>4 DEF IdInv
<1>2. IdInv /\ [Next]_vars => IdInv'
  BY TransitIds, ForUsIds, TickIds, OtherStepsIds DEF Next
<1>3. QED BY <1>1, <1>2, PTL DEF Spec

(* A relay byte with no direct neighbour behind it names a node only if no *)
(* other node with that byte was heard during the lifetime of an entry     *)
(* (resolve_relay_identity), for every size of the buckets, their number   *)
(* and the clock, unless that other node left no entry: it met a full      *)
(* bucket and its overflow mark went when the bucket was pruned, or it     *)
(* found no bucket free.                                                   *)
THEOREM ByteNamesOneNode == Spec => []ByteNamesOne
<1>1. IdInv => ByteNamesOne
  <2> SUFFICES ASSUME IdInv,
                      NEW n \in Nodes, n = Resolves(Low(n), 0),
                      \A k \in Nodes : Low(k) = Low(n) => links[k] = 0,
                      NEW m \in Nodes \ {n}, Low(m) = Low(n), seen.kept[m] # "nothing",
                      ~(ticks - seen.heard[m] > IdTtl)
               PROVE  FALSE
    BY DEF ByteNamesOne
  <2> DEFINE t == seen.heard[m]
             b == I!Bucket(cache, Low(n))
             near == {k \in DOMAIN links : links[k] # 0 /\ Low(k) = Low(n)}
             heard == {e.id : e \in I!FreshEntries(b, now)}
  <2>1. /\ scene \in Scenes /\ ticks \in Nat /\ now = At(scene, ticks) /\ DOMAIN links = Nodes
        /\ Bucketed(cache) /\ Recalls(scene, ticks, cache, seen.heard, seen.kept)
    BY DEF IdInv
  <2>2. near = {} BY <2>1
  <2>3. n # NoNode BY Clocks
  <2>4. /\ Low(n) # 0
        /\ ~(b.overflow # Never /\ I!Since(now, b.overflow) <= IdTtl)
        /\ Cardinality(heard) = 1 /\ n = CHOOSE k \in heard : TRUE
    <3> DEFINE late == b.overflow # Never /\ I!Since(now, b.overflow) <= IdTtl
               best == I!PickBestDirect(links, near, 0)
    <3>1. n = IF Low(n) = 0 \/ late \/ Cardinality(near) > MaxCandidates THEN NoNode
              ELSE IF near # {} THEN best
              ELSE IF Cardinality(heard) = 1 THEN CHOOSE k \in heard : TRUE ELSE NoNode
      <4> DEFINE byte == Low(n)
                 to == I!ResolveRelayIdentity(cache, byte, links, 0, now)
      <4>1. n = to BY DEF Resolves
      <4>2. to = IF byte = 0 \/ late \/ I!Cardinality(near) > MaxCandidates THEN NoNode
                 ELSE IF near # {} THEN best
                 ELSE IF I!Cardinality(heard) = 1 THEN CHOOSE k \in heard : TRUE ELSE NoNode
        BY DEF I!ResolveRelayIdentity
      <4> HIDE DEF to, best, near, heard, late
      <4>3. QED BY <4>1, <4>2, SameCardinality
    <3> HIDE DEF late, best, near, heard
    <3>2. QED BY <2>2, <2>3, <3>1 DEF late
  <2>5. t \in Nat /\ t <= ticks BY <2>1 DEF Recalls
  <2>6. ticks - t <= IdTtl BY <2>1, <2>5, ClockPositive
  <2>7. PICK a \in cache : a.byte = Low(m) /\ Covers(scene, ticks, a, m, t, seen.kept[m])
    BY <2>1, <2>4, <2>6 DEF Recalls
  <2>8. a = b BY <2>1, <2>7, BucketOfByte
  <2> HIDE DEF t, b
  <2>9. CASE [id |-> m, at |-> At(scene, t)] \in b.heard
    <3>1. [id |-> m, at |-> At(scene, t)] \in I!FreshEntries(b, now)
      BY <2>1, <2>5, <2>6, <2>9, EntryFresh
    <3>2. m \in heard BY <3>1
    <3>3. IsFiniteSet(b.heard) BY <2>1, <2>7, <2>8 DEF Bucketed
    <3>4. IsFiniteSet(I!FreshEntries(b, now)) BY <3>3, FS_Subset DEF I!FreshEntries
    <3>5. IsFiniteSet(heard)
      <4> DEFINE S == I!FreshEntries(b, now)
                 f == [e \in S |-> e.id]
      <4>1. f \in Surjection(S, heard) BY DEF Surjection
      <4> HIDE DEF f, S, heard
      <4>2. QED BY <4>1, <3>4, FS_Surjection DEF S
    <3> HIDE DEF heard
    <3>6. PICK x : heard = {x} BY <3>5, <2>4, FS_Singleton
    <3>7. QED BY <3>2, <3>6, <2>4
  <2>10. CASE \E u \in Nat : t <= u /\ u <= ticks /\ b.overflow = At(scene, u)
    <3>1. PICK u \in Nat : t <= u /\ u <= ticks /\ b.overflow = At(scene, u) BY <2>10
    <3>2. b.overflow # Never BY <2>1, <3>1, AtFacts
    <3>3. ticks - u <= IdTtl BY <2>1, <2>5, <2>6, <3>1, ClockPositive
    <3>4. I!Since(now, b.overflow) = ticks - u BY <2>1, <3>1, <3>3, ClockPositive, AgeOf
    <3>5. QED BY <2>4, <3>2, <3>3, <3>4
  <2>11. QED BY <2>7, <2>8, <2>9, <2>10 DEF Covers
<1>2. QED BY <1>1, IdInvariant, PTL
=============================================================================
