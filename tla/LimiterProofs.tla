---------------------------- MODULE LimiterProofs ----------------------------
(***************************************************************************)
(* Proofs about the rate limiter on the receive path, for every size of    *)
(* its tables and every budget: the check repeated before a frame goes on  *)
(* the air agrees with admission, relay planning leaves out exactly the    *)
(* nodes whose packets are dropped for being young, a ban lasts for a      *)
(* whole window, and minted identities share one budget.                   *)
(***************************************************************************)
EXTENDS InboundProofs, WellFoundedInduction

IsSeq(s) == \E S : s \in Seq(S)

BucketShape == {"start", "n", "limited", "clear"}
IsBucket(b) == DOMAIN b = BucketShape /\ b.start \in Int

(* A table: entries with the fields f, at most one for each node. *)
Table(s, f) ==
  /\ IsSeq(s)
  /\ \A i \in DOMAIN s : DOMAIN s[i] = f /\ s[i].id \in Nodes
  /\ \A i, j \in DOMAIN s : s[i].id = s[j].id => i = j

OrigFields == {"id", "seen", "b"}
RelayFields == {"id", "b"}
DestFields == {"id", "b", "senders"}
YoungFields == {"id", "first"}
LimFields == {"orig", "relays", "dests", "young", "alumni", "unresolved", "newcomers", "boot", "announced"}

OrigBuckets(e) == e.seen \in Int /\ DOMAIN e.b = L!BucketKinds /\ \A k \in L!BucketKinds : IsBucket(e.b[k])
OrigOK(s) == Table(s, OrigFields) /\ \A i \in DOMAIN s : OrigBuckets(s[i])
RelaysOK(s) == Table(s, RelayFields) /\ \A i \in DOMAIN s : IsBucket(s[i].b)
DestsOK(s) == Table(s, DestFields) /\ \A i \in DOMAIN s : IsBucket(s[i].b)
YoungOK(s, a) == Table(s, YoungFields) /\ \A i \in DOMAIN s : s[i].id \notin a

LimOK(l) ==
  /\ DOMAIN l = LimFields
  /\ OrigOK(l.orig) /\ RelaysOK(l.relays) /\ DestsOK(l.dests) /\ YoungOK(l.young, l.alumni)
  /\ IsBucket(l.unresolved) /\ IsBucket(l.newcomers)

-----------------------------------------------------------------------------
(* Sequences and tables. *)

LEMMA SeqFacts ==
  ASSUME NEW s, IsSeq(s)
  PROVE  Len(s) \in Nat /\ DOMAIN s = 1..Len(s) /\ 0 \notin DOMAIN s
BY DEF IsSeq

LEMMA SeqAppend ==
  ASSUME NEW s, IsSeq(s), NEW e
  PROVE  /\ IsSeq(Append(s, e))
         /\ DOMAIN Append(s, e) = 1..(Len(s) + 1)
         /\ \A i \in 1..Len(s) : Append(s, e)[i] = s[i]
         /\ Append(s, e)[Len(s) + 1] = e
<1>1. PICK S : s \in Seq(S) BY DEF IsSeq
<1> DEFINE R == S \cup {e}
<1>2. s \in Seq(R) BY <1>1, SeqMonotone
<1>3. e \in R OBVIOUS
<1> HIDE DEF R
<1>4. /\ Append(s, e) \in Seq(R) /\ Len(Append(s, e)) = Len(s) + 1
      /\ \A i \in 1..Len(s) : Append(s, e)[i] = s[i]
      /\ Append(s, e)[Len(s) + 1] = e
  BY <1>2, <1>3, AppendProperties
<1>5. QED BY <1>4 DEF IsSeq

LEMMA SeqUpdate ==
  ASSUME NEW s, IsSeq(s), NEW v, NEW e
  PROVE  /\ IsSeq([s EXCEPT ![v] = e])
         /\ DOMAIN [s EXCEPT ![v] = e] = DOMAIN s
         /\ \A i \in DOMAIN s : [s EXCEPT ![v] = e][i] = IF i = v THEN e ELSE s[i]
<1>1. PICK S : s \in Seq(S) BY DEF IsSeq
<1> DEFINE R == S \cup {e}
           t == [s EXCEPT ![v] = e]
<1>2. Len(s) \in Nat /\ s \in [1..Len(s) -> S] BY <1>1, LenProperties
<1>3. t \in [1..Len(s) -> R] BY <1>2
<1>4. t \in Seq(R) BY <1>2, <1>3, SeqDef
<1>5. QED BY <1>2, <1>4 DEF IsSeq

(* Find returns the slot of an id. *)
LEMMA FindFacts ==
  ASSUME NEW s, NEW f, Table(s, f), NEW id
  PROVE  /\ L!Find(s, id) # 0 => L!Find(s, id) \in DOMAIN s /\ s[L!Find(s, id)].id = id
         /\ \A i \in DOMAIN s : s[i].id = id => L!Find(s, id) = i
         /\ L!Find(s, id) = 0 => \A i \in DOMAIN s : s[i].id # id
<1>1. 0 \notin DOMAIN s BY SeqFacts DEF Table
<1>2. CASE \E i \in DOMAIN s : s[i].id = id
  <2>1. L!Find(s, id) \in DOMAIN s /\ s[L!Find(s, id)].id = id BY <1>2 DEF L!Find
  <2>2. QED BY <1>1, <2>1 DEF Table
<1>3. CASE ~\E i \in DOMAIN s : s[i].id = id
  BY <1>3 DEF L!Find
<1>4. QED BY <1>2, <1>3

(* A new entry takes a free slot or replaces another one. *)
LEMMA PlacedFacts ==
  ASSUME NEW s, NEW f, Table(s, f), NEW id \in Nodes, L!Find(s, id) = 0, NEW max, NEW entry,
         DOMAIN entry = f, entry.id = id, NEW entries, NEW proximity, NEW t,
         t = L!Placed(s, max, entry, entries, proximity)
  PROVE  /\ Table(t, f)
         /\ \A i \in DOMAIN t : t[i] = entry \/ (i \in DOMAIN s /\ t[i] = s[i])
<1>1. IsSeq(s) /\ \A i \in DOMAIN s : s[i].id # id BY FindFacts DEF Table
<1>2. Len(s) \in Nat /\ DOMAIN s = 1..Len(s) BY <1>1, SeqFacts
<1> DEFINE v == L!EvictionCandidate(entries, proximity)
<1>3. t = Append(s, entry) \/ t = s \/ t = [s EXCEPT ![v] = entry] BY DEF L!Placed
<1> HIDE DEF v
<1>4. CASE t = Append(s, entry)
  <2>1. /\ IsSeq(t) /\ DOMAIN t = 1..(Len(s) + 1)
        /\ \A i \in 1..Len(s) : t[i] = s[i]
        /\ t[Len(s) + 1] = entry
    BY <1>1, <1>4, SeqAppend
  <2>2. \A i \in DOMAIN t : (i \in DOMAIN s /\ t[i] = s[i]) \/ (i = Len(s) + 1 /\ t[i] = entry)
    BY <1>2, <2>1
  <2>3. QED BY <1>1, <2>1, <2>2 DEF Table
<1>5. CASE t = s BY <1>5
<1>6. CASE t = [s EXCEPT ![v] = entry]
  <2>1. IsSeq(t) /\ DOMAIN t = DOMAIN s /\ \A i \in DOMAIN s : t[i] = IF i = v THEN entry ELSE s[i]
    <3>1. \A x : /\ IsSeq([s EXCEPT ![x] = entry]) /\ DOMAIN [s EXCEPT ![x] = entry] = DOMAIN s
                /\ \A i \in DOMAIN s : [s EXCEPT ![x] = entry][i] = IF i = x THEN entry ELSE s[i]
      BY <1>1, SeqUpdate
    <3>2. QED BY <1>6, <3>1
  <2>2. QED BY <1>1, <2>1 DEF Table
<1>7. QED BY <1>3, <1>4, <1>5, <1>6

(* A change of one entry that keeps its id. *)
LEMMA UpdateFacts ==
  ASSUME NEW s, NEW f, Table(s, f), NEW i \in DOMAIN s, NEW t, t = [j \in DOMAIN s |-> t[j]],
         \A j \in DOMAIN s : j # i => t[j] = s[j], DOMAIN t[i] = f, t[i].id = s[i].id
  PROVE  /\ Table(t, f) /\ DOMAIN t = DOMAIN s
         /\ \A id : L!Find(t, id) = L!Find(s, id)
<1>1. IsSeq(t) /\ DOMAIN t = DOMAIN s
  <2> DEFINE R == {t[j] : j \in DOMAIN s}
  <2>1. Len(s) \in Nat /\ DOMAIN s = 1..Len(s) BY SeqFacts DEF Table
  <2>2. t \in [1..Len(s) -> R] BY <2>1
  <2>3. t \in Seq(R) BY <2>1, <2>2, SeqDef
  <2>4. QED BY <2>1, <2>2, <2>3 DEF IsSeq
<1>2. \A j \in DOMAIN s : t[j].id = s[j].id /\ DOMAIN t[j] = f BY <1>1 DEF Table
<1>3. Table(t, f) BY <1>1, <1>2 DEF Table
<1>4. \A id : L!Find(t, id) = L!Find(s, id)
  <2> TAKE id
  <2>1. CASE \E j \in DOMAIN s : s[j].id = id
    <3>1. PICK j \in DOMAIN s : s[j].id = id BY <2>1
    <3>2. L!Find(s, id) = j BY <3>1, FindFacts
    <3>3. j \in DOMAIN t /\ t[j].id = id BY <1>1, <1>2, <3>1
    <3>4. L!Find(t, id) = j BY <1>3, <3>3, FindFacts
    <3>5. QED BY <3>2, <3>4
  <2>2. CASE ~\E j \in DOMAIN s : s[j].id = id
    BY <1>1, <1>2, <2>2 DEF L!Find
  <2>3. QED BY <2>1, <2>2
<1>5. QED BY <1>1, <1>3, <1>4

-----------------------------------------------------------------------------
(* Buckets.  After a roll the window of a bucket contains the present, so  *)
(* that it is limited exactly when its flag says so.                       *)

Current(b, t) == IsBucket(b) /\ L!Windows(b, t) = 0

LEMMA WindowPositive == Clock \in Nat /\ Clock > 0 /\ Window \in Nat /\ Window > 0
BY Clocks, ClockPositive

LEMMA CurrentLimited ==
  ASSUME NEW b, NEW t, Current(b, t), NEW clear
  PROVE  L!LimitedAt(b, t, clear) <=> b.limited
BY DEF Current, L!LimitedAt

LEMMA FreshCurrent ==
  ASSUME NEW t \in Int
  PROVE  Current(L!Fresh(t), t)
<1>1. t - t = 0 /\ 0 \in Int /\ 0 = Clock * 0 + 0 /\ 0 \in 0..(Clock - 1) BY WindowPositive
<1>2. 0 % Clock = 0 BY <1>1, WindowPositive, ModUnique
<1>3. 0 \div Window = 0 BY WindowPositive
<1> DEFINE b == L!Fresh(t)
<1>4. b.start = t /\ DOMAIN b = BucketShape BY DEF L!Fresh, BucketShape
<1> HIDE DEF b
<1>5. L!Windows(b, t) = 0 BY <1>1, <1>2, <1>3, <1>4 DEF L!Windows, L!Elapsed
<1>6. QED BY <1>4, <1>5 DEF Current, IsBucket, b

(* Moving the start of a window by whole windows leaves less than one. *)
LEMMA RolledStart ==
  ASSUME NEW t \in Int, NEW a \in Int, NEW w, w = ((t - a) % Clock) \div Window
  PROVE  /\ (a + w * Window) % Clock \in Int
         /\ ((t - ((a + w * Window) % Clock)) % Clock) \div Window = 0
<1> DEFINE d == t - a
           e == d % Clock
           q == d \div Clock
           x == w * Window
           r == e % Window
           y == a + x
           m == y % Clock
           p == y \div Clock
<1>1. d \in Int OBVIOUS
<1> HIDE DEF d
<1>2. e \in 0..(Clock - 1) /\ q \in Int /\ d = Clock * q + e BY <1>1, WindowPositive, ModFacts
<1>3. w = e \div Window BY DEF d
<1> HIDE DEF e, q
<1>4. r \in 0..(Window - 1) /\ w \in Int /\ e = Window * w + r BY <1>2, <1>3, WindowPositive, ModFacts
<1> HIDE DEF r
<1>5. w >= 0 BY <1>2, <1>3, WindowPositive
<1>6. x \in Int /\ x >= 0 /\ e = x + r BY <1>4, <1>5, WindowPositive
<1> HIDE DEF x
<1>7. y \in Int BY <1>6
<1> HIDE DEF y
<1>8. m \in 0..(Clock - 1) /\ p \in Int /\ y = Clock * p + m BY <1>7, WindowPositive, ModFacts
<1> HIDE DEF m, p
<1>9. r \in 0..(Clock - 1) BY <1>2, <1>4, <1>6, WindowPositive
<1>10. t - m \in Int /\ q + p \in Int /\ t - m = Clock * (q + p) + r
  <2>1. t = a + Clock * q + x + r BY <1>2, <1>4, <1>6, WindowPositive DEF d
  <2>2. m = a + x - Clock * p BY <1>6, <1>8, WindowPositive DEF y
  <2>3. Clock * (q + p) = Clock * q + Clock * p BY <1>2, <1>8, WindowPositive
  <2>4. Clock * q \in Int /\ Clock * p \in Int BY <1>2, <1>8, WindowPositive
  <2> DEFINE cq == Clock * q
             cp == Clock * p
  <2> HIDE DEF cq, cp
  <2>5. QED BY <2>1, <2>2, <2>3, <2>4, <1>2, <1>4, <1>6, <1>8 DEF cq, cp
<1>11. (t - m) % Clock = r
  <2> DEFINE u == t - m
             z == q + p
  <2>1. u \in Int /\ z \in Int /\ u = Clock * z + r BY <1>10
  <2> HIDE DEF u, z
  <2>2. u % Clock = r BY <2>1, <1>9, WindowPositive, ModUnique
  <2>3. QED BY <2>2 DEF u
<1>12. r \div Window = 0 BY <1>4, WindowPositive
<1>13. QED BY <1>8, <1>11, <1>12 DEF m, y, x

LEMMA RollCurrent ==
  ASSUME NEW b, IsBucket(b), NEW t \in Int, NEW clear
  PROVE  Current(L!Roll(b, t, clear), t)
<1> DEFINE w == L!Windows(b, t)
           c == L!Roll(b, t, clear)
<1>1. CASE w = 0 BY <1>1 DEF L!Roll, Current
<1>2. CASE w # 0
  <2>1. b.start \in Int /\ DOMAIN b = BucketShape BY DEF IsBucket
  <2>2. w = ((t - b.start) % Clock) \div Window BY DEF L!Windows, L!Elapsed
  <2>3. DOMAIN c = BucketShape /\ c.start = (b.start + w * Window) % Clock
    BY <1>2, <2>1 DEF L!Roll, BucketShape
  <2> DEFINE a == b.start
  <2>4. a \in Int /\ w = ((t - a) % Clock) \div Window BY <2>1, <2>2
  <2> HIDE DEF w, c, a
  <2>5. /\ (a + w * Window) % Clock \in Int
        /\ ((t - ((a + w * Window) % Clock)) % Clock) \div Window = 0
    BY <2>4, RolledStart
  <2>6. c.start \in Int /\ L!Windows(c, t) = 0 BY <2>3, <2>5 DEF L!Windows, L!Elapsed, a
  <2>7. QED BY <2>3, <2>6 DEF Current, IsBucket, c
<1>3. QED BY <1>1, <1>2

LEMMA CountCurrent ==
  ASSUME NEW b, NEW t, Current(b, t), NEW n
  PROVE  Current([b EXCEPT !.n = n], t)
<1> DEFINE c == [b EXCEPT !.n = n]
<1>1. DOMAIN c = BucketShape /\ c.start = b.start BY DEF Current, IsBucket, BucketShape
<1> HIDE DEF c
<1>2. QED BY <1>1 DEF Current, IsBucket, L!Windows, c

LEMMA TripCurrent ==
  ASSUME NEW b, NEW t \in Int, Current(b, t), NEW trip
  PROVE  Current(L!TripOf(b, trip, t), t)
<1> DEFINE c == [b EXCEPT !.limited = TRUE, !.start = t]
           f == L!Fresh(t)
<1>1. DOMAIN c = BucketShape /\ c.start = t BY DEF Current, IsBucket, BucketShape
<1>2. L!Windows(f, t) = 0 /\ f.start = t
  <2>1. Current(f, t) BY FreshCurrent
  <2>2. QED BY <2>1 DEF Current, L!Fresh
<1>3. L!TripOf(b, trip, t) \in {b, c} BY DEF L!TripOf
<1> HIDE DEF c, f
<1>4. Current(c, t) BY <1>1, <1>2 DEF Current, IsBucket, L!Windows
<1>5. QED BY <1>3, <1>4

LEMMA ChargedCurrent ==
  ASSUME NEW b, IsBucket(b), NEW t \in Int, NEW trip, NEW clear, NEW charge
  PROVE  /\ Current(L!CheckAndUpdate(b, trip, clear, charge, t), t)
         /\ Current(L!Counted(b, clear, charge, t), t)
<1> DEFINE a == [b EXCEPT !.clear = clear]
           r == L!Roll(a, t, clear)
           n == r.n + charge
           c == [r EXCEPT !.n = n]
           e == [r EXCEPT !.n = @ + charge]
<1>1. IsBucket(a) BY DEF IsBucket, BucketShape
<1> HIDE DEF a
<1>2. Current(r, t) BY <1>1, RollCurrent
<1>3. L!CheckAndUpdate(b, trip, clear, charge, t) = L!TripOf(e, trip, t) BY DEF L!CheckAndUpdate, L!Counted, a
<1> HIDE DEF r
<1>4. e = c BY <1>2 DEF Current, IsBucket, BucketShape
<1> HIDE DEF n
<1>5. Current(c, t) BY <1>2, CountCurrent
<1>6. Current(e, t) BY <1>4, <1>5
<1> HIDE DEF e
<1>7. Current(L!TripOf(e, trip, t), t) BY <1>6, TripCurrent
<1>8. QED BY <1>3, <1>6, <1>7 DEF e, r, a, L!Counted

-----------------------------------------------------------------------------
(* The tables keep their shape when a node gets a slot. *)

LEMMA WithDestOK ==
  ASSUME NEW s, DestsOK(s), NEW id \in Nodes, NEW t \in Int, NEW proximity
  PROVE  DestsOK(L!WithDest(s, id, t, proximity))
<1> DEFINE entry == [id |-> id, b |-> L!Fresh(t), senders |-> {}]
           entries == [i \in DOMAIN s |-> [id |-> s[i].id, limited |-> L!LimitedAt(s[i].b, t, DestClear),
                                           age |-> L!Elapsed(t, s[i].b.start)]]
           u == L!Placed(s, MaxDests, entry, entries, proximity)
<1>1. CASE L!Find(s, id) # 0 BY <1>1 DEF L!WithDest
<1>2. CASE L!Find(s, id) = 0
  <2>1. L!WithDest(s, id, t, proximity) = u BY <1>2 DEF L!WithDest
  <2>2. DOMAIN entry = DestFields /\ entry.id = id /\ IsBucket(entry.b)
    BY FreshCurrent DEF Current, DestFields
  <2> HIDE DEF entry, entries
  <2>3. /\ Table(u, DestFields)
        /\ \A i \in DOMAIN u : u[i] = entry \/ (i \in DOMAIN s /\ u[i] = s[i])
    BY <1>2, <2>2, PlacedFacts DEF DestsOK
  <2> HIDE DEF u
  <2>4. DestsOK(u) BY <2>2, <2>3 DEF DestsOK
  <2>5. QED BY <2>1, <2>4
<1>3. QED BY <1>1, <1>2

LEMMA WithRelayOK ==
  ASSUME NEW s, RelaysOK(s), NEW id \in Nodes, NEW t \in Int, NEW proximity
  PROVE  RelaysOK(L!WithRelay(s, id, t, proximity))
<1> DEFINE entry == [id |-> id, b |-> L!Fresh(t)]
           entries == [i \in DOMAIN s |-> [id |-> s[i].id, limited |-> L!LimitedAt(s[i].b, t, RelayClearFloor),
                                           age |-> L!Elapsed(t, s[i].b.start)]]
           u == L!Placed(s, MaxRelays, entry, entries, proximity)
<1>1. CASE L!Find(s, id) # 0 BY <1>1 DEF L!WithRelay
<1>2. CASE L!Find(s, id) = 0
  <2>1. L!WithRelay(s, id, t, proximity) = u BY <1>2 DEF L!WithRelay
  <2>2. DOMAIN entry = RelayFields /\ entry.id = id /\ IsBucket(entry.b)
    BY FreshCurrent DEF Current, RelayFields
  <2> HIDE DEF entry, entries
  <2>3. /\ Table(u, RelayFields)
        /\ \A i \in DOMAIN u : u[i] = entry \/ (i \in DOMAIN s /\ u[i] = s[i])
    BY <1>2, <2>2, PlacedFacts DEF RelaysOK
  <2> HIDE DEF u
  <2>4. RelaysOK(u) BY <2>2, <2>3 DEF RelaysOK
  <2>5. QED BY <2>1, <2>4
<1>3. QED BY <1>1, <1>2

(* The entry of another node stays as it was or is gone. *)
LEMMA WithOriginatorOK ==
  ASSUME NEW s, OrigOK(s), NEW id \in Nodes, NEW t \in Int, NEW proximity, NEW u,
         u = L!WithOriginator(s, id, t, proximity)
  PROVE  /\ OrigOK(u)
         /\ \A i \in DOMAIN u : \/ /\ u[i].id = id
                                   /\ \/ i \in DOMAIN s /\ u[i].b = s[i].b /\ s[i].id = id
                                      \/ \A k \in L!BucketKinds : ~u[i].b[k].limited
                                \/ i \in DOMAIN s /\ u[i] = s[i]
<1> DEFINE entry == [id |-> id, seen |-> t, b |-> [k \in L!BucketKinds |-> L!Fresh(t)]]
           entries == [i \in DOMAIN s |-> [id |-> s[i].id, limited |-> L!OriginatorLimited(s[i], t),
                                           age |-> L!Elapsed(t, s[i].seen)]]
<1>1. CASE L!Find(s, id) # 0
  <2> DEFINE at == L!Find(s, id)
             e == [s[at] EXCEPT !.seen = t]
  <2>1. at \in DOMAIN s /\ s[at].id = id BY <1>1, FindFacts DEF OrigOK
  <2>2. u = [s EXCEPT ![at].seen = t] BY <1>1 DEF L!WithOriginator
  <2> HIDE DEF at
  <2>3. u = [s EXCEPT ![at] = e] BY <2>2
  <2>4. DOMAIN s[at] = OrigFields /\ OrigBuckets(s[at]) BY <2>1 DEF OrigOK, Table
  <2>5. DOMAIN e = OrigFields /\ e.id = s[at].id /\ e.b = s[at].b /\ e.seen = t BY <2>4 DEF OrigFields
  <2> HIDE DEF e
  <2>6. /\ Table(u, OrigFields) /\ DOMAIN u = DOMAIN s /\ u[at] = e
        /\ \A j \in DOMAIN s : j # at => u[j] = s[j]
    <3>1. Table(s, OrigFields) BY DEF OrigOK
    <3>2. at \in DOMAIN s /\ DOMAIN e = OrigFields /\ e.id = s[at].id BY <2>1, <2>5
    <3>3. /\ u = [j \in DOMAIN s |-> u[j]] /\ u[at] = e
          /\ \A j \in DOMAIN s : j # at => u[j] = s[j]
      BY <3>2, <2>3
    <3>4. QED BY <3>1, <3>2, <3>3, UpdateFacts
  <2>7. OrigBuckets(e) BY <2>4, <2>5 DEF OrigBuckets
  <2>8. OrigOK(u) BY <2>6, <2>7 DEF OrigOK
  <2>9. QED BY <2>1, <2>5, <2>6, <2>8
<1>2. CASE L!Find(s, id) = 0
  <2>1. u = L!Placed(s, MaxOriginators, entry, entries, proximity) BY <1>2 DEF L!WithOriginator
  <2>2. DOMAIN entry = OrigFields /\ entry.id = id /\ OrigBuckets(entry)
    BY FreshCurrent DEF Current, OrigFields, OrigBuckets
  <2>6. \A k \in L!BucketKinds : ~entry.b[k].limited BY DEF L!Fresh
  <2> HIDE DEF entry, entries
  <2>3. /\ Table(u, OrigFields)
        /\ \A i \in DOMAIN u : u[i] = entry \/ (i \in DOMAIN s /\ u[i] = s[i])
    BY <1>2, <2>1, <2>2, PlacedFacts DEF OrigOK
  <2>4. OrigOK(u) BY <2>2, <2>3 DEF OrigOK
  <2>5. QED BY <2>2, <2>3, <2>4, <2>6
<1>3. QED BY <1>1, <1>2

-----------------------------------------------------------------------------
(* The destination. *)

LEMMA DestAfterFacts ==
  ASSUME NEW e, DOMAIN e = DestFields, IsBucket(e.b), NEW p, NEW t \in Int, NEW f,
         f = L!DestAfter(e, p, t)
  PROVE  DOMAIN f = DestFields /\ f.id = e.id /\ Current(f.b, t)
<1> DEFINE charge == IF L!ChargesDest(p) THEN 1 ELSE 0
           a == L!CheckAndUpdate(e.b, DestTrip, DestClear, charge, t)
           c == L!Counted(e.b, DestClear, charge, t)
<1>1. DOMAIN f = DestFields /\ f.id = e.id /\ f.b \in {a, c}
  <2> DEFINE kept == IF L!Elapsed(t, e.b.start) >= Window THEN {} ELSE e.senders
             noted == IF L!ChargesDest(p) /\ (p.from \in kept \/ L!Cardinality(kept) < MaxSenders)
                      THEN kept \cup {p.from} ELSE kept
             trips == e.b.limited \/ L!Cardinality(noted) >= DestMinSenders
  <2>1. f = [e EXCEPT !.senders = noted,
                      !.b = IF trips THEN L!CheckAndUpdate(@, DestTrip, DestClear, charge, t)
                            ELSE L!Counted(@, DestClear, charge, t)]
    BY DEF L!DestAfter
  <2> HIDE DEF kept, noted, trips, charge
  <2>2. DOMAIN f = DestFields /\ f.id = e.id BY <2>1 DEF DestFields
  <2>3. trips => f.b = a BY <2>1 DEF DestFields
  <2>4. ~trips => f.b = c BY <2>1 DEF DestFields
  <2>5. QED BY <2>2, <2>3, <2>4
<1> DEFINE b == e.b
           trip == DestTrip
           clear == DestClear
<1>2. IsBucket(b) OBVIOUS
<1> HIDE DEF b, trip, clear, charge
<1>3. /\ Current(L!CheckAndUpdate(b, trip, clear, charge, t), t)
      /\ Current(L!Counted(b, clear, charge, t), t)
  BY <1>2, ChargedCurrent
<1>4. Current(a, t) /\ Current(c, t) BY <1>3 DEF b, trip, clear
<1> HIDE DEF a, c
<1>5. QED BY <1>1, <1>4

LEMMA DestStep ==
  ASSUME NEW l, LimOK(l), NEW p, NEW t \in Int, NEW proximity, NEW m,
         L!IsUnicast(p) => p.to \in Nodes,
         m = L!ChargeDest(l, p, t, proximity)
  PROVE  /\ LimOK(m)
         /\ L!DestFlagged(m, p) => L!ToLimitedDest(m, p, t)
<1> DEFINE s == IF L!ChargesDest(p) THEN L!WithDest(l.dests, p.to, t, proximity) ELSE l.dests
           i == L!Find(s, p.to)
           e == L!DestAfter(s[i], p, t)
<1>1. DestsOK(s)
  <2> DEFINE id == p.to
             d == l.dests
  <2>1. DestsOK(d) BY DEF LimOK
  <2>4. L!ChargesDest(p) => id \in Nodes BY DEF L!ChargesDest
  <2> HIDE DEF id, d
  <2>2. L!ChargesDest(p) => DestsOK(L!WithDest(d, id, t, proximity)) BY <2>1, <2>4, WithDestOK
  <2>3. QED BY <2>1, <2>2 DEF id, d
<1>2. m = IF ~L!IsUnicast(p) \/ ~p.public THEN l
          ELSE IF i = 0 THEN [l EXCEPT !.dests = s] 
          ELSE [l EXCEPT !.dests = [s EXCEPT ![i] = L!DestAfter(@, p, t)]]
  BY DEF L!ChargeDest
<1>3. i # 0 => i \in DOMAIN s /\ s[i].id = p.to
  <2> DEFINE id == p.to
  <2> HIDE DEF id, s
  <2>1. L!Find(s, id) # 0 => L!Find(s, id) \in DOMAIN s /\ s[L!Find(s, id)].id = id
    BY <1>1, FindFacts DEF DestsOK
  <2>2. QED BY <2>1 DEF id
<1> HIDE DEF s
<1>4. \A d : DestsOK(d) => LimOK([l EXCEPT !.dests = d]) /\ [l EXCEPT !.dests = d].dests = d
  <2> SUFFICES ASSUME NEW d, DestsOK(d)
               PROVE  LimOK([l EXCEPT !.dests = d]) /\ [l EXCEPT !.dests = d].dests = d
    OBVIOUS
  <2> DEFINE n == [l EXCEPT !.dests = d]
  <2>1. /\ DOMAIN n = LimFields /\ n.dests = d /\ n.orig = l.orig /\ n.relays = l.relays
        /\ n.young = l.young /\ n.alumni = l.alumni /\ n.unresolved = l.unresolved
        /\ n.newcomers = l.newcomers
    BY DEF LimOK, LimFields
  <2> HIDE DEF n
  <2>2. LimOK(n) BY <2>1 DEF LimOK
  <2>3. QED BY <2>1, <2>2 DEF n
<1>5. CASE ~L!IsUnicast(p) \/ ~p.public
  BY <1>2, <1>5 DEF L!DestFlagged
<1>6. CASE L!IsUnicast(p) /\ p.public /\ i = 0
  <2>1. m = [l EXCEPT !.dests = s] BY <1>2, <1>6
  <2>2. LimOK(m) /\ m.dests = s BY <1>1, <1>4, <2>1
  <2>3. QED BY <1>6, <2>2 DEF L!DestFlagged
<1>7. CASE L!IsUnicast(p) /\ p.public /\ i # 0
  <2> DEFINE d == [s EXCEPT ![i] = e]
  <2>1. i \in DOMAIN s BY <1>3, <1>7
  <2>2. m = [l EXCEPT !.dests = d] BY <1>2, <1>7, <2>1
  <2>3. DOMAIN e = DestFields /\ e.id = s[i].id /\ Current(e.b, t)
    <3> DEFINE o == s[i]
    <3>1. DOMAIN o = DestFields /\ IsBucket(o.b) BY <1>1, <2>1 DEF DestsOK, Table
    <3> HIDE DEF o, i
    <3>2. DOMAIN L!DestAfter(o, p, t) = DestFields /\ L!DestAfter(o, p, t).id = o.id /\ Current(L!DestAfter(o, p, t).b, t)
      BY <3>1, DestAfterFacts
    <3>3. QED BY <3>2 DEF o
  <2> HIDE DEF e
  <2>4. /\ Table(d, DestFields) /\ DOMAIN d = DOMAIN s /\ d[i] = e
        /\ \A j \in DOMAIN s : j # i => d[j] = s[j]
        /\ \A id : L!Find(d, id) = L!Find(s, id)
    <3> HIDE DEF i
    <3>1. Table(s, DestFields) BY <1>1 DEF DestsOK
    <3>2. d = [j \in DOMAIN s |-> d[j]] /\ d[i] = e /\ \A j \in DOMAIN s : j # i => d[j] = s[j]
      BY <2>1
    <3> HIDE DEF d
    <3>3. QED BY <3>1, <3>2, <2>1, <2>3, UpdateFacts
  <2>5. L!Find(d, p.to) = i BY <2>4
  <2> HIDE DEF d, i
  <2>6. IsBucket(e.b) BY <2>3 DEF Current
  <2>7. DestsOK(d) BY <1>1, <2>4, <2>6 DEF DestsOK
  <2>8. LimOK(m) /\ m.dests = d BY <1>4, <2>2, <2>7
  <2>9. L!DestFlagged(m, p) => L!LimitedAt(e.b, t, DestClear)
    BY <2>3, <2>4, <2>5, <2>8, CurrentLimited DEF L!DestFlagged
  <2>10. QED BY <1>7, <2>4, <2>5, <2>8, <2>9 DEF L!ToLimitedDest, L!DestFlagged
<1>8. QED BY <1>5, <1>6, <1>7

-----------------------------------------------------------------------------
(* The young and the alumni. *)

(* Every nonempty set of naturals has a least element. *)
LEMMA LeastNat ==
  ASSUME NEW S, S \subseteq Nat, S # {}
  PROVE  \E x \in S : \A y \in S : x <= y
<1> DEFINE R == {ss \in Nat \X Nat : ss[1] < ss[2]}
<1>1. IsWellFoundedOn(R, Nat) BY NatLessThanWellFounded DEF OpToRel
<1>2. \A x, y \in Nat : <<y, x>> \in R <=> y < x OBVIOUS
<1> HIDE DEF R
<1>3. PICK x \in S : \A y \in S : ~(<<y, x>> \in R) BY <1>1, WFMin
<1>4. ASSUME NEW y \in S PROVE x <= y
  <2>1. ~(<<y, x>> \in R) /\ x \in Nat /\ y \in Nat BY <1>3
  <2>2. ~(y < x) BY <1>2, <2>1
  <2>3. QED BY <2>1, <2>2
<1>5. QED BY <1>4

(* remove_young_at moves the last entry into the gap. *)
SwappedOut(s, i) == SubSeq([s EXCEPT ![i] = s[Len(s)]], 1, Len(s) - 1)

LEMMA SwapRemove ==
  ASSUME NEW s, NEW f, Table(s, f), NEW i \in DOMAIN s, NEW t, t = SwappedOut(s, i)
  PROVE  /\ Table(t, f)
         /\ \A j \in DOMAIN t : \E k \in DOMAIN s : k # i /\ t[j] = s[k]
<1> DEFINE n == Len(s)
           e == s[n]
           u == [s EXCEPT ![i] = e]
           S == {u[j] : j \in 1..n}
<1>1. IsSeq(s) /\ n \in Nat /\ DOMAIN s = 1..n BY SeqFacts DEF Table
<1>2. n >= 1 /\ n \in DOMAIN s BY <1>1
<1> HIDE DEF n
<1>3. \A j \in 1..n : u[j] = IF j = i THEN e ELSE s[j] BY <1>1
<1>4. t = SubSeq(u, 1, n - 1) BY DEF n, SwappedOut
<1>5. 1 \in Int /\ n - 1 \in Int /\ \A j \in 1..(n - 1) : u[j] \in S BY <1>1
<1> HIDE DEF u, S
<1> DEFINE m == n - 1
<1>6. /\ SubSeq(u, 1, m) \in Seq(S)
      /\ Len(SubSeq(u, 1, m)) = IF 1 <= m THEN m - 1 + 1 ELSE 0
      /\ \A j \in 1..(m - 1 + 1) : SubSeq(u, 1, m)[j] = u[1 + j - 1]
  <2> HIDE DEF m
  <2>1. \A j \in 1..m : u[j] \in S BY <1>5 DEF m
  <2>2. m \in Int BY <1>5 DEF m
  <2>3. QED BY <2>1, <2>2, SubSeqProperties
<1>7. t \in Seq(S) /\ Len(t) = n - 1 BY <1>1, <1>2, <1>4, <1>6
<1>8. DOMAIN t = 1..(n - 1) BY <1>7
<1>9. \A j \in 1..(n - 1) : t[j] = u[j]
  <2> TAKE j \in 1..(n - 1)
  <2>1. j \in 1..(m - 1 + 1) /\ 1 + j - 1 = j BY <1>1
  <2>2. QED BY <1>4, <1>6, <2>1
<1>10. \A j \in DOMAIN t : \E k \in DOMAIN s : /\ k # i /\ t[j] = s[k]
                                             /\ k = IF j = i THEN n ELSE j
  <2> TAKE j \in DOMAIN t
  <2>1. CASE j = i
    <3>1. t[j] = s[n] /\ n # i BY <1>1, <1>3, <1>8, <1>9, <2>1
    <3>2. QED BY <2>1, <3>1, <1>2
  <2>2. CASE j # i
    <3>1. t[j] = s[j] /\ j \in DOMAIN s BY <1>1, <1>3, <1>8, <1>9, <2>2
    <3>2. QED BY <2>2, <3>1
  <2>3. QED BY <2>1, <2>2
<1>11. \A j \in DOMAIN t : DOMAIN t[j] = f BY <1>10 DEF Table
<1>12. \A j, k \in DOMAIN t : t[j].id = t[k].id => j = k
  <2> SUFFICES ASSUME NEW j \in DOMAIN t, NEW k \in DOMAIN t, t[j].id = t[k].id PROVE j = k
    OBVIOUS
  <2>1. PICK a \in DOMAIN s : t[j] = s[a] /\ a = IF j = i THEN n ELSE j BY <1>10
  <2>2. PICK b \in DOMAIN s : t[k] = s[b] /\ b = IF k = i THEN n ELSE k BY <1>10
  <2>3. a = b BY <2>1, <2>2 DEF Table
  <2>4. j # n /\ k # n BY <1>1, <1>8
  <2>5. QED BY <2>1, <2>2, <2>3, <2>4
<1>13. IsSeq(t) BY <1>7 DEF IsSeq
<1>14. QED BY <1>10, <1>11, <1>12, <1>13 DEF Table

(* A step of the young table and the alumni alone. *)
SameBudgets(l, m) ==
  /\ DOMAIN m = LimFields /\ m.orig = l.orig /\ m.relays = l.relays /\ m.dests = l.dests
  /\ m.unresolved = l.unresolved /\ m.newcomers = l.newcomers /\ m.boot = l.boot

LEMMA AlumniFacts ==
  ASSUME NEW l, LimOK(l), NEW id, NEW m, m = L!AddAlumni(l, id)
  PROVE  SameBudgets(l, m) /\ m.young = l.young /\ m.alumni \in {l.alumni, l.alumni \cup {id}}
<1>1. DOMAIN l = LimFields BY DEF LimOK
<1>2. m = l \/ m = [l EXCEPT !.alumni = l.alumni \cup {id}] BY DEF L!AddAlumni
<1>3. QED BY <1>1, <1>2 DEF SameBudgets, LimFields

(* The entry at i goes, and its id may be among the alumni. *)
LEMMA RemovedFacts ==
  ASSUME NEW l, LimOK(l), NEW i \in DOMAIN l.young, NEW a, a = L!AddAlumni(l, l.young[i].id),
         NEW m, m = L!RemoveYoungAt(a, i)
  PROVE  /\ SameBudgets(l, m) /\ YoungOK(m.young, m.alumni)
         /\ m.alumni \in {l.alumni, l.alumni \cup {l.young[i].id}}
         /\ \A j \in DOMAIN m.young : \E k \in DOMAIN l.young : m.young[j] = l.young[k]
<1> DEFINE s == l.young
           id == l.young[i].id
           t == SwappedOut(s, i)
<1>1. YoungOK(s, l.alumni) BY DEF LimOK
<1>2. SameBudgets(l, a) /\ a.young = s /\ a.alumni \in {l.alumni, l.alumni \cup {id}}
  <2> HIDE DEF id
  <2>1. a = L!AddAlumni(l, id) BY DEF id
  <2>2. QED BY <2>1, AlumniFacts
<1>3. m = [a EXCEPT !.young = t] BY <1>2 DEF L!RemoveYoungAt, SwappedOut
<1>4. m.young = t /\ m.alumni = a.alumni /\ SameBudgets(l, m)
  <2> HIDE DEF t
  <2>1. QED BY <1>2, <1>3 DEF SameBudgets, LimFields
<1>5. Table(s, YoungFields) /\ i \in DOMAIN s BY <1>1 DEF YoungOK
<1> HIDE DEF s
<1>6. Table(t, YoungFields) /\ \A j \in DOMAIN t : \E k \in DOMAIN s : k # i /\ t[j] = s[k]
  BY <1>5, SwapRemove
<1> HIDE DEF t
<1>7. \A j \in DOMAIN t : t[j].id \notin l.alumni \cup {id}
  <2> SUFFICES ASSUME NEW j \in DOMAIN t PROVE t[j].id \notin l.alumni \cup {id} OBVIOUS
  <2>1. PICK k \in DOMAIN s : k # i /\ t[j] = s[k] BY <1>6
  <2>2. s[k].id # s[i].id BY <1>5, <2>1 DEF Table
  <2>3. QED BY <1>1, <2>1, <2>2 DEF YoungOK, s
<1>8. YoungOK(t, m.alumni) BY <1>2, <1>4, <1>6, <1>7 DEF YoungOK
<1>9. QED BY <1>2, <1>4, <1>6, <1>8 DEF s

LEMMA SameBudgetsOK ==
  ASSUME NEW l, LimOK(l), NEW m, SameBudgets(l, m), YoungOK(m.young, m.alumni)
  PROVE  LimOK(m)
BY DEF LimOK, SameBudgets

LEMMA YoungStep ==
  ASSUME NEW l, LimOK(l), NEW id \in Nodes, NEW t, NEW m, m = L!NoteOriginator(l, id, t)
  PROVE  LimOK(m) /\ SameBudgets(l, m)
<1> DEFINE e == L!ExpireIfOld(l, id, t)
<1>1. LimOK(e) /\ SameBudgets(l, e)
  <2> DEFINE i == L!Find(l.young, id)
             a == L!AddAlumni(l, id)
             r == L!RemoveYoungAt(a, i)
  <2>1. e = l \/ (i # 0 /\ e = r) BY DEF L!ExpireIfOld
  <2>2. CASE e = l BY <2>2 DEF SameBudgets, LimOK
  <2>3. CASE i # 0 /\ e = r
    <3> DEFINE s == l.young
    <3>1. Table(s, YoungFields) BY DEF LimOK, YoungOK
    <3> HIDE DEF s
    <3>2. L!Find(s, id) # 0 => L!Find(s, id) \in DOMAIN s /\ s[L!Find(s, id)].id = id
      BY <3>1, FindFacts
    <3>3. i \in DOMAIN l.young /\ l.young[i].id = id BY <2>3, <3>2 DEF s
    <3> HIDE DEF i
    <3>4. a = L!AddAlumni(l, l.young[i].id) BY <3>3
    <3> HIDE DEF a
    <3>5. SameBudgets(l, r) /\ YoungOK(r.young, r.alumni) BY <3>3, <3>4, RemovedFacts
    <3> HIDE DEF r
    <3>6. LimOK(r) BY <3>5, SameBudgetsOK
    <3>7. QED BY <2>3, <3>5, <3>6
  <2>4. QED BY <2>1, <2>2, <2>3
<1>2. m = L!Arrive(e, id, t) BY DEF L!NoteOriginator
<1> HIDE DEF e
<1>3. LimOK(m) /\ SameBudgets(e, m)
  <2> DEFINE aged == {i \in DOMAIN e.young : ~L!YoungActive(e.young[i], t)}
             first == CHOOSE i \in aged : \A j \in aged : i <= j
             a == L!AddAlumni(e, id)
             x == L!AddAlumni(e, e.young[first].id)
             r == L!RemoveYoungAt(x, first)
             y == e.young
  <2>1. \/ m = e
        \/ /\ L!Find(y, id) = 0 /\ id \notin e.alumni
           /\ \/ m = a
              \/ m = L!InsertYoung(e, id, t)
              \/ aged # {} /\ m = L!InsertYoung(r, id, t)
    BY <1>2 DEF L!Arrive
  <2>2. CASE m = e BY <1>1, <2>2 DEF SameBudgets, LimOK
  <2>3. Table(y, YoungFields) /\ \A i \in DOMAIN y : y[i].id \notin e.alumni BY <1>1 DEF LimOK, YoungOK
  <2> SUFFICES ASSUME L!Find(y, id) = 0, id \notin e.alumni,
                      m # e => m = a \/ m = L!InsertYoung(e, id, t) \/ (aged # {} /\ m = L!InsertYoung(r, id, t)),
                      m # e
               PROVE  LimOK(m) /\ SameBudgets(e, m)
    BY <2>1, <2>2
  <2>4. \A i \in DOMAIN y : y[i].id # id
    <3> HIDE DEF y
    <3>1. QED BY <2>3, FindFacts
  <2>5. CASE m = a
    <3>1. SameBudgets(e, m) /\ m.young = y /\ m.alumni \in {e.alumni, e.alumni \cup {id}}
      BY <1>1, <2>5, AlumniFacts
    <3>2. YoungOK(m.young, m.alumni) BY <2>3, <2>4, <3>1 DEF YoungOK
    <3>3. QED BY <1>1, <3>1, <3>2, SameBudgetsOK
  <2>6. ASSUME NEW g, SameBudgets(e, g), YoungOK(g.young, g.alumni), id \notin g.alumni,
               \A j \in DOMAIN g.young : g.young[j].id # id,
               m = L!InsertYoung(g, id, t)
        PROVE  LimOK(m) /\ SameBudgets(e, m)
    <3> DEFINE z == g.young
               entry == [id |-> id, first |-> t]
               u == Append(z, entry)
    <3>1. m = [g EXCEPT !.young = u] BY <2>6 DEF L!InsertYoung
    <3>2. DOMAIN entry = YoungFields /\ entry.id = id BY DEF YoungFields
    <3>3. Table(z, YoungFields) /\ \A j \in DOMAIN z : z[j].id # id /\ z[j].id \notin g.alumni
      BY <2>6 DEF YoungOK
    <3> HIDE DEF u
    <3>4. m.young = u /\ m.alumni = g.alumni /\ SameBudgets(e, m)
      BY <2>6, <3>1 DEF SameBudgets, LimFields
    <3> HIDE DEF z, entry
    <3>5. IsSeq(z) /\ Len(z) \in Nat /\ DOMAIN z = 1..Len(z) BY <3>3, SeqFacts DEF Table
    <3>6. /\ IsSeq(u) /\ DOMAIN u = 1..(Len(z) + 1)
          /\ \A j \in 1..Len(z) : u[j] = z[j]
          /\ u[Len(z) + 1] = entry
      BY <3>5, SeqAppend DEF u
    <3>7. \A j \in DOMAIN u : (j \in DOMAIN z /\ u[j] = z[j]) \/ (j = Len(z) + 1 /\ u[j] = entry)
      BY <3>5, <3>6
    <3>8. Table(u, YoungFields) BY <3>2, <3>3, <3>6, <3>7 DEF Table
    <3>9. \A j \in DOMAIN u : u[j].id \notin g.alumni BY <2>6, <3>2, <3>3, <3>7
    <3>10. YoungOK(m.young, m.alumni) BY <3>4, <3>8, <3>9 DEF YoungOK
    <3>11. QED BY <1>1, <3>4, <3>10, SameBudgetsOK
  <2>7. CASE m = L!InsertYoung(e, id, t)
    <3>1. SameBudgets(e, e) /\ YoungOK(e.young, e.alumni) BY <1>1 DEF SameBudgets, LimOK
    <3>2. QED BY <2>4, <2>6, <2>7, <3>1
  <2>8. CASE aged # {} /\ m = L!InsertYoung(r, id, t)
    <3>1. DOMAIN y \subseteq Nat
      <4> HIDE DEF y
      <4>1. QED BY <2>3, SeqFacts DEF Table
    <3>2. aged \subseteq Nat /\ aged # {} BY <2>8, <3>1
    <3>3. first \in aged
      <4> HIDE DEF aged
      <4>1. \E i \in aged : \A j \in aged : i <= j BY <3>2, LeastNat
      <4>2. QED BY <4>1
    <3>4. first \in DOMAIN e.young BY <3>3
    <3> HIDE DEF first, aged, x
    <3>5. /\ SameBudgets(e, r) /\ YoungOK(r.young, r.alumni)
          /\ r.alumni \in {e.alumni, e.alumni \cup {e.young[first].id}}
          /\ \A j \in DOMAIN r.young : \E k \in DOMAIN e.young : r.young[j] = e.young[k]
      BY <1>1, <3>4, RemovedFacts DEF x
    <3> HIDE DEF r
    <3>6. id \notin r.alumni /\ \A j \in DOMAIN r.young : r.young[j].id # id BY <2>4, <3>4, <3>5
    <3>7. QED BY <2>6, <2>8, <3>5, <3>6
  <2>9. QED BY <2>5, <2>7, <2>8
<1>4. QED BY <1>1, <1>3 DEF SameBudgets

-----------------------------------------------------------------------------
(* The originator. *)

LEMMA KindOfPort ==
  ASSUME NEW port
  PROVE  L!BucketOf(port) \in L!BucketKinds
BY Zenon DEF L!BucketOf, L!BucketKinds

(* What the check of the queue asks about the originator. *)
OriginatorRefused(l, p, t) ==
  /\ L!Find(l.orig, p.from) # 0
  /\ L!LimitedAt(l.orig[L!Find(l.orig, p.from)].b[L!BucketOf(p.port)], t,
                 L!OriginatorClear(L!BucketOf(p.port)))

SameButOrig(l, m) ==
  /\ DOMAIN m = LimFields /\ m.relays = l.relays /\ m.dests = l.dests
  /\ m.young = l.young /\ m.alumni = l.alumni
  /\ m.unresolved = l.unresolved /\ m.newcomers = l.newcomers /\ m.boot = l.boot

ChargedAt(s, i, k, trip, clear, t) ==
  [s EXCEPT ![i].b[k] = L!CheckAndUpdate(@, trip, clear, 1, t)]

(* The charge makes the bucket of this kind current, and may limit nothing *)
(* else: a packet from a node to itself is the case to look at.            *)
LEMMA ChargedTable ==
  ASSUME NEW s, OrigOK(s), NEW from, NEW k \in L!BucketKinds, NEW trip, NEW clear, NEW t \in Int,
         NEW i \in DOMAIN s, s[i].id = from, NEW d, d = ChargedAt(s, i, k, trip, clear, t)
  PROVE  /\ OrigOK(d) /\ DOMAIN d = DOMAIN s
         /\ \A j \in DOMAIN s : d[j].id = s[j].id
         /\ \A j \in DOMAIN s : j # i => d[j] = s[j]
         /\ Current(d[i].b[k], t)
         /\ \A q \in L!BucketKinds : q # k => d[i].b[q] = s[i].b[q]
<1> DEFINE o == s[i]
           c == L!CheckAndUpdate(o.b[k], trip, clear, 1, t)
           e == [o EXCEPT !.b[k] = c]
           bb == o.b
<1>1. DOMAIN o = OrigFields /\ o.seen \in Int /\ DOMAIN bb = L!BucketKinds /\ \A q \in L!BucketKinds : IsBucket(bb[q])
  BY DEF OrigOK, Table, OrigBuckets
<1>2. d = [s EXCEPT ![i] = e] BY DEF ChargedAt
<1>3. Current(c, t)
  <2> DEFINE x == bb[k]
             one == 1
  <2>1. IsBucket(x) BY <1>1
  <2> HIDE DEF x, one
  <2>2. Current(L!CheckAndUpdate(x, trip, clear, one, t), t) BY <2>1, ChargedCurrent
  <2>3. QED BY <2>2 DEF x, one
<1> HIDE DEF c, o
<1>4. /\ DOMAIN e = OrigFields /\ e.id = o.id /\ e.seen = o.seen /\ e.b = [bb EXCEPT ![k] = c]
  BY <1>1 DEF OrigFields
<1> HIDE DEF e, bb
<1>5. DOMAIN e.b = L!BucketKinds /\ e.b[k] = c /\ \A q \in L!BucketKinds : q # k => e.b[q] = bb[q]
  BY <1>1, <1>4
<1>6. OrigBuckets(e) BY <1>1, <1>3, <1>4, <1>5 DEF OrigBuckets, Current
<1>7. /\ Table(d, OrigFields) /\ DOMAIN d = DOMAIN s /\ d[i] = e
      /\ \A j \in DOMAIN s : j # i => d[j] = s[j]
  <2>1. Table(s, OrigFields) BY DEF OrigOK
  <2>2. d = [j \in DOMAIN s |-> d[j]] /\ d[i] = e /\ \A j \in DOMAIN s : j # i => d[j] = s[j]
    BY <1>2
  <2>3. DOMAIN d[i] = OrigFields /\ d[i].id = s[i].id BY <1>4, <2>2 DEF o
  <2>4. \A f, u : /\ Table(s, f) /\ u = [j \in DOMAIN s |-> u[j]]
                  /\ \A j \in DOMAIN s : j # i => u[j] = s[j]
                  /\ DOMAIN u[i] = f /\ u[i].id = s[i].id
                  => Table(u, f) /\ DOMAIN u = DOMAIN s
    BY UpdateFacts
  <2>5. Table(d, OrigFields) /\ DOMAIN d = DOMAIN s BY <2>1, <2>2, <2>3, <2>4
  <2>6. QED BY <2>2, <2>5
<1>8. OrigOK(d) BY <1>6, <1>7 DEF OrigOK
<1>9. \A j \in DOMAIN s : d[j].id = s[j].id BY <1>4, <1>7 DEF o
<1>10. QED BY <1>3, <1>5, <1>7, <1>8, <1>9 DEF bb, o

LEMMA OriginatorStep ==
  ASSUME NEW l, LimOK(l), NEW p, NEW t \in Int, NEW proximity, NEW m,
         p.from \in Nodes,
         m = L!ChargeOriginator(l, p, t, proximity)
  PROVE  /\ LimOK(m) /\ SameButOrig(l, m)
         /\ L!OriginatorDrops(m, p) <=> OriginatorRefused(m, p, t)
         /\ L!ToLimitedDest(m, p, t) => L!ToLimitedDest(l, p, t) \/ OriginatorRefused(m, p, t)
<1> DEFINE id == p.from
           o == l.orig
           s == L!WithOriginator(o, id, t, proximity)
           i == L!Find(s, id)
           k == L!BucketOf(p.port)
           trip == Trip[k]
           clear == L!OriginatorClear(k)
           d == IF i = 0 THEN s ELSE ChargedAt(s, i, k, trip, clear, t)
<1>1. OrigOK(o) /\ DOMAIN l = LimFields /\ id \in Nodes BY DEF LimOK
<1>2. m = [l EXCEPT !.orig = d] BY DEF L!ChargeOriginator, ChargedAt
<1>3. k \in L!BucketKinds BY KindOfPort
<1> HIDE DEF o, id, k, s
<1>4. /\ OrigOK(s)
      /\ \A j \in DOMAIN s : \/ /\ s[j].id = id
                                /\ \/ j \in DOMAIN o /\ s[j].b = o[j].b /\ o[j].id = id
                                   \/ \A q \in L!BucketKinds : ~s[j].b[q].limited
                             \/ j \in DOMAIN o /\ s[j] = o[j]
  BY <1>1, WithOriginatorOK DEF s
<1>5. i # 0 => i \in DOMAIN s /\ s[i].id = id BY <1>4, FindFacts DEF OrigOK
<1> HIDE DEF i, trip, clear
<1>6. /\ OrigOK(d) /\ DOMAIN d = DOMAIN s
      /\ \A j \in DOMAIN s : d[j].id = s[j].id
      /\ \A j \in DOMAIN s : j # i => d[j] = s[j]
      /\ i # 0 => /\ Current(d[i].b[k], t)
                  /\ \A q \in L!BucketKinds : q # k => d[i].b[q] = s[i].b[q]
  <2>1. CASE i = 0 BY <1>4, <2>1
  <2>2. CASE i # 0
    <3>1. d = ChargedAt(s, i, k, trip, clear, t) BY <2>2
    <3> HIDE DEF d
    <3>2. QED BY <1>3, <1>4, <1>5, <2>2, <3>1, ChargedTable
  <2>3. QED BY <2>1, <2>2
<1> HIDE DEF d
<1>7. SameButOrig(l, m) /\ m.orig = d BY <1>1, <1>2 DEF SameButOrig, LimFields
<1>8. LimOK(m) BY <1>6, <1>7 DEF LimOK, SameButOrig
<1>9. L!Find(d, id) = i
  <2>1. CASE i # 0
    <3>1. i \in DOMAIN d /\ d[i].id = id BY <1>5, <1>6, <2>1
    <3>2. QED BY <1>6, <3>1, FindFacts DEF OrigOK
  <2>2. CASE i = 0
    <3>1. \A j \in DOMAIN s : s[j].id # id BY <1>4, <2>2, FindFacts DEF OrigOK, i
    <3>2. QED BY <1>6, <2>2, <3>1 DEF L!Find
  <2>3. QED BY <2>1, <2>2
<1>10. OriginatorRefused(m, p, t) <=> i # 0 /\ L!LimitedAt(d[i].b[k], t, clear)
  BY <1>7, <1>9 DEF OriginatorRefused, id, k, clear
<1>11. L!OriginatorDrops(m, p) <=> i # 0 /\ d[i].b[k].limited
  BY <1>7, <1>9 DEF L!OriginatorDrops, id, k
<1>12. i # 0 => (L!LimitedAt(d[i].b[k], t, clear) <=> d[i].b[k].limited)
  <2> DEFINE b == d[i].b[k]
  <2>1. i # 0 => Current(b, t) BY <1>6
  <2> HIDE DEF b
  <2>2. i # 0 => (L!LimitedAt(b, t, clear) <=> b.limited) BY <2>1, CurrentLimited
  <2>3. QED BY <2>2 DEF b
<1>13. L!ToLimitedDest(m, p, t) => L!ToLimitedDest(l, p, t) \/ OriginatorRefused(m, p, t)
  <2> DEFINE to == p.to
             at == L!Find(d, to)
  <2> SUFFICES ASSUME L!ToLimitedDest(m, p, t), ~OriginatorRefused(m, p, t)
               PROVE  L!ToLimitedDest(l, p, t)
    OBVIOUS
  <2>1. m.dests = l.dests /\ p.public /\ L!IsUnicast(p) BY <1>7 DEF SameButOrig, L!ToLimitedDest
  <2>2. CASE L!Find(l.dests, to) # 0 /\ L!LimitedAt(l.dests[L!Find(l.dests, to)].b, t, DestClear)
    BY <2>1, <2>2 DEF L!ToLimitedDest
  <2>3. CASE at # 0 /\ L!OriginatorLimited(d[at], t)
    <3> HIDE DEF to, at
    <3>1. at \in DOMAIN d /\ d[at].id = to BY <1>6, <2>3, FindFacts DEF OrigOK, at
    <3>2. PICK q \in L!BucketKinds : L!LimitedAt(d[at].b[q], t, L!OriginatorClear(q))
      BY <2>3 DEF L!OriginatorLimited
    <3>3. at \in DOMAIN o /\ o[at].id = to /\ d[at].b[q] = o[at].b[q]
      <4>1. CASE at = i
        <5>1. i # 0 BY <2>3, <4>1
        <5>2. q # k BY <1>10, <3>2, <4>1, <5>1 DEF clear
        <5>3. d[at].b[q] = s[at].b[q] BY <1>6, <4>1, <5>1, <5>2
        <5>4. s[at].b[q].limited BY <3>2, <5>3 DEF L!LimitedAt
        <5>5. at \in DOMAIN s /\ s[at].id = to BY <1>6, <3>1
        <5>6. at \in DOMAIN o /\ s[at].b = o[at].b /\ o[at].id = to BY <1>4, <5>4, <5>5
        <5>7. QED BY <5>3, <5>6
      <4>2. CASE at # i
        <5>1. at \in DOMAIN s /\ d[at] = s[at] BY <1>6, <3>1, <4>2
        <5>2. s[at].id # id
          <6>1. SUFFICES ASSUME s[at].id = id PROVE FALSE OBVIOUS
          <6>2. L!Find(s, id) = at BY <1>4, <5>1, <6>1, FindFacts DEF OrigOK
          <6>3. QED BY <4>2, <6>2 DEF i
        <5>3. at \in DOMAIN o /\ s[at] = o[at] BY <1>4, <5>1, <5>2
        <5>4. QED BY <3>1, <5>1, <5>3
      <4>3. QED BY <4>1, <4>2
    <3>4. L!Find(o, to) = at BY <1>1, <3>3, FindFacts DEF OrigOK
    <3>5. L!OriginatorLimited(o[at], t) BY <3>2, <3>3 DEF L!OriginatorLimited
    <3>6. QED BY <2>1, <2>3, <3>4, <3>5 DEF L!ToLimitedDest, to, o
  <2>4. QED BY <1>7, <2>1, <2>2, <2>3 DEF L!ToLimitedDest
<1>14. QED BY <1>7, <1>8, <1>10, <1>11, <1>12, <1>13

-----------------------------------------------------------------------------
(* The shared budget of the young. *)

YoungRefused(l, p, t) ==
  /\ L!BucketOf(p.port) # "unknown" /\ L!WarmedUp(l, t) /\ L!IsYoung(l, p.from, t)
  /\ L!LimitedAt(l.newcomers, t, YoungClear)

SameButNewcomers(l, m) ==
  /\ DOMAIN m = LimFields /\ m.orig = l.orig /\ m.relays = l.relays /\ m.dests = l.dests
  /\ m.young = l.young /\ m.alumni = l.alumni /\ m.unresolved = l.unresolved /\ m.boot = l.boot

LEMMA SharedStep ==
  ASSUME NEW l, LimOK(l), NEW p, NEW t \in Int, NEW m, m = L!ChargeYoung(l, p, t)
  PROVE  /\ LimOK(m) /\ SameButNewcomers(l, m)
         /\ L!YoungDrops(m, p, t) <=> YoungRefused(m, p, t)
<1> DEFINE n == l.newcomers
           clear == YoungClear
           trip == YoungTrip
           one == 1
           b == L!CheckAndUpdate(n, trip, clear, one, t)
           c == [l EXCEPT !.newcomers = b]
           u == p.util
<1>1. DOMAIN l = LimFields /\ IsBucket(n) BY DEF LimOK
<1>2. CASE ~L!ChargesYoung(l, p, t)
  <2>1. m = l BY <1>2 DEF L!ChargeYoung
  <2>2. QED BY <1>1, <1>2, <2>1 DEF SameButNewcomers, L!YoungDrops, YoungRefused, L!ChargesYoung
<1>3. CASE L!ChargesYoung(l, p, t)
  <2>1. m = c \/ m = L!MaybeAnnounce(c, u, t) BY <1>3 DEF L!ChargeYoung
  <2>2. Current(b, t)
    <3> HIDE DEF n, clear, trip, one
    <3>1. QED BY <1>1, ChargedCurrent
  <2> HIDE DEF b, u
  <2>3. DOMAIN c = LimFields /\ c.newcomers = b /\ SameButNewcomers(l, c)
    BY <1>1 DEF SameButNewcomers, LimFields
  <2> HIDE DEF c
  <2>4. m = c \/ m = [c EXCEPT !.announced = t] BY <2>1 DEF L!MaybeAnnounce
  <2>5. SameButNewcomers(l, m) /\ m.newcomers = b BY <2>3, <2>4 DEF SameButNewcomers, LimFields
  <2>6. LimOK(m) BY <2>2, <2>5 DEF LimOK, SameButNewcomers, Current
  <2>7. L!LimitedAt(b, t, YoungClear) <=> b.limited
    <3> HIDE DEF clear
    <3>1. L!LimitedAt(b, t, clear) <=> b.limited BY <2>2, CurrentLimited
    <3>2. QED BY <3>1 DEF clear
  <2>8. QED BY <2>5, <2>6, <2>7 DEF L!YoungDrops, YoungRefused, L!ChargesYoung
<1>4. QED BY <1>2, <1>3

-----------------------------------------------------------------------------
(* The last hop. *)

RelayRefused(l, p, t) ==
  IF L!ResolvedRelay(p)
  THEN /\ L!Find(l.relays, p.relay) # 0
       /\ L!LimitedAt(l.relays[L!Find(l.relays, p.relay)].b, t, RelayClearFloor)
  ELSE p.linked /\ L!LimitedAt(l.unresolved, t, RelayClearFloor)

SameButRelays(l, m) ==
  /\ DOMAIN m = LimFields /\ m.orig = l.orig /\ m.dests = l.dests
  /\ m.young = l.young /\ m.alumni = l.alumni /\ m.newcomers = l.newcomers /\ m.boot = l.boot

RelayChargedAt(s, i, trip, clear, air, t) ==
  [s EXCEPT ![i].b = L!CheckAndUpdate(@, trip, clear, air, t)]

LEMMA RelayTable ==
  ASSUME NEW s, RelaysOK(s), NEW trip, NEW clear, NEW air, NEW t \in Int, NEW i \in DOMAIN s, NEW d,
         d = RelayChargedAt(s, i, trip, clear, air, t)
  PROVE  /\ RelaysOK(d) /\ i \in DOMAIN d /\ d[i].id = s[i].id /\ Current(d[i].b, t)
         /\ \A id : L!Find(d, id) = L!Find(s, id)
<1> DEFINE o == s[i]
           b == o.b
           c == L!CheckAndUpdate(b, trip, clear, air, t)
           e == [o EXCEPT !.b = c]
<1>1. DOMAIN o = RelayFields /\ IsBucket(b) BY DEF RelaysOK, Table
<1>2. d = [s EXCEPT ![i] = e] BY DEF RelayChargedAt
<1> HIDE DEF b
<1>3. Current(c, t) BY <1>1, ChargedCurrent
<1> HIDE DEF c, o
<1>4. DOMAIN e = RelayFields /\ e.id = o.id /\ e.b = c BY <1>1 DEF RelayFields
<1> HIDE DEF e
<1>5. Table(s, RelayFields) BY DEF RelaysOK
<1>6. d = [j \in DOMAIN s |-> d[j]] /\ d[i] = e /\ \A j \in DOMAIN s : j # i => d[j] = s[j]
  BY <1>2
<1>7. DOMAIN d[i] = RelayFields /\ d[i].id = s[i].id BY <1>4, <1>6 DEF o
<1>8. \A f, u : /\ Table(s, f) /\ u = [j \in DOMAIN s |-> u[j]]
                /\ \A j \in DOMAIN s : j # i => u[j] = s[j]
                /\ DOMAIN u[i] = f /\ u[i].id = s[i].id
                => Table(u, f) /\ DOMAIN u = DOMAIN s /\ \A id : L!Find(u, id) = L!Find(s, id)
  BY UpdateFacts
<1>9. Table(d, RelayFields) /\ DOMAIN d = DOMAIN s /\ \A id : L!Find(d, id) = L!Find(s, id)
  BY <1>5, <1>6, <1>7, <1>8
<1>10. \A j \in DOMAIN d : IsBucket(d[j].b) BY <1>3, <1>4, <1>6, <1>9 DEF RelaysOK, Current
<1>11. QED BY <1>3, <1>4, <1>6, <1>7, <1>9, <1>10 DEF RelaysOK

LEMMA RelayStep ==
  ASSUME NEW l, LimOK(l), NEW p, NEW t \in Int, NEW proximity, NEW m,
         L!ResolvedRelay(p) => p.relay \in Nodes,
         m = L!ChargeRelay(l, p, t, proximity)
  PROVE  /\ LimOK(m) /\ SameButRelays(l, m)
         /\ L!RelayDrops(m, p) <=> RelayRefused(m, p, t)
<1> DEFINE air == IF p.air = 0 THEN RefAirtime ELSE p.air
           trip == L!RelayTrip(air, p.util)
           clear == L!RelayClear(trip)
           u == IF l.unresolved.start = 0 /\ l.unresolved.n = 0 /\ ~l.unresolved.limited
                THEN [l.unresolved EXCEPT !.start = t] ELSE l.unresolved
           c == L!CheckAndUpdate(u, trip, clear, air, t)
           r == l.relays
           id == p.relay
           s == L!WithRelay(r, id, t, proximity)
           i == L!Find(s, id)
           d == RelayChargedAt(s, i, trip, clear, air, t)
<1>1. DOMAIN l = LimFields /\ RelaysOK(r) /\ IsBucket(l.unresolved) BY DEF LimOK
<1>2. IsBucket(u) BY <1>1 DEF IsBucket, BucketShape
<1>3. \A x, y, z : z = [l EXCEPT !.unresolved = x, !.relays = y] =>
        SameButRelays(l, z) /\ z.unresolved = x /\ z.relays = y
  BY <1>1 DEF SameButRelays, LimFields
<1>4. \A z : SameButRelays(l, z) /\ IsBucket(z.unresolved) /\ RelaysOK(z.relays) => LimOK(z)
  BY DEF LimOK, SameButRelays
<1>5. \A b : Current(b, t) => (L!LimitedAt(b, t, RelayClearFloor) <=> b.limited)
  <2> DEFINE floor == RelayClearFloor
  <2> HIDE DEF floor
  <2>1. \A b : Current(b, t) => (L!LimitedAt(b, t, floor) <=> b.limited) BY CurrentLimited
  <2>2. QED BY <2>1 DEF floor
<1>6. CASE L!ResolvedRelay(p)
  <2> DEFINE y == IF i = 0 THEN s ELSE d
  <2>1. m = [l EXCEPT !.unresolved = u, !.relays = y]
    BY <1>6 DEF L!ChargeRelay, RelayChargedAt
  <2>11. id \in Nodes BY <1>6
  <2> HIDE DEF u, trip, clear, air, r, id
  <2>2. RelaysOK(s) BY <1>1, <2>11, WithRelayOK
  <2> HIDE DEF s
  <2>3. i # 0 => i \in DOMAIN s BY <2>2, FindFacts DEF RelaysOK
  <2> HIDE DEF d
  <2>4. /\ i # 0 => RelaysOK(d) /\ Current(d[i].b, t) /\ L!Find(d, id) = i
    <3>1. i # 0 => RelaysOK(d) /\ Current(d[i].b, t) /\ \A x : L!Find(d, x) = L!Find(s, x)
      <4> HIDE DEF i
      <4>1. QED BY <2>2, <2>3, RelayTable DEF d
    <3>2. QED BY <3>1
  <2> HIDE DEF i
  <2>5. RelaysOK(y) /\ L!Find(y, id) = i /\ (i # 0 => Current(y[i].b, t))
    <3>1. CASE i = 0 BY <2>2, <3>1 DEF i
    <3>2. CASE i # 0 BY <2>4, <3>2
    <3>3. QED BY <3>1, <3>2
  <2> HIDE DEF y
  <2>6. SameButRelays(l, m) /\ m.unresolved = u /\ m.relays = y BY <1>3, <2>1
  <2>7. LimOK(m) BY <1>2, <1>4, <2>5, <2>6
  <2>8. L!RelayDrops(m, p) <=> i # 0 /\ y[i].b.limited BY <1>6, <2>5, <2>6 DEF L!RelayDrops, id
  <2>9. RelayRefused(m, p, t) <=> i # 0 /\ L!LimitedAt(y[i].b, t, RelayClearFloor)
    BY <1>6, <2>5, <2>6 DEF RelayRefused, id
  <2>10. QED BY <1>5, <2>5, <2>6, <2>7, <2>8, <2>9
<1>7. CASE ~L!ResolvedRelay(p)
  <2> DEFINE x == IF p.linked THEN c ELSE u
  <2>1. m = [l EXCEPT !.unresolved = x]
    BY <1>7 DEF L!ChargeRelay
  <2> HIDE DEF u, trip, clear, air
  <2>2. Current(c, t) BY <1>2, ChargedCurrent
  <2> HIDE DEF c
  <2>3. IsBucket(x) /\ (p.linked => Current(x, t)) BY <1>2, <2>2 DEF Current
  <2> HIDE DEF x
  <2>4. SameButRelays(l, m) /\ m.unresolved = x /\ m.relays = r
    BY <1>1, <2>1 DEF SameButRelays, LimFields
  <2>5. LimOK(m) BY <1>1, <1>4, <2>3, <2>4
  <2>6. L!RelayDrops(m, p) <=> p.linked /\ x.limited BY <1>7, <2>4 DEF L!RelayDrops
  <2>7. RelayRefused(m, p, t) <=> p.linked /\ L!LimitedAt(x, t, RelayClearFloor)
    BY <1>7, <2>4 DEF RelayRefused
  <2>8. QED BY <1>5, <2>3, <2>4, <2>5, <2>6, <2>7
<1>8. QED BY <1>6, <1>7

-----------------------------------------------------------------------------
(* The verdicts. *)

(* A packet that the limiter charges names nodes of the scene. *)
KnownPacket(p) ==
  /\ p.from \in Nodes /\ (~L!Exempt(p) /\ L!IsUnicast(p) => p.to \in Nodes)
  /\ L!ResolvedRelay(p) => p.relay \in Nodes

LEMMA WouldDropParts ==
  ASSUME NEW l, NEW p, NEW t
  PROVE  L!WouldDrop(l, p, t) <=>
           /\ ~L!Exempt(p)
           /\ \/ L!ToLimitedDest(l, p, t) \/ OriginatorRefused(l, p, t) \/ YoungRefused(l, p, t)
              \/ p.candidate /\ RelayRefused(l, p, t)
BY DEF L!WouldDrop, OriginatorRefused, YoungRefused, RelayRefused

LEMMA SameSender ==
  ASSUME NEW l, NEW m, NEW p, NEW t, m.orig = l.orig, m.dests = l.dests
  PROVE  /\ L!ToLimitedDest(m, p, t) <=> L!ToLimitedDest(l, p, t)
         /\ OriginatorRefused(m, p, t) <=> OriginatorRefused(l, p, t)
         /\ L!OriginatorDrops(m, p) <=> L!OriginatorDrops(l, p)
BY DEF L!ToLimitedDest, OriginatorRefused, L!OriginatorDrops

LEMMA SameYoung ==
  ASSUME NEW l, NEW m, NEW p, NEW t, m.young = l.young, m.alumni = l.alumni, m.boot = l.boot,
         m.newcomers = l.newcomers
  PROVE  YoungRefused(m, p, t) <=> YoungRefused(l, p, t)
<1>1. L!YoungTableFull(m, t) <=> L!YoungTableFull(l, t) BY DEF L!YoungTableFull
<1>2. L!IsYoung(m, p.from, t) <=> L!IsYoung(l, p.from, t) BY <1>1 DEF L!IsYoung
<1>3. L!WarmedUp(m, t) <=> L!WarmedUp(l, t) BY DEF L!WarmedUp
<1>4. QED BY <1>2, <1>3 DEF YoungRefused

(* What admission decides about a packet that this node would relay, the   *)
(* check of the queue finds in the limiter that admission leaves.          *)
LEMMA Verdict ==
  ASSUME NEW l, LimOK(l), NEW p, KnownPacket(p), NEW t \in Int, NEW proximity, NEW v,
         v = L!ShouldDrop(l, p, t, proximity)
  PROVE  LimOK(v.l) /\ (p.candidate => (v.drop <=> L!WouldDrop(v.l, p, t)))
<1>1. CASE L!Exempt(p)
  <2>1. v.l = l /\ ~v.drop BY <1>1 DEF L!ShouldDrop
  <2>2. ~L!WouldDrop(l, p, t) BY <1>1 DEF L!WouldDrop
  <2>3. QED BY <2>1, <2>2
<1>2. CASE ~L!Exempt(p)
  <2> DEFINE a == [l EXCEPT !.boot = IF @ = Never THEN t ELSE @]
             b == L!ChargeDest(a, p, t, proximity)
             id == p.from
             n == IF L!BucketOf(p.port) = "unknown" THEN b ELSE L!NoteOriginator(b, id, t)
             c == L!ChargeOriginator(n, p, t, proximity)
             d == L!ChargeYoung(c, p, t)
             r == L!ChargeRelay(d, p, t, proximity)
  <2>1. v = L!AfterDest(b, p, t, proximity) BY <1>2 DEF L!ShouldDrop
  <2>2. d = L!AfterOriginator(b, p, t, proximity) BY DEF L!AfterOriginator
  <2>3. LimOK(a)
    <3>1. /\ DOMAIN a = LimFields /\ a.orig = l.orig /\ a.relays = l.relays /\ a.dests = l.dests
          /\ a.young = l.young /\ a.alumni = l.alumni /\ a.unresolved = l.unresolved
          /\ a.newcomers = l.newcomers
      BY DEF LimOK, LimFields
    <3> HIDE DEF a
    <3>2. QED BY <3>1 DEF LimOK
  <2> HIDE DEF a
  <2>4. LimOK(b) /\ (L!DestFlagged(b, p) => L!ToLimitedDest(b, p, t)) BY <1>2, <2>3, DestStep DEF KnownPacket
  <2> HIDE DEF b
  <2>5. CASE L!DestFlagged(b, p) \/ L!ToLimitedDest(b, p, t)
    <3>1. v.l = b /\ v.drop BY <2>1, <2>5 DEF L!AfterDest
    <3>2. L!WouldDrop(b, p, t) BY <1>2, <2>4, <2>5, WouldDropParts
    <3>3. QED BY <2>4, <3>1, <3>2
  <2>6. CASE ~(L!DestFlagged(b, p) \/ L!ToLimitedDest(b, p, t))
    <3>1. v = L!AfterSender(d, p, t, proximity) BY <2>1, <2>2, <2>6 DEF L!AfterDest
    <3>2. LimOK(n) /\ SameBudgets(b, n)
      <4>4. id \in Nodes BY DEF KnownPacket
      <4> HIDE DEF id
      <4>1. LimOK(L!NoteOriginator(b, id, t)) /\ SameBudgets(b, L!NoteOriginator(b, id, t))
        BY <2>4, <4>4, YoungStep
      <4>2. SameBudgets(b, b) BY <2>4 DEF SameBudgets, LimOK
      <4>3. QED BY <2>4, <4>1, <4>2
    <3> HIDE DEF n
    <3>3. ~L!ToLimitedDest(n, p, t) BY <2>6, <3>2, SameSender DEF SameBudgets
    <3>4. /\ LimOK(c) /\ (L!OriginatorDrops(c, p) <=> OriginatorRefused(c, p, t))
          /\ L!ToLimitedDest(c, p, t) => OriginatorRefused(c, p, t)
      BY <3>2, <3>3, OriginatorStep DEF KnownPacket
    <3> HIDE DEF c
    <3>5. LimOK(d) /\ SameButNewcomers(c, d) /\ (L!YoungDrops(d, p, t) <=> YoungRefused(d, p, t))
      BY <3>4, SharedStep
    <3> HIDE DEF d
    <3>6. /\ L!OriginatorDrops(d, p) <=> OriginatorRefused(d, p, t)
          /\ L!ToLimitedDest(d, p, t) => OriginatorRefused(d, p, t)
      BY <3>4, <3>5, SameSender DEF SameButNewcomers
    <3>7. L!SenderDrops(d, p, t) <=> OriginatorRefused(d, p, t) \/ YoungRefused(d, p, t)
      BY <3>5, <3>6 DEF L!SenderDrops
    <3>8. CASE p.candidate /\ ~L!SenderDrops(d, p, t)
      <4>1. v.l = r /\ v.drop = L!RelayDrops(r, p) BY <3>1, <3>8 DEF L!AfterSender
      <4>2. LimOK(r) /\ SameButRelays(d, r) /\ (L!RelayDrops(r, p) <=> RelayRefused(r, p, t))
        BY <3>5, RelayStep DEF KnownPacket
      <4> HIDE DEF r
      <4>3. ~L!ToLimitedDest(r, p, t) /\ ~OriginatorRefused(r, p, t)
        BY <3>6, <3>7, <3>8, <4>2, SameSender DEF SameButRelays
      <4>4. ~YoungRefused(r, p, t)
        BY <3>7, <3>8, <4>2, SameYoung DEF SameButRelays
      <4>5. L!WouldDrop(r, p, t) <=> L!RelayDrops(r, p) 
        BY <1>2, <3>8, <4>2, <4>3, <4>4, WouldDropParts
      <4>6. QED BY <4>1, <4>2, <4>5
    <3>9. CASE ~(p.candidate /\ ~L!SenderDrops(d, p, t))
      <4>1. v.l = d /\ v.drop = L!SenderDrops(d, p, t) BY <3>1, <3>9 DEF L!AfterSender
      <4>2. p.candidate => L!WouldDrop(d, p, t) BY <1>2, <3>7, <3>9, WouldDropParts
      <4>3. QED BY <3>5, <3>9, <4>1, <4>2
    <3>10. QED BY <3>8, <3>9
  <2>7. QED BY <2>5, <2>6
<1>3. QED BY <1>1, <1>2

(* Planning leaves out exactly the young while their packets are dropped. *)
LEMMA Coverage ==
  ASSUME NEW l, LimOK(l), NEW n, n # NoNode, NEW t
  PROVE  L!CoverageBlocks(l, n, t) <=> L!GateActive(l, t) /\ L!IsYoung(l, n, t)
<1> DEFINE y == l.young
           active == {y[i].id : i \in {j \in DOMAIN y : L!YoungActive(y[j], t)}}
           ids == {y[i].id : i \in DOMAIN y}
           at == L!Find(y, n)
<1>1. L!CoverageBlocks(l, n, t) <=>
        /\ L!GateActive(l, t)
        /\ IF L!YoungTableFull(l, t) THEN n \notin l.alumni \cup (ids \ active) ELSE n \in active
  BY DEF L!CoverageBlocks
<1>2. L!IsYoung(l, n, t) <=>
        IF at # 0 THEN L!YoungActive(y[at], t) ELSE n \notin l.alumni /\ L!YoungTableFull(l, t)
  BY DEF L!IsYoung
<1>3. Table(y, YoungFields) /\ \A i \in DOMAIN y : y[i].id \notin l.alumni BY DEF LimOK, YoungOK
<1> HIDE DEF y
<1>4. /\ at # 0 => at \in DOMAIN y /\ y[at].id = n
      /\ \A i \in DOMAIN y : y[i].id = n => at = i
      /\ at = 0 => \A i \in DOMAIN y : y[i].id # n
  BY <1>3, FindFacts
<1> HIDE DEF at
<1>5. CASE at = 0
  <2>1. n \notin active /\ n \notin ids BY <1>4, <1>5
  <2>2. QED BY <1>1, <1>2, <1>5, <2>1
<1>6. CASE at # 0
  <2>1. n \in ids /\ n \notin l.alumni BY <1>3, <1>4, <1>6
  <2>2. n \in active <=> L!YoungActive(y[at], t) BY <1>4, <1>6
  <2>3. QED BY <1>1, <1>2, <1>6, <2>1, <2>2
<1>7. QED BY <1>5, <1>6

-----------------------------------------------------------------------------
(* The last hop that a byte resolves to is a node of the scene. *)

CacheKnown(c) == \A b \in c : \A e \in b.heard : e.id \in Nodes

LEMMA OneOf ==
  ASSUME NEW S, IsFiniteSet(S), Cardinality(S) = 1
  PROVE  (CHOOSE x \in S : TRUE) \in S
<1>1. S # {} BY FS_EmptySet
<1>2. QED BY <1>1

LEMMA ResolvesKnown ==
  ASSUME IdInv, CacheKnown(cache), NEW byte, NEW signal
  PROVE  Resolves(byte, signal) \in Nodes \cup {NoNode}
<1> DEFINE b == I!Bucket(cache, byte)
           near == {n \in DOMAIN links : links[n] # 0 /\ Low(n) = byte}
           heard == {e.id : e \in I!FreshEntries(b, now)}
           direct == I!PickBestDirect(links, near, signal)
<1>1. DOMAIN links = Nodes /\ Bucketed(cache) BY DEF IdInv
<1>2. \/ Resolves(byte, signal) = NoNode
      \/ Resolves(byte, signal) = direct
      \/ Cardinality(heard) = 1 /\ Resolves(byte, signal) = CHOOSE n \in heard : TRUE
  <2>1. Cardinality(heard) = I!Cardinality(heard) BY SameCardinality
  <2> HIDE DEF b, near, heard, direct
  <2>2. QED BY <2>1 DEF Resolves, I!ResolveRelayIdentity, b, near, heard, direct
<1>3. IsFiniteSet(near) /\ near \subseteq Nodes BY <1>1, SceneNodes, FS_Subset
<1>4. direct \in near \cup {NoNode}
  <2> DEFINE Off(n) == IF links[n] > signal THEN links[n] - signal ELSE signal - links[n]
             best == {n \in near : \A m \in near : Off(n) <= Off(m)}
  <2>1. \/ Cardinality(near) = 1 /\ direct = CHOOSE n \in near : TRUE
        \/ direct = NoNode
        \/ Cardinality(best) = 1 /\ direct = CHOOSE n \in best : TRUE
    <3>1. Cardinality(near) = I!Cardinality(near) /\ Cardinality(best) = I!Cardinality(best)
      BY SameCardinality
    <3>2. direct = IF I!Cardinality(near) = 1 THEN CHOOSE n \in near : TRUE
                   ELSE IF signal = 0 \/ I!Cardinality(best) # 1 THEN NoNode
                   ELSE CHOOSE n \in best : TRUE
      BY DEF I!PickBestDirect
    <3> HIDE DEF near, best, direct
    <3>3. QED BY <3>1, <3>2
  <2>2. best \subseteq near OBVIOUS
  <2>3. IsFiniteSet(best) BY <1>3, <2>2, FS_Subset
  <2> HIDE DEF near, best, direct
  <2>4. QED BY <1>3, <2>1, <2>2, <2>3, OneOf
<1>5. IsFiniteSet(heard) /\ heard \subseteq Nodes
  <2>1. b \in cache \/ b.heard = {} BY DEF I!Bucket
  <2>2. IsFiniteSet(b.heard) /\ \A e \in b.heard : e.id \in Nodes
    BY <1>1, <2>1, FS_EmptySet DEF Bucketed, CacheKnown
  <2> HIDE DEF b
  <2> DEFINE S == I!FreshEntries(b, now)
             f == [e \in S |-> e.id]
  <2>3. IsFiniteSet(S) /\ \A e \in S : e.id \in Nodes BY <2>2, FS_Subset DEF I!FreshEntries
  <2> HIDE DEF S
  <2>4. heard = {e.id : e \in S} BY DEF S
  <2> HIDE DEF heard
  <2>5. f \in Surjection(S, heard) BY <2>4 DEF Surjection
  <2>6. IsFiniteSet(heard)
    <3> HIDE DEF f
    <3>1. QED BY <2>3, <2>5, FS_Surjection
  <2>7. QED BY <2>3, <2>4, <2>6
<1> HIDE DEF near, heard, direct
<1>6. QED BY <1>2, <1>3, <1>4, <1>5, OneOf

LEMMA RememberKnown ==
  ASSUME NEW c, Bucketed(c), CacheKnown(c), NEW id \in Nodes, NEW t
  PROVE  CacheKnown(I!RememberRelayIdentity(c, id, t))
<1> DEFINE old == I!Bucket(c, Low(id))
           new == I!Noted(old, id, t)
<1>1. DOMAIN old = BucketFields /\ \A e \in old.heard : e.id \in Nodes
  <2>1. old \in c \/ (old.heard = {} /\ DOMAIN old = BucketFields) BY DEF I!Bucket, BucketFields
  <2>2. QED BY <2>1 DEF CacheKnown, Bucketed
<1> HIDE DEF old
<1>2. \A e \in new.heard : e.id \in Nodes
  <2> DEFINE kept == I!FreshEntries(old, t)
             others == {e \in kept : e.id # id}
             entry == [id |-> id, at |-> t]
  <2>1. kept \subseteq old.heard BY DEF I!FreshEntries
  <2>2. \/ new = [old EXCEPT !.heard = others \cup {entry}]
        \/ new = [old EXCEPT !.heard = kept, !.overflow = t]
    BY DEF I!Noted
  <2>3. entry.id = id OBVIOUS
  <2>4. others \subseteq kept OBVIOUS
  <2> HIDE DEF new, kept, others, entry
  <2>5. new.heard \subseteq kept \cup {entry} BY <1>1, <2>2, <2>4 DEF BucketFields
  <2>6. QED BY <1>1, <2>1, <2>3, <2>5
<1> HIDE DEF new
<1>3. I!RememberRelayIdentity(c, id, t) = c \/ I!RememberRelayIdentity(c, id, t) = (c \ {old}) \cup {new}
  BY DEF I!RememberRelayIdentity, old, new
<1>4. QED BY <1>2, <1>3 DEF CacheKnown

LEMMA PruneKnown ==
  ASSUME NEW c, Bucketed(c), CacheKnown(c), NEW t
  PROVE  CacheKnown(I!PruneRelayIdentity(c, t))
<1> SUFFICES ASSUME NEW a \in I!PruneRelayIdentity(c, t), NEW e \in a.heard PROVE e.id \in Nodes
  BY DEF CacheKnown
<1>1. PICK b \in c : a = [b EXCEPT !.heard = I!FreshEntries(b, t)] BY DEF I!PruneRelayIdentity
<1>2. a.heard = I!FreshEntries(b, t) BY <1>1 DEF Bucketed, BucketFields
<1>3. e \in b.heard BY <1>2 DEF I!FreshEntries
<1>4. QED BY <1>3 DEF CacheKnown

-----------------------------------------------------------------------------
(* The invariant: the tables have one entry for each node, no young node   *)
(* is among the alumni, and the last verdict is the one that the limiter   *)
(* would give now.                                                         *)
LimInv ==
  /\ LimOK(lim) /\ DOMAIN seen = SeenFields /\ CacheKnown(cache)
  /\ seen.last # None => (seen.last.drop <=> L!WouldDrop(lim, seen.last.p, now))

LEMMA NowInt ==
  ASSUME IdInv
  PROVE  now \in Int
BY AtFacts DEF IdInv

LEMMA NewLimiterOK == LimOK(L!NewLimiter)
<1> DEFINE l == L!NewLimiter
           f == L!Fresh(0)
           e == << >>
<1>1. /\ DOMAIN l = LimFields /\ l.orig = e /\ l.relays = e /\ l.dests = e /\ l.young = e
      /\ l.unresolved = f /\ l.newcomers = f
  BY DEF L!NewLimiter, LimFields
<1>2. IsBucket(f)
  <2>1. Current(f, 0) BY FreshCurrent
  <2>2. QED BY <2>1 DEF Current
<1>3. e \in Seq({}) /\ DOMAIN e = {} OBVIOUS
<1> HIDE DEF l, f, e
<1>4. IsSeq(e) BY <1>3 DEF IsSeq
<1>5. OrigOK(e) /\ RelaysOK(e) /\ DestsOK(e) /\ YoungOK(e, l.alumni)
  BY <1>3, <1>4 DEF OrigOK, RelaysOK, DestsOK, YoungOK, Table
<1>6. LimOK(l) BY <1>1, <1>2, <1>5 DEF LimOK
<1>7. QED BY <1>6 DEF l

LEMMA JudgedLast ==
  ASSUME DOMAIN seen = SeenFields, NEW lp, NEW l, NEW m, NEW drop
  PROVE  /\ DOMAIN Judged(lp, l, m, drop) = SeenFields
         /\ Judged(lp, l, m, drop).last = IF lp.candidate THEN [p |-> lp, drop |-> drop] ELSE None
BY DEF Judged, SeenFields

LEMMA RememberedLast ==
  ASSUME NEW s, DOMAIN s = SeenFields, NEW c, NEW n
  PROVE  DOMAIN Remembered(s, c, n) = SeenFields /\ Remembered(s, c, n).last = s.last
BY DEF Remembered, SeenFields

(* Forgetting what was heard leaves the rest of the observer alone. *)
LEMMA ForgottenFields ==
  ASSUME NEW s, DOMAIN s = SeenFields, NEW r, (\E c : r = Pruned(s, c)) \/ r = NothingHeard(s)
  PROVE  /\ DOMAIN r = SeenFields /\ r.last = s.last /\ r.bans = s.bans
         /\ r.boot = s.boot /\ r.first = s.first /\ r.minted = s.minted
BY DEF Pruned, NothingHeard, SeenFields

(* The limiter only ever meets nodes of the scene. *)
LEMMA TransitKnown ==
  ASSUME LimInv, IdInv, NEW p \in scene.packets, NEW via
  PROVE  KnownPacket(LimiterPacket(p, via, DecodePayload(p)))
<1> DEFINE lp == LimiterPacket(p, via, DecodePayload(p))
           to == Resolves(via.byte, via.signal)
<1>1. p.from \in Nodes /\ p.to \in Nodes \cup {Me, NoNode, Broadcast} BY SceneNodes DEF IdInv
<1>2. to \in Nodes \cup {NoNode}
  <2> DEFINE byte == via.byte
             signal == via.signal
  <2> HIDE DEF byte, signal
  <2>1. Resolves(byte, signal) \in Nodes \cup {NoNode} BY ResolvesKnown DEF LimInv
  <2>2. QED BY <2>1 DEF byte, signal
<1>3. lp.from = p.from /\ lp.to = p.to /\ lp.relay = IF via.byte = 0 THEN p.from ELSE to
  BY DEF LimiterPacket
<1> HIDE DEF lp, to
<1>4. KnownPacket(lp) BY <1>1, <1>2, <1>3 DEF KnownPacket, L!Exempt, L!IsUnicast, L!ResolvedRelay
<1>5. QED BY <1>4 DEF lp

LEMMA TransitLimiter ==
  ASSUME LimInv, IdInv, NEW p \in scene.packets, NEW via, Transit(p, via)
  PROVE  LimInv'
<1> DEFINE d == DecodePayload(p)
           lp == LimiterPacket(p, via, d)
           v == L!ShouldDrop(lim, lp, now, scene.proximity)
           direct == via.byte = 0
           c == IF direct /\ ~v.drop THEN I!RememberRelayIdentity(cache, p.from, now) ELSE cache
           s == Judged(lp, lim, v.l, v.drop)
           n == p.from
           r == Remembered(s, c, n)
           near == scene.proximity
<1>1. lim' = v.l /\ now' = now /\ seen' = (IF direct /\ ~v.drop THEN r ELSE s) BY DEF Transit
<1>2. LimOK(lim) /\ DOMAIN seen = SeenFields /\ now \in Int BY NowInt DEF LimInv
<1>9. cache' = c BY DEF Transit
<1>10. p.from \in Nodes /\ p.to \in Nodes \cup {Me, NoNode, Broadcast} BY SceneNodes DEF IdInv
<1>11. CacheKnown(c)
  <2>1. Bucketed(cache) /\ CacheKnown(cache) BY DEF IdInv, LimInv
  <2>2. CacheKnown(I!RememberRelayIdentity(cache, n, now)) BY <1>10, <2>1, RememberKnown
  <2> HIDE DEF v, direct
  <2>3. QED BY <2>1, <2>2
<1>12. KnownPacket(lp) BY TransitKnown
<1> HIDE DEF lp, near, d
<1>3. LimOK(v.l) /\ (lp.candidate => (v.drop <=> L!WouldDrop(v.l, lp, now)))
  <2>1. v = L!ShouldDrop(lim, lp, now, near) BY DEF near
  <2> HIDE DEF v
  <2>2. QED BY <1>2, <1>12, <2>1, Verdict
<1> HIDE DEF v, c, direct, n
<1> DEFINE after == v.l
           drop == v.drop
<1>4. DOMAIN s = SeenFields /\ s.last = IF lp.candidate THEN [p |-> lp, drop |-> drop] ELSE None
  <2>1. s = Judged(lp, lim, after, drop) OBVIOUS
  <2> HIDE DEF after, drop, s
  <2>2. QED BY <1>2, <2>1, JudgedLast
<1> HIDE DEF s
<1>5. DOMAIN r = SeenFields /\ r.last = s.last BY <1>4, RememberedLast
<1> HIDE DEF r
<1>6. DOMAIN seen' = SeenFields /\ seen'.last = s.last BY <1>1, <1>4, <1>5
<1>7. s.last # None => (s.last.drop <=> L!WouldDrop(v.l, s.last.p, now))
  BY <1>3, <1>4
<1>8. QED BY <1>1, <1>3, <1>6, <1>7, <1>9, <1>11 DEF LimInv

LEMMA OtherLimiter ==
  ASSUME LimInv, IdInv, [Next]_vars, ~\E p \in scene.packets, via \in scene.via : Transit(p, via)
  PROVE  LimInv'
<1>1. lim' = lim
  <2>1. CASE UNCHANGED vars BY <2>1 DEF vars
  <2>2. CASE \E p \in scene.packets, via \in scene.via : ForUs(p, via) BY <2>2 DEF ForUs
  <2>3. CASE Tick BY <2>3 DEF Tick
  <2>4. CASE Maintain BY <2>4 DEF Maintain
  <2>5. CASE Poll BY <2>5 DEF Poll
  <2>6. CASE \E n \in Nodes : Forget(n) BY <2>6 DEF Forget
  <2>7. CASE \E preset \in BOOLEAN : RadioReconfigured(preset) BY <2>7 DEF RadioReconfigured
  <2>8. QED BY <2>1, <2>2, <2>3, <2>4, <2>5, <2>6, <2>7 DEF Next
<1>2. DOMAIN seen = SeenFields BY DEF LimInv
<1>3. DOMAIN seen' = SeenFields /\ (seen'.last = None \/ (seen'.last = seen.last /\ now' = now))
  <2>1. CASE UNCHANGED vars BY <1>2, <2>1 DEF vars
  <2>2. CASE \E p \in scene.packets, via \in scene.via : ForUs(p, via)
    <3>1. PICK p, via : ForUs(p, via) BY <2>2
    <3> DEFINE fresh == via.byte = 0 /\ ~IsDuplicate(hist, p)
               c == IF fresh THEN I!RememberRelayIdentity(cache, p.from, now) ELSE cache
               n == p.from
               r == Remembered(seen, c, n)
               u == IF fresh THEN r ELSE seen
    <3>2. seen' = [u EXCEPT !.last = None] BY <3>1 DEF ForUs
    <3> HIDE DEF c, n, fresh
    <3>3. DOMAIN r = SeenFields BY <1>2, RememberedLast
    <3> HIDE DEF r
    <3>4. DOMAIN u = SeenFields BY <1>2, <3>3
    <3> HIDE DEF u
    <3>5. QED BY <3>2, <3>4 DEF SeenFields
  <2>3. CASE Tick BY <1>2, <2>3 DEF Tick, SeenFields
  <2>4. CASE Maintain
    <3>1. seen' = Pruned(seen, cache') /\ now' = now BY <2>4 DEF Maintain
    <3>2. QED BY <1>2, <3>1, ForgottenFields
  <2>5. CASE Poll BY <1>2, <2>5 DEF Poll
  <2>6. CASE \E n \in Nodes : Forget(n) BY <1>2, <2>6 DEF Forget
  <2>7. CASE \E preset \in BOOLEAN : RadioReconfigured(preset)
    <3>1. now' = now /\ seen' \in {seen, NothingHeard(seen)} BY <2>7 DEF RadioReconfigured
    <3>2. QED BY <1>2, <3>1, ForgottenFields
  <2>8. QED BY <2>1, <2>2, <2>3, <2>4, <2>5, <2>6, <2>7 DEF Next
<1>4. CacheKnown(cache')
  <2>1. Bucketed(cache) /\ CacheKnown(cache) BY DEF IdInv, LimInv
  <2>2. CASE UNCHANGED vars BY <2>1, <2>2 DEF vars
  <2>3. CASE \E p \in scene.packets, via \in scene.via : ForUs(p, via)
    <3>1. PICK p \in scene.packets, via \in scene.via : ForUs(p, via) BY <2>3
    <3> DEFINE n == p.from
    <3>2. cache' = cache \/ cache' = I!RememberRelayIdentity(cache, n, now) BY <3>1 DEF ForUs
    <3>3. n \in Nodes BY SceneNodes DEF IdInv
    <3> HIDE DEF n
    <3>4. QED BY <2>1, <3>2, <3>3, RememberKnown
  <2>4. CASE Tick BY <2>1, <2>4 DEF Tick
  <2>5. CASE Maintain BY <2>1, <2>5, PruneKnown DEF Maintain
  <2>6. CASE Poll BY <2>1, <2>6 DEF Poll
  <2>7. CASE \E n \in Nodes : Forget(n) BY <2>1, <2>7 DEF Forget
  <2>8. CASE \E preset \in BOOLEAN : RadioReconfigured(preset)
    BY <2>1, <2>8 DEF RadioReconfigured, CacheKnown
  <2>9. QED BY <2>2, <2>3, <2>4, <2>5, <2>6, <2>7, <2>8 DEF Next
<1>5. QED BY <1>1, <1>3, <1>4 DEF LimInv

(* The limiter of the receive path keeps its tables in order and its last  *)
(* verdict in force, whatever arrives (should_drop).                       *)
THEOREM LimiterInvariant == Spec => []LimInv
<1>1. Init => LimInv
  <2> SUFFICES ASSUME Init PROVE LimInv OBVIOUS
  <2>1. lim = L!NewLimiter /\ DOMAIN seen = SeenFields /\ seen.last = None /\ cache = {}
    BY DEF Init, SeenFields
  <2>2. QED BY <2>1, NewLimiterOK DEF LimInv, CacheKnown
<1>2. LimInv /\ IdInv /\ [Next]_vars => LimInv'
  BY TransitLimiter, OtherLimiter DEF Next
<1>3. QED BY <1>1, <1>2, IdInvariant, PTL DEF Spec

(* queued_frame_allowed repeats the verdict of should_drop as long as no   *)
(* time has passed, and coverage_gate takes out of planning exactly the    *)
(* nodes that the limiter drops for being young: for every size of the     *)
(* tables, every budget and every wrap of the clock.                       *)
THEOREM QueueAgreesAlways == Spec => []QueueAgrees
<1>1. LimInv => QueueAgrees
  <2> SUFFICES ASSUME LimInv PROVE QueueAgrees OBVIOUS
  <2>1. seen.last # None =>
          (QueuedFrameAllowed(seen.last.p)
             <=> ~seen.last.drop /\ L!CanRelay(seen.last.p.port, seen.last.p.public, seen.last.p.util))
    BY DEF LimInv, QueuedFrameAllowed
  <2>2. \A n \in Nodes :
          L!CoverageBlocks(lim, n, now) <=> L!GateActive(lim, now) /\ L!IsYoung(lim, n, now)
    BY Clocks, Coverage DEF LimInv
  <2>3. QED BY <2>1, <2>2 DEF QueueAgrees
<1>2. QED BY <1>1, LimiterInvariant, PTL

-----------------------------------------------------------------------------
(* Eviction: a full table has a best candidate among the entries that are  *)
(* not limited, so a limited one keeps its slot.                           *)

LEMMA BestOfMany ==
  ASSUME NEW n \in Nat, NEW S, S \subseteq 1..n, S # {}, NEW R,
         \A i, j \in S : i # j => <<i, j>> \in R \/ <<j, i>> \in R,
         \A i, j, k \in S : <<i, j>> \in R /\ <<j, k>> \in R => <<i, k>> \in R
  PROVE  \E i \in S : \A j \in S \ {i} : <<i, j>> \in R
<1> DEFINE Upto(k) == {j \in S : j <= k}
           Has(k) == \E i \in Upto(k) : \A j \in Upto(k) \ {i} : <<i, j>> \in R
           bad == {k \in 1..n : Upto(k) # {} /\ ~Has(k)}
<1>4. \A j \in S : j \in Nat /\ 1 <= j /\ j <= n OBVIOUS
<1>1. CASE bad # {}
  <2>1. bad \subseteq Nat OBVIOUS
  <2>2. PICK k \in bad : \A m \in bad : k <= m
    <3> HIDE DEF bad
    <3>1. QED BY <1>1, <2>1, LeastNat
  <2> DEFINE before == k - 1
  <2>3. k \in Nat /\ 1 <= k /\ k <= n /\ Upto(k) # {} /\ ~Has(k) BY <2>2
  <2>4. before \notin bad /\ before \in Nat BY <2>2, <2>3
  <2>5. \A j \in S : (j <= k <=> j = k \/ j <= before) /\ (j = k => ~(j <= before))
    BY <1>4, <2>3
  <2>9. \A m : \A j : j \in Upto(m) <=> j \in S /\ j <= m OBVIOUS
  <2>6. CASE Upto(before) = {}
    <3>1. \A j \in Upto(k) : j = k BY <2>5, <2>6
    <3>2. k \in Upto(k) BY <2>3, <3>1
    <3>3. QED BY <2>3, <3>1, <3>2
  <2>7. CASE Upto(before) # {}
    <3>1. before \in 1..n
      <4>1. PICK j \in S : j <= before BY <2>7
      <4>2. QED BY <1>4, <2>3, <4>1
    <3>2. Has(before) BY <2>4, <2>7, <3>1
    <3>3. PICK i \in Upto(before) : \A j \in Upto(before) \ {i} : <<i, j>> \in R BY <3>2
    <3>4. \A j \in Upto(k) : j = k \/ j \in Upto(before) BY <2>5
    <3>5. i \in S /\ i # k /\ i \in Upto(k) BY <2>5
    <3>6. CASE k \notin S \/ <<i, k>> \in R
      <4>1. \A j \in Upto(k) \ {i} : <<i, j>> \in R BY <3>3, <3>4, <3>6
      <4>2. QED BY <2>3, <3>5, <4>1
    <3>7. CASE k \in S /\ <<i, k>> \notin R
      <4>1. <<k, i>> \in R BY <3>5, <3>7
      <4>2. ASSUME NEW j \in Upto(k) \ {k} PROVE <<k, j>> \in R
        <5>1. j \in S /\ (j = i \/ <<i, j>> \in R) BY <3>3, <3>4
        <5>2. QED BY <3>5, <3>7, <4>1, <5>1
      <4>3. k \in Upto(k) BY <2>3, <3>7
      <4>4. QED BY <2>3, <4>2, <4>3
    <3>8. QED BY <3>6, <3>7
  <2>8. QED BY <2>6, <2>7
<1>2. CASE bad = {}
  <2>1. Upto(n) = S BY <1>4
  <2>2. n \in 1..n
    <3>1. PICK j \in S : TRUE OBVIOUS
    <3>2. QED BY <1>4, <3>1
  <2>3. Has(n) BY <1>2, <2>1, <2>2
  <2>4. QED BY <2>1, <2>3
<1>3. QED BY <1>1, <1>2

LEMMA AboveIsLexicographic ==
  ASSUME NEW a \in Int, NEW b \in Int, NEW c \in Int, NEW x \in Int, NEW y \in Int, NEW z \in Int
  PROVE  L!Above(<<a, b, c>>, <<x, y, z>>) <=> a > x \/ (a = x /\ b > y) \/ (a = x /\ b = y /\ c > z)
<1> DEFINE p == <<a, b, c>>
           q == <<x, y, z>>
           Wins(k) == p[k] > q[k] /\ \A j \in 1..(k - 1) : p[j] = q[j]
<1>1. L!Above(p, q) <=> \E k \in 1..3 : Wins(k) BY DEF L!Above
<1>2. p[1] = a /\ p[2] = b /\ p[3] = c /\ q[1] = x /\ q[2] = y /\ q[3] = z OBVIOUS
<1> HIDE DEF p, q
<1>3. Wins(1) <=> a > x
  <2>1. 1..(1 - 1) = {} OBVIOUS
  <2>2. QED BY <1>2, <2>1
<1>4. Wins(2) <=> a = x /\ b > y
  <2>1. 1..(2 - 1) = {1} OBVIOUS
  <2>2. QED BY <1>2, <2>1
<1>5. Wins(3) <=> a = x /\ b = y /\ c > z
  <2>1. 1..(3 - 1) = {1, 2} OBVIOUS
  <2>2. QED BY <1>2, <2>1
<1> HIDE DEF Wins
<1>6. (\E k \in 1..3 : Wins(k)) <=> Wins(1) \/ Wins(2) \/ Wins(3)
  <2>1. 1..3 = {1, 2, 3} OBVIOUS
  <2>2. QED BY <2>1
<1>7. QED BY <1>1, <1>3, <1>4, <1>5, <1>6 DEF p, q

(* The order in which entries are given up: total, and transitive. *)
Older(x, y, i, j) ==
  \/ x[1] > y[1]
  \/ x[1] = y[1] /\ x[2] > y[2]
  \/ x[1] = y[1] /\ x[2] = y[2] /\ x[3] > y[3]
  \/ x[1] = y[1] /\ x[2] = y[2] /\ x[3] = y[3] /\ i < j

LEMMA OlderIsOrder ==
  ASSUME NEW a \in Int, NEW b \in Int, NEW c \in Int, NEW x \in Int, NEW y \in Int, NEW z \in Int,
         NEW u \in Int, NEW v \in Int, NEW w \in Int, NEW i \in Int, NEW j \in Int, NEW k \in Int
  PROVE  /\ i # j => Older(<<a, b, c>>, <<x, y, z>>, i, j) \/ Older(<<x, y, z>>, <<a, b, c>>, j, i)
         /\ Older(<<a, b, c>>, <<x, y, z>>, i, j) /\ Older(<<x, y, z>>, <<u, v, w>>, j, k)
              => Older(<<a, b, c>>, <<u, v, w>>, i, k)
<1> DEFINE Lex(p1, p2, p3, p4, q1, q2, q3, q4) ==
             p1 > q1 \/ (p1 = q1 /\ p2 > q2) \/ (p1 = q1 /\ p2 = q2 /\ p3 > q3)
             \/ (p1 = q1 /\ p2 = q2 /\ p3 = q3 /\ p4 < q4)
<1>1. \A p1, p2, p3, p4, q1, q2, q3, q4 :
        Older(<<p1, p2, p3>>, <<q1, q2, q3>>, p4, q4) <=> Lex(p1, p2, p3, p4, q1, q2, q3, q4)
  BY DEF Older
<1>2. i # j => Lex(a, b, c, i, x, y, z, j) \/ Lex(x, y, z, j, a, b, c, i) OBVIOUS
<1>3. Lex(a, b, c, i, x, y, z, j) /\ Lex(x, y, z, j, u, v, w, k) => Lex(a, b, c, i, u, v, w, k)
  OBVIOUS
<1> HIDE DEF Lex
<1>4. QED BY <1>1, <1>2, <1>3

(* The entries that a table offers to eviction. *)
Offers(entries, proximity) ==
  /\ \E n \in Nat : DOMAIN entries = 1..n
  /\ \A i \in DOMAIN entries :
       /\ entries[i].age \in Int
       /\ proximity[entries[i].id].hops \in Nat

LEMMA EvictionChoice ==
  ASSUME NEW entries, NEW proximity, Offers(entries, proximity)
  PROVE  LET v == L!EvictionCandidate(entries, proximity)
         IN v = 0 \/ (v \in DOMAIN entries /\ ~entries[v].limited)
<1> DEFINE open == {i \in DOMAIN entries : ~entries[i].limited}
           out(i) == IF proximity[entries[i].id].in THEN 0 ELSE 1
           hops(i) == proximity[entries[i].id].hops
           age(i) == entries[i].age
           Rank(i) == L!EvictionRank(proximity, entries[i].id, entries[i].age)
           Better(i, j) == L!Above(Rank(i), Rank(j)) \/ (Rank(i) = Rank(j) /\ i < j)
           R == {p \in open \X open : Better(p[1], p[2])}
<1>1. PICK n \in Nat : DOMAIN entries = 1..n BY DEF Offers
<1>2. open \subseteq 1..n /\ \A i \in open : i \in Int BY <1>1
<1>3. \A i \in open : out(i) \in Int /\ hops(i) \in Int /\ age(i) \in Int BY DEF Offers
<1>4. \A i \in open : Rank(i) = <<out(i), hops(i), age(i)>> BY DEF L!EvictionRank
<1>5. \A i, j \in open : Better(i, j) <=> Older(<<out(i), hops(i), age(i)>>, <<out(j), hops(j), age(j)>>, i, j)
  <2> SUFFICES ASSUME NEW i \in open, NEW j \in open
               PROVE  Better(i, j) <=> Older(<<out(i), hops(i), age(i)>>, <<out(j), hops(j), age(j)>>, i, j)
      OBVIOUS
  <2> HIDE DEF open, out, hops, age, Rank
  <2>1. \A a, b, c, x, y, z \in Int :
          L!Above(<<a, b, c>>, <<x, y, z>>) <=> a > x \/ (a = x /\ b > y) \/ (a = x /\ b = y /\ c > z)
    BY AboveIsLexicographic
  <2>2. L!Above(Rank(i), Rank(j)) <=> out(i) > out(j) \/ (out(i) = out(j) /\ hops(i) > hops(j))
                                      \/ (out(i) = out(j) /\ hops(i) = hops(j) /\ age(i) > age(j))
    <3>1. Rank(i) = <<out(i), hops(i), age(i)>> /\ Rank(j) = <<out(j), hops(j), age(j)>> BY <1>4
    <3>2. out(i) \in Int /\ hops(i) \in Int /\ age(i) \in Int
          /\ out(j) \in Int /\ hops(j) \in Int /\ age(j) \in Int BY <1>3
    <3>3. QED BY <2>1, <3>1, <3>2
  <2>3. Rank(i) = Rank(j) <=> out(i) = out(j) /\ hops(i) = hops(j) /\ age(i) = age(j) BY <1>4
  <2>4. QED BY <2>2, <2>3 DEF Older
<1> HIDE DEF out, hops, age, Rank, Better
<1>6. \A i, j \in open : i # j => <<i, j>> \in R \/ <<j, i>> \in R
  <2> SUFFICES ASSUME NEW i \in open, NEW j \in open, i # j PROVE Better(i, j) \/ Better(j, i)
      OBVIOUS
  <2> HIDE DEF open
  <2>1. \A a, b, c, x, y, z \in Int :
          Older(<<a, b, c>>, <<x, y, z>>, i, j) \/ Older(<<x, y, z>>, <<a, b, c>>, j, i)
    BY <1>2, OlderIsOrder
  <2>2. QED BY <1>3, <1>5, <2>1
<1>7. \A i, j, k \in open : <<i, j>> \in R /\ <<j, k>> \in R => <<i, k>> \in R
  <2> SUFFICES ASSUME NEW i \in open, NEW j \in open, NEW k \in open, Better(i, j), Better(j, k)
               PROVE  Better(i, k)
      OBVIOUS
  <2> HIDE DEF open
  <2>1. \A a, b, c, x, y, z, u, v, w \in Int :
          Older(<<a, b, c>>, <<x, y, z>>, i, j) /\ Older(<<x, y, z>>, <<u, v, w>>, j, k)
            => Older(<<a, b, c>>, <<u, v, w>>, i, k)
    BY <1>2, OlderIsOrder
  <2>2. QED BY <1>3, <1>5, <2>1
<1>8. open # {} => \E i \in open : \A j \in open \ {i} : Better(i, j)
  <2> SUFFICES ASSUME open # {} PROVE \E i \in open : \A j \in open \ {i} : <<i, j>> \in R
      OBVIOUS
  <2> HIDE DEF open, R
  <2>1. QED BY <1>2, <1>6, <1>7, BestOfMany
<1> DEFINE best == CHOOSE i \in open : \A j \in open \ {i} : Better(i, j)
<1>9. open # {} => best \in open BY <1>8
<1>10. L!EvictionCandidate(entries, proximity) = IF open = {} THEN 0 ELSE best
  BY DEF L!EvictionCandidate, Rank, Better
<1>11. QED BY <1>9, <1>10

-----------------------------------------------------------------------------
(* A ban that began at a, less than a window ago, outlives every charge    *)
(* and every newcomer to its table.                                        *)

Running(b, a) == b.limited /\ b.start = a
Recent(a, t) == L!Elapsed(t, a) \div Window = 0

LEMMA RunningLimited ==
  ASSUME NEW b, NEW a, NEW t, Running(b, a), Recent(a, t), NEW clear
  PROVE  L!LimitedAt(b, t, clear)
BY DEF Running, Recent, L!LimitedAt, L!Windows

LEMMA ChargeKeeps ==
  ASSUME NEW b, IsBucket(b), NEW a, NEW t, Running(b, a), Recent(a, t), NEW trip, NEW clear, NEW charge
  PROVE  /\ Running(L!CheckAndUpdate(b, trip, clear, charge, t), a)
         /\ Running(L!Counted(b, clear, charge, t), a)
<1> DEFINE x == [b EXCEPT !.clear = clear]
           n == x.n + charge
           y == [x EXCEPT !.n = n]
<1>1. DOMAIN x = BucketShape /\ Running(x, a) BY DEF IsBucket, BucketShape, Running
<1>2. L!Windows(x, t) = 0 BY <1>1 DEF Running, Recent, L!Windows
<1> HIDE DEF x
<1>3. L!Roll(x, t, clear) = x BY <1>2 DEF L!Roll
<1>4. L!Counted(b, clear, charge, t) = y
  <2>1. L!Counted(b, clear, charge, t) = [x EXCEPT !.n = @ + charge] BY <1>3 DEF L!Counted, x
  <2>2. QED BY <1>1, <2>1 DEF BucketShape
<1> HIDE DEF n
<1>5. Running(y, a) BY <1>1 DEF Running, BucketShape
<1> HIDE DEF y
<1>6. L!CheckAndUpdate(b, trip, clear, charge, t) = L!TripOf(y, trip, t) BY <1>4 DEF L!CheckAndUpdate
<1>7. L!TripOf(y, trip, t) = y BY <1>5 DEF L!TripOf, Running
<1>8. QED BY <1>4, <1>5, <1>6, <1>7

LEMMA PlacedKeeps ==
  ASSUME NEW s, IsSeq(s), NEW max, NEW entry, NEW entries, NEW proximity,
         Offers(entries, proximity), DOMAIN entries = DOMAIN s, NEW t,
         t = L!Placed(s, max, entry, entries, proximity)
  PROVE  \A i \in DOMAIN s : entries[i].limited => i \in DOMAIN t /\ t[i] = s[i]
<1> DEFINE v == L!EvictionCandidate(entries, proximity)
<1>1. Len(s) \in Nat /\ DOMAIN s = 1..Len(s) BY SeqFacts
<1>2. v = 0 \/ (v \in DOMAIN entries /\ ~entries[v].limited) BY EvictionChoice
<1>3. t = Append(s, entry) \/ t = s \/ (v # 0 /\ t = [s EXCEPT ![v] = entry]) BY DEF L!Placed
<1> HIDE DEF v
<1>4. CASE t = Append(s, entry)
  <2>1. DOMAIN t = 1..(Len(s) + 1) /\ \A i \in 1..Len(s) : t[i] = s[i] BY <1>4, SeqAppend
  <2>2. QED BY <1>1, <2>1
<1>5. CASE t = s BY <1>5
<1>6. CASE v # 0 /\ t = [s EXCEPT ![v] = entry]
  <2>1. DOMAIN t = DOMAIN s /\ \A i \in DOMAIN s : i # v => t[i] = s[i] BY <1>6
  <2>2. \A i \in DOMAIN s : entries[i].limited => i # v BY <1>2, <1>6
  <2>3. QED BY <2>1, <2>2
<1>7. QED BY <1>3, <1>4, <1>5, <1>6

Keeps(s, t, a) ==
  \A i \in DOMAIN s : Running(s[i].b, a) => i \in DOMAIN t /\ t[i].id = s[i].id /\ Running(t[i].b, a)
KeepsKinds(s, t, a) ==
  \A i \in DOMAIN s : \A k \in L!BucketKinds :
    Running(s[i].b[k], a) => i \in DOMAIN t /\ t[i].id = s[i].id /\ Running(t[i].b[k], a)

Nearness(proximity) == \A n \in Nodes : proximity[n].hops \in Nat

LEMMA ElapsedInt ==
  ASSUME NEW t \in Int, NEW a \in Int
  PROVE  L!Elapsed(t, a) \in Int
<1>1. t - a \in Int OBVIOUS
<1>2. QED BY <1>1, WindowPositive DEF L!Elapsed

LEMMA WithDestKeeps ==
  ASSUME NEW s, DestsOK(s), NEW id, NEW t \in Int, NEW proximity, Nearness(proximity),
         NEW a, Recent(a, t)
  PROVE  Keeps(s, L!WithDest(s, id, t, proximity), a)
<1> DEFINE entry == [id |-> id, b |-> L!Fresh(t), senders |-> {}]
           entries == [i \in DOMAIN s |-> [id |-> s[i].id, limited |-> L!LimitedAt(s[i].b, t, DestClear),
                                           age |-> L!Elapsed(t, s[i].b.start)]]
           u == L!Placed(s, MaxDests, entry, entries, proximity)
<1>1. CASE L!Find(s, id) # 0
  <2>1. L!WithDest(s, id, t, proximity) = s BY <1>1 DEF L!WithDest
  <2>2. QED BY <2>1 DEF Keeps
<1>2. CASE L!Find(s, id) = 0
  <2>1. L!WithDest(s, id, t, proximity) = u BY <1>2 DEF L!WithDest
  <2>2. IsSeq(s) /\ \E n \in Nat : DOMAIN s = 1..n BY SeqFacts DEF DestsOK, Table
  <2>3. DOMAIN entries = DOMAIN s OBVIOUS
  <2>4. \A i \in DOMAIN s : entries[i].id \in Nodes /\ entries[i].age \in Int
    BY ElapsedInt DEF DestsOK, Table, IsBucket
  <2>5. \A i \in DOMAIN s : Running(s[i].b, a) => entries[i].limited
    <3> SUFFICES ASSUME NEW i \in DOMAIN s, Running(s[i].b, a) PROVE L!LimitedAt(s[i].b, t, DestClear)
        OBVIOUS
    <3>1. QED BY DEF Running, Recent, L!LimitedAt, L!Windows
  <2> HIDE DEF entry, entries
  <2>6. Offers(entries, proximity) BY <2>2, <2>3, <2>4 DEF Offers, Nearness
  <2>7. \A i \in DOMAIN s : entries[i].limited => i \in DOMAIN u /\ u[i] = s[i]
    <3> DEFINE max == MaxDests
    <3> HIDE DEF max
    <3>1. \A i \in DOMAIN s : entries[i].limited =>
            /\ i \in DOMAIN L!Placed(s, max, entry, entries, proximity)
            /\ L!Placed(s, max, entry, entries, proximity)[i] = s[i]
      BY <2>2, <2>3, <2>6, PlacedKeeps
    <3>2. QED BY <3>1 DEF max
  <2> HIDE DEF u
  <2>8. QED BY <2>1, <2>5, <2>7 DEF Keeps
<1>3. QED BY <1>1, <1>2

LEMMA WithRelayKeeps ==
  ASSUME NEW s, RelaysOK(s), NEW id, NEW t \in Int, NEW proximity, Nearness(proximity),
         NEW a, Recent(a, t)
  PROVE  Keeps(s, L!WithRelay(s, id, t, proximity), a)
<1> DEFINE entry == [id |-> id, b |-> L!Fresh(t)]
           entries == [i \in DOMAIN s |-> [id |-> s[i].id, limited |-> L!LimitedAt(s[i].b, t, RelayClearFloor),
                                           age |-> L!Elapsed(t, s[i].b.start)]]
           u == L!Placed(s, MaxRelays, entry, entries, proximity)
<1>1. CASE L!Find(s, id) # 0
  <2>1. L!WithRelay(s, id, t, proximity) = s BY <1>1 DEF L!WithRelay
  <2>2. QED BY <2>1 DEF Keeps
<1>2. CASE L!Find(s, id) = 0
  <2>1. L!WithRelay(s, id, t, proximity) = u BY <1>2 DEF L!WithRelay
  <2>2. IsSeq(s) /\ \E n \in Nat : DOMAIN s = 1..n BY SeqFacts DEF RelaysOK, Table
  <2>3. DOMAIN entries = DOMAIN s OBVIOUS
  <2>4. \A i \in DOMAIN s : entries[i].id \in Nodes /\ entries[i].age \in Int
    BY ElapsedInt DEF RelaysOK, Table, IsBucket
  <2>5. \A i \in DOMAIN s : Running(s[i].b, a) => entries[i].limited
    <3> SUFFICES ASSUME NEW i \in DOMAIN s, Running(s[i].b, a) PROVE L!LimitedAt(s[i].b, t, RelayClearFloor)
        OBVIOUS
    <3>1. QED BY DEF Running, Recent, L!LimitedAt, L!Windows
  <2> HIDE DEF entry, entries
  <2>6. Offers(entries, proximity) BY <2>2, <2>3, <2>4 DEF Offers, Nearness
  <2>7. \A i \in DOMAIN s : entries[i].limited => i \in DOMAIN u /\ u[i] = s[i]
    <3> DEFINE max == MaxRelays
    <3> HIDE DEF max
    <3>1. \A i \in DOMAIN s : entries[i].limited =>
            /\ i \in DOMAIN L!Placed(s, max, entry, entries, proximity)
            /\ L!Placed(s, max, entry, entries, proximity)[i] = s[i]
      BY <2>2, <2>3, <2>6, PlacedKeeps
    <3>2. QED BY <3>1 DEF max
  <2> HIDE DEF u
  <2>8. QED BY <2>1, <2>5, <2>7 DEF Keeps
<1>3. QED BY <1>1, <1>2

LEMMA WithOriginatorKeeps ==
  ASSUME NEW s, OrigOK(s), NEW id, NEW t \in Int, NEW proximity, Nearness(proximity),
         NEW a, Recent(a, t)
  PROVE  KeepsKinds(s, L!WithOriginator(s, id, t, proximity), a)
<1> DEFINE entry == [id |-> id, seen |-> t, b |-> [k \in L!BucketKinds |-> L!Fresh(t)]]
           entries == [i \in DOMAIN s |-> [id |-> s[i].id, limited |-> L!OriginatorLimited(s[i], t),
                                           age |-> L!Elapsed(t, s[i].seen)]]
           u == L!Placed(s, MaxOriginators, entry, entries, proximity)
<1>1. CASE L!Find(s, id) # 0
  <2> DEFINE at == L!Find(s, id)
             w == [s EXCEPT ![at].seen = t]
  <2>1. L!WithOriginator(s, id, t, proximity) = w BY <1>1 DEF L!WithOriginator
  <2> HIDE DEF at
  <2>2. DOMAIN w = DOMAIN s /\ \A i \in DOMAIN s : w[i].id = s[i].id /\ w[i].b = s[i].b
    BY DEF OrigOK, Table, OrigFields
  <2> HIDE DEF w
  <2>3. QED BY <2>1, <2>2 DEF KeepsKinds
<1>2. CASE L!Find(s, id) = 0
  <2>1. L!WithOriginator(s, id, t, proximity) = u BY <1>2 DEF L!WithOriginator
  <2>2. IsSeq(s) /\ \E n \in Nat : DOMAIN s = 1..n BY SeqFacts DEF OrigOK, Table
  <2>3. DOMAIN entries = DOMAIN s OBVIOUS
  <2>4. \A i \in DOMAIN s : entries[i].id \in Nodes /\ entries[i].age \in Int
    BY ElapsedInt DEF OrigOK, Table, OrigBuckets
  <2>5. \A i \in DOMAIN s : \A k \in L!BucketKinds : Running(s[i].b[k], a) => entries[i].limited
    <3> SUFFICES ASSUME NEW i \in DOMAIN s, NEW k \in L!BucketKinds, Running(s[i].b[k], a)
                 PROVE  L!OriginatorLimited(s[i], t)
        OBVIOUS
    <3>1. L!LimitedAt(s[i].b[k], t, L!OriginatorClear(k))
      BY DEF Running, Recent, L!LimitedAt, L!Windows
    <3>2. QED BY <3>1 DEF L!OriginatorLimited
  <2> HIDE DEF entry, entries
  <2>6. Offers(entries, proximity) BY <2>2, <2>3, <2>4 DEF Offers, Nearness
  <2>7. \A i \in DOMAIN s : entries[i].limited => i \in DOMAIN u /\ u[i] = s[i]
    <3> DEFINE max == MaxOriginators
    <3> HIDE DEF max
    <3>1. \A i \in DOMAIN s : entries[i].limited =>
            /\ i \in DOMAIN L!Placed(s, max, entry, entries, proximity)
            /\ L!Placed(s, max, entry, entries, proximity)[i] = s[i]
      BY <2>2, <2>3, <2>6, PlacedKeeps
    <3>2. QED BY <3>1 DEF max
  <2> HIDE DEF u
  <2>8. QED BY <2>1, <2>5, <2>7 DEF KeepsKinds
<1>3. QED BY <1>1, <1>2

KeepsBans(l, m, a) ==
  KeepsKinds(l.orig, m.orig, a) /\ Keeps(l.relays, m.relays, a) /\ Keeps(l.dests, m.dests, a)

LEMMA KeepsTransitive ==
  ASSUME NEW l, NEW m, NEW n, NEW a, KeepsBans(l, m, a), KeepsBans(m, n, a)
  PROVE  KeepsBans(l, n, a)
<1>1. KeepsKinds(l.orig, n.orig, a)
  <2>1. \A r, s, t : KeepsKinds(r, s, a) /\ KeepsKinds(s, t, a) => KeepsKinds(r, t, a) BY DEF KeepsKinds
  <2>2. QED BY <2>1 DEF KeepsBans
<1>2. Keeps(l.relays, n.relays, a) /\ Keeps(l.dests, n.dests, a)
  <2>1. \A r, s, t : Keeps(r, s, a) /\ Keeps(s, t, a) => Keeps(r, t, a) BY DEF Keeps
  <2>2. QED BY <2>1 DEF KeepsBans
<1>3. QED BY <1>1, <1>2 DEF KeepsBans

LEMMA KeepsSame ==
  ASSUME NEW s, NEW a
  PROVE  Keeps(s, s, a) /\ KeepsKinds(s, s, a)
BY DEF Keeps, KeepsKinds

LEMMA DestAfterKeeps ==
  ASSUME NEW e, DOMAIN e = DestFields, IsBucket(e.b), NEW p, NEW t, NEW a, Recent(a, t),
         Running(e.b, a), NEW f, f = L!DestAfter(e, p, t)
  PROVE  f.id = e.id /\ Running(f.b, a)
<1> DEFINE charge == IF L!ChargesDest(p) THEN 1 ELSE 0
           kept == IF L!Elapsed(t, e.b.start) >= Window THEN {} ELSE e.senders
           noted == IF L!ChargesDest(p) /\ (p.from \in kept \/ L!Cardinality(kept) < MaxSenders)
                    THEN kept \cup {p.from} ELSE kept
           c == L!CheckAndUpdate(e.b, DestTrip, DestClear, charge, t)
<1>1. e.b.limited BY DEF Running
<1>2. f = [e EXCEPT !.senders = noted,
                    !.b = IF e.b.limited \/ L!Cardinality(noted) >= DestMinSenders
                          THEN L!CheckAndUpdate(@, DestTrip, DestClear, charge, t)
                          ELSE L!Counted(@, DestClear, charge, t)]
  BY DEF L!DestAfter
<1> HIDE DEF kept, noted, charge
<1>3. f.id = e.id /\ f.b = c BY <1>1, <1>2 DEF DestFields
<1> DEFINE b == e.b
           trip == DestTrip
           clear == DestClear
<1>4. IsBucket(b) /\ Running(b, a) OBVIOUS
<1> HIDE DEF b, trip, clear
<1>5. Running(L!CheckAndUpdate(b, trip, clear, charge, t), a) BY <1>4, ChargeKeeps
<1>6. QED BY <1>3, <1>5 DEF b, trip, clear

LEMMA DestKeeps ==
  ASSUME NEW l, LimOK(l), NEW p, NEW t \in Int, NEW proximity, Nearness(proximity), NEW m,
         L!IsUnicast(p) => p.to \in Nodes,
         m = L!ChargeDest(l, p, t, proximity), NEW a, Recent(a, t)
  PROVE  KeepsBans(l, m, a)
<1> DEFINE o == l.dests
           id == p.to
           s == IF L!ChargesDest(p) THEN L!WithDest(o, id, t, proximity) ELSE o
           i == L!Find(s, id)
           e == L!DestAfter(s[i], p, t)
           d == IF i = 0 THEN s ELSE [s EXCEPT ![i] = e]
<1>1. DestsOK(o) /\ DOMAIN l = LimFields BY DEF LimOK
<1>2. L!ChargesDest(p) => id \in Nodes BY DEF L!ChargesDest
<1>3. m = l \/ m = [l EXCEPT !.dests = d] BY DEF L!ChargeDest
<1> HIDE DEF o, id
<1>4. DestsOK(s) /\ Keeps(o, s, a)
  <2>1. CASE L!ChargesDest(p) BY <1>1, <1>2, <2>1, WithDestOK, WithDestKeeps
  <2>2. CASE ~L!ChargesDest(p) BY <1>1, <2>2, KeepsSame
  <2>3. QED BY <2>1, <2>2
<1> HIDE DEF s
<1>5. Keeps(s, d, a)
  <2>1. CASE i = 0
    <3>1. d = s BY <2>1
    <3>2. QED BY <3>1, KeepsSame
  <2>2. CASE i # 0
    <3>1. i \in DOMAIN s BY <1>4, <2>2, FindFacts DEF DestsOK
    <3>2. DOMAIN s[i] = DestFields /\ IsBucket(s[i].b) BY <1>4, <3>1 DEF DestsOK, Table
    <3>3. Running(s[i].b, a) => e.id = s[i].id /\ Running(e.b, a)
      <4> DEFINE x == s[i]
      <4>1. DOMAIN x = DestFields /\ IsBucket(x.b) BY <3>2
      <4> HIDE DEF x
      <4>2. Running(x.b, a) => L!DestAfter(x, p, t).id = x.id /\ Running(L!DestAfter(x, p, t).b, a)
        BY <4>1, DestAfterKeeps
      <4>3. QED BY <4>2 DEF x
    <3> HIDE DEF e, i
    <3>4. DOMAIN d = DOMAIN s /\ d[i] = e /\ \A j \in DOMAIN s : j # i => d[j] = s[j] BY <2>2, <3>1
    <3> HIDE DEF d
    <3>5. QED BY <3>3, <3>4 DEF Keeps
  <2>3. QED BY <2>1, <2>2
<1> HIDE DEF d
<1>6. Keeps(o, d, a) BY <1>4, <1>5 DEF Keeps
<1>7. m.orig = l.orig /\ m.relays = l.relays /\ m.dests \in {o, d} BY <1>1, <1>3 DEF LimFields, o
<1>8. Keeps(o, m.dests, a) BY <1>6, <1>7, KeepsSame
<1>9. QED BY <1>7, <1>8, KeepsSame DEF KeepsBans, o

LEMMA OriginatorKeeps ==
  ASSUME NEW l, LimOK(l), NEW p, NEW t \in Int, NEW proximity, Nearness(proximity), NEW m,
         p.from \in Nodes,
         m = L!ChargeOriginator(l, p, t, proximity), NEW a, Recent(a, t)
  PROVE  KeepsBans(l, m, a)
<1> DEFINE id == p.from
           o == l.orig
           s == L!WithOriginator(o, id, t, proximity)
           i == L!Find(s, id)
           k == L!BucketOf(p.port)
           trip == Trip[k]
           clear == L!OriginatorClear(k)
           d == IF i = 0 THEN s ELSE ChargedAt(s, i, k, trip, clear, t)
<1>1. OrigOK(o) /\ DOMAIN l = LimFields /\ id \in Nodes BY DEF LimOK
<1>2. m = [l EXCEPT !.orig = d] BY DEF L!ChargeOriginator, ChargedAt
<1>3. k \in L!BucketKinds BY KindOfPort
<1> HIDE DEF o, id, k
<1>4. OrigOK(s) /\ KeepsKinds(o, s, a) BY <1>1, WithOriginatorOK, WithOriginatorKeeps
<1> HIDE DEF s
<1>5. i # 0 => i \in DOMAIN s /\ s[i].id = id BY <1>4, FindFacts DEF OrigOK
<1> HIDE DEF i, trip, clear
<1>6. KeepsKinds(s, d, a)
  <2>1. CASE i = 0
    <3>1. d = s BY <2>1
    <3>2. QED BY <3>1, KeepsSame
  <2>2. CASE i # 0
    <3>1. d = ChargedAt(s, i, k, trip, clear, t) BY <2>2
    <3>2. i \in DOMAIN s /\ s[i].id = id BY <1>5, <2>2
    <3> HIDE DEF d
    <3>3. /\ OrigOK(d) /\ DOMAIN d = DOMAIN s
          /\ \A j \in DOMAIN s : d[j].id = s[j].id
          /\ \A j \in DOMAIN s : j # i => d[j] = s[j]
          /\ Current(d[i].b[k], t)
          /\ \A q \in L!BucketKinds : q # k => d[i].b[q] = s[i].b[q]
      <4>1. OrigOK(s) BY <1>4
      <4>2. QED BY <1>3, <3>1, <3>2, <4>1, ChargedTable
    <3> DEFINE b == s[i].b[k]
               one == 1
    <3>4. DOMAIN s[i] = OrigFields /\ DOMAIN s[i].b = L!BucketKinds /\ IsBucket(b)
      BY <1>3, <1>4, <3>2 DEF OrigOK, Table, OrigBuckets
    <3>5. d[i].b[k] = L!CheckAndUpdate(b, trip, clear, one, t)
      BY <1>3, <3>1, <3>2, <3>4 DEF ChargedAt, OrigFields
    <3> HIDE DEF b, one
    <3>6. Running(b, a) => Running(d[i].b[k], a) BY <3>4, <3>5, ChargeKeeps
    <3>7. QED BY <3>3, <3>6 DEF KeepsKinds, b
  <2>3. QED BY <2>1, <2>2
<1> HIDE DEF d
<1>7. KeepsKinds(o, d, a) BY <1>4, <1>6 DEF KeepsKinds
<1>8. m.orig = d /\ m.relays = l.relays /\ m.dests = l.dests BY <1>1, <1>2 DEF LimFields
<1>9. QED BY <1>7, <1>8, KeepsSame DEF KeepsBans, o

LEMMA RelayKeeps ==
  ASSUME NEW l, LimOK(l), NEW p, NEW t \in Int, NEW proximity, Nearness(proximity), NEW m,
         L!ResolvedRelay(p) => p.relay \in Nodes,
         m = L!ChargeRelay(l, p, t, proximity), NEW a, Recent(a, t)
  PROVE  KeepsBans(l, m, a)
<1> DEFINE air == IF p.air = 0 THEN RefAirtime ELSE p.air
           trip == L!RelayTrip(air, p.util)
           clear == L!RelayClear(trip)
           u == IF l.unresolved.start = 0 /\ l.unresolved.n = 0 /\ ~l.unresolved.limited
                THEN [l.unresolved EXCEPT !.start = t] ELSE l.unresolved
           r == l.relays
           id == p.relay
           s == L!WithRelay(r, id, t, proximity)
           i == L!Find(s, id)
           d == IF i = 0 THEN s ELSE RelayChargedAt(s, i, trip, clear, air, t)
<1>1. DOMAIN l = LimFields /\ RelaysOK(r) BY DEF LimOK
<1>2. CASE L!ResolvedRelay(p)
  <2>1. m = [l EXCEPT !.unresolved = u, !.relays = d] BY <1>2 DEF L!ChargeRelay, RelayChargedAt
  <2>2. id \in Nodes BY <1>2
  <2> HIDE DEF u, trip, clear, air, r, id
  <2>3. RelaysOK(s) /\ Keeps(r, s, a) BY <1>1, <2>2, WithRelayOK, WithRelayKeeps
  <2> HIDE DEF s
  <2>4. i # 0 => i \in DOMAIN s BY <2>3, FindFacts DEF RelaysOK
  <2> HIDE DEF i
  <2>5. Keeps(s, d, a)
    <3>1. CASE i = 0
      <4>1. d = s BY <3>1
      <4>2. QED BY <4>1, KeepsSame
    <3>2. CASE i # 0
      <4> DEFINE b == s[i].b
                 c == L!CheckAndUpdate(b, trip, clear, air, t)
                 e == [s[i] EXCEPT !.b = c]
      <4>1. DOMAIN s[i] = RelayFields /\ IsBucket(b) BY <2>3, <2>4, <3>2 DEF RelaysOK, Table
      <4>2. d = [s EXCEPT ![i] = e] BY <3>2, <4>1 DEF RelayChargedAt, RelayFields
      <4> HIDE DEF b
      <4>3. Running(b, a) => Running(c, a) BY <4>1, ChargeKeeps
      <4> HIDE DEF c
      <4>4. e.id = s[i].id /\ e.b = c BY <4>1 DEF RelayFields
      <4> HIDE DEF e
      <4>5. DOMAIN d = DOMAIN s /\ d[i] = e /\ \A j \in DOMAIN s : j # i => d[j] = s[j]
        BY <2>4, <3>2, <4>2
      <4> HIDE DEF d
      <4>6. QED BY <4>3, <4>4, <4>5 DEF Keeps, b
    <3>3. QED BY <3>1, <3>2
  <2> HIDE DEF d
  <2>6. Keeps(r, d, a) BY <2>3, <2>5 DEF Keeps
  <2>7. m.relays = d /\ m.orig = l.orig /\ m.dests = l.dests BY <1>1, <2>1 DEF LimFields
  <2>8. QED BY <2>6, <2>7, KeepsSame DEF KeepsBans, r
<1>3. CASE ~L!ResolvedRelay(p)
  <2>1. \E x : m = [l EXCEPT !.unresolved = x] BY <1>3 DEF L!ChargeRelay
  <2>2. m.relays = l.relays /\ m.orig = l.orig /\ m.dests = l.dests BY <1>1, <2>1 DEF LimFields
  <2>3. QED BY <2>2, KeepsSame DEF KeepsBans
<1>4. QED BY <1>2, <1>3

LEMMA SameTablesKeep ==
  ASSUME NEW l, NEW m, m.orig = l.orig, m.relays = l.relays, m.dests = l.dests, NEW a
  PROVE  KeepsBans(l, m, a)
BY KeepsSame DEF KeepsBans

(* No verdict ends a recent ban. *)
LEMMA VerdictKeeps ==
  ASSUME NEW l, LimOK(l), NEW p, KnownPacket(p), NEW t \in Int, NEW proximity, Nearness(proximity),
         NEW v, v = L!ShouldDrop(l, p, t, proximity), NEW at, Recent(at, t)
  PROVE  KeepsBans(l, v.l, at)
<1>1. CASE L!Exempt(p)
  <2>1. v.l = l BY <1>1 DEF L!ShouldDrop
  <2>2. QED BY <2>1, SameTablesKeep
<1>2. CASE ~L!Exempt(p)
  <2> DEFINE a == [l EXCEPT !.boot = IF @ = Never THEN t ELSE @]
             b == L!ChargeDest(a, p, t, proximity)
             id == p.from
             n == IF L!BucketOf(p.port) = "unknown" THEN b ELSE L!NoteOriginator(b, id, t)
             c == L!ChargeOriginator(n, p, t, proximity)
             d == L!ChargeYoung(c, p, t)
             r == L!ChargeRelay(d, p, t, proximity)
  <2>1. v = L!AfterDest(b, p, t, proximity) BY <1>2 DEF L!ShouldDrop
  <2>2. d = L!AfterOriginator(b, p, t, proximity) BY DEF L!AfterOriginator
  <2>3. LimOK(a) /\ KeepsBans(l, a, at)
    <3>1. /\ DOMAIN a = LimFields /\ a.orig = l.orig /\ a.relays = l.relays /\ a.dests = l.dests
          /\ a.young = l.young /\ a.alumni = l.alumni /\ a.unresolved = l.unresolved
          /\ a.newcomers = l.newcomers
      BY DEF LimOK, LimFields
    <3> HIDE DEF a
    <3>2. QED BY <3>1, SameTablesKeep DEF LimOK
  <2> HIDE DEF a
  <2>4. L!IsUnicast(p) => p.to \in Nodes BY <1>2 DEF KnownPacket
  <2>5. LimOK(b) /\ KeepsBans(a, b, at) BY <2>3, <2>4, DestStep, DestKeeps
  <2> HIDE DEF b
  <2>6. KeepsBans(l, b, at) BY <2>3, <2>5, KeepsTransitive
  <2>7. CASE L!DestFlagged(b, p) \/ L!ToLimitedDest(b, p, t)
    <3>1. v.l = b BY <2>1, <2>7 DEF L!AfterDest
    <3>2. QED BY <2>6, <3>1
  <2>8. CASE ~(L!DestFlagged(b, p) \/ L!ToLimitedDest(b, p, t))
    <3>1. v = L!AfterSender(d, p, t, proximity) BY <2>1, <2>2, <2>8 DEF L!AfterDest
    <3>2. LimOK(n) /\ SameBudgets(b, n)
      <4>4. id \in Nodes BY DEF KnownPacket
      <4> HIDE DEF id
      <4>1. LimOK(L!NoteOriginator(b, id, t)) /\ SameBudgets(b, L!NoteOriginator(b, id, t))
        BY <2>5, <4>4, YoungStep
      <4>2. SameBudgets(b, b) BY <2>5 DEF SameBudgets, LimOK
      <4>3. QED BY <2>5, <4>1, <4>2
    <3> HIDE DEF n
    <3>3. KeepsBans(l, n, at) BY <2>6, <3>2, SameTablesKeep, KeepsTransitive DEF SameBudgets
    <3>4. p.from \in Nodes BY DEF KnownPacket
    <3>5. LimOK(c) /\ KeepsBans(n, c, at) BY <3>2, <3>4, OriginatorStep, OriginatorKeeps
    <3> HIDE DEF c
    <3>6. KeepsBans(l, c, at) BY <3>3, <3>5, KeepsTransitive
    <3>7. LimOK(d) /\ SameButNewcomers(c, d) BY <3>5, SharedStep
    <3> HIDE DEF d
    <3>8. KeepsBans(l, d, at) BY <3>6, <3>7, SameTablesKeep, KeepsTransitive DEF SameButNewcomers
    <3>9. L!ResolvedRelay(p) => p.relay \in Nodes BY DEF KnownPacket
    <3>10. KeepsBans(d, r, at) BY <3>7, <3>9, RelayKeeps
    <3> HIDE DEF r
    <3>11. v.l \in {r, d} BY <3>1 DEF L!AfterSender, r
    <3>12. QED BY <3>8, <3>10, <3>11, KeepsTransitive
  <2>9. QED BY <2>7, <2>8
<1>3. QED BY <1>1, <1>2

-----------------------------------------------------------------------------
(* Every ban that the observer counts is running, from the tick at which   *)
(* its budget tripped: the bucket itself, not only the verdict, is what    *)
(* the next packet leaves alone.                                           *)
BanRuns(l, b, a) == \E x \in BanBuckets(l, b) : Running(x, a)
BanInv ==
  \A e \in seen.bans :
    /\ e.ban \in BanNames
    /\ e.at \in Nat /\ e.at <= ticks /\ ticks - e.at < Window
    /\ BanRuns(lim, e.ban, At(scene, e.at))

LEMMA AgeRecent ==
  ASSUME NEW s \in Scenes, NEW t \in Nat, NEW u \in Nat, t <= u, u - t < Window
  PROVE  Recent(At(s, t), At(s, u))
<1>1. u - t < Clock /\ u - t \in Nat BY Clocks
<1>2. I!Since(At(s, u), At(s, t)) = u - t BY <1>1, AgeOf
<1>3. L!Elapsed(At(s, u), At(s, t)) = u - t BY <1>2 DEF L!Elapsed, I!Since
<1>4. (u - t) \div Window = 0 BY <1>1, WindowPositive
<1>5. QED BY <1>3, <1>4 DEF Recent

BanEntry(l, b, i) == IF b[1] = "originator" THEN BanTable(l, b)[i].b[b[3]] ELSE BanTable(l, b)[i].b

LEMMA BanBucketsAt ==
  ASSUME NEW l, NEW b
  PROVE  /\ \A x \in BanBuckets(l, b) :
              \E i \in DOMAIN BanTable(l, b) : BanTable(l, b)[i].id = b[2] /\ x = BanEntry(l, b, i)
         /\ \A i \in DOMAIN BanTable(l, b) :
              BanTable(l, b)[i].id = b[2] => BanEntry(l, b, i) \in BanBuckets(l, b)
BY DEF BanBuckets, BanEntry

LEMMA BanRunsOn ==
  ASSUME NEW l, NEW m, NEW a, KeepsBans(l, m, a), NEW b \in BanNames, BanRuns(l, b, a)
  PROVE  BanRuns(m, b, a)
<1>1. PICK x \in BanBuckets(l, b) : Running(x, a) BY DEF BanRuns
<1>2. PICK i \in DOMAIN BanTable(l, b) : BanTable(l, b)[i].id = b[2] /\ x = BanEntry(l, b, i)
  BY <1>1, BanBucketsAt
<1>3. \/ b[1] = "originator" /\ b[3] \in L!BucketKinds
      \/ b[1] = "relay" \/ b[1] = "dest"
  BY DEF BanNames
<1>4. i \in DOMAIN BanTable(m, b) /\ BanTable(m, b)[i].id = b[2] /\ Running(BanEntry(m, b, i), a)
  <2>1. CASE b[1] = "originator" /\ b[3] \in L!BucketKinds
    <3> DEFINE k == b[3]
    <3>1. BanTable(l, b) = l.orig /\ BanTable(m, b) = m.orig BY <2>1 DEF BanTable
    <3>2. Running(l.orig[i].b[k], a) /\ k \in L!BucketKinds BY <1>1, <1>2, <2>1, <3>1 DEF BanEntry
    <3>3. i \in DOMAIN m.orig /\ m.orig[i].id = l.orig[i].id /\ Running(m.orig[i].b[k], a)
      BY <1>2, <3>1, <3>2 DEF KeepsBans, KeepsKinds
    <3>4. QED BY <1>2, <2>1, <3>1, <3>3 DEF BanEntry
  <2>2. CASE b[1] = "relay"
    <3>1. b[1] # "originator" BY <2>2
    <3>2. BanTable(l, b) = l.relays /\ BanTable(m, b) = m.relays BY <2>2 DEF BanTable
    <3>3. QED BY <1>1, <1>2, <3>1, <3>2 DEF BanEntry, KeepsBans, Keeps
  <2>3. CASE b[1] = "dest"
    <3>1. b[1] # "originator" /\ b[1] # "relay" BY <2>3
    <3>2. BanTable(l, b) = l.dests /\ BanTable(m, b) = m.dests BY <3>1 DEF BanTable
    <3>3. QED BY <1>1, <1>2, <3>1, <3>2 DEF BanEntry, KeepsBans, Keeps
  <2>4. QED BY <1>3, <2>1, <2>2, <2>3
<1>5. QED BY <1>4, BanBucketsAt DEF BanRuns

(* A ban has one bucket, since a table has one entry for a node. *)
LEMMA OneBanBucket ==
  ASSUME NEW l, LimOK(l), NEW b, NEW x \in BanBuckets(l, b), NEW y \in BanBuckets(l, b)
  PROVE  x = y
<1>1. PICK i \in DOMAIN BanTable(l, b) : BanTable(l, b)[i].id = b[2] /\ x = BanEntry(l, b, i)
  BY BanBucketsAt
<1>2. PICK j \in DOMAIN BanTable(l, b) : BanTable(l, b)[j].id = b[2] /\ y = BanEntry(l, b, j)
  BY BanBucketsAt
<1>3. BanTable(l, b) \in {l.orig, l.relays, l.dests} BY DEF BanTable
<1>4. \E f : Table(BanTable(l, b), f) BY <1>3 DEF LimOK, OrigOK, RelaysOK, DestsOK
<1>5. i = j BY <1>1, <1>2, <1>4 DEF Table
<1>6. QED BY <1>1, <1>2, <1>5

LEMMA TrippedRuns ==
  ASSUME NEW l, NEW m, LimOK(m), NEW b \in Tripped(l, m)
  PROVE  b \in BanNames /\ BanRuns(m, b, now)
<1>1. PICK x \in BanBuckets(m, b) : x.start = now BY DEF Tripped
<1>2. b \in BanNames /\ \E y \in BanBuckets(m, b) : L!LimitedAt(y, now, BanClear(b)) BY DEF Tripped, Bans
<1>3. PICK y \in BanBuckets(m, b) : L!LimitedAt(y, now, BanClear(b)) BY <1>2
<1>4. y.limited BY <1>3 DEF L!LimitedAt
<1>5. x = y BY OneBanBucket
<1>6. QED BY <1>1, <1>2, <1>4, <1>5 DEF BanRuns, Running

LEMMA JudgedBans ==
  ASSUME DOMAIN seen = SeenFields, NEW lp, NEW l, NEW m, NEW drop
  PROVE  Judged(lp, l, m, drop).bans = seen.bans \cup {[ban |-> b, at |-> ticks] : b \in Tripped(l, m)}
BY DEF Judged, SeenFields

LEMMA RememberedBans ==
  ASSUME NEW s, DOMAIN s = SeenFields, NEW c, NEW n
  PROVE  Remembered(s, c, n).bans = s.bans
BY DEF Remembered, SeenFields

LEMMA TransitBans ==
  ASSUME BanInv, LimInv, IdInv, NEW p \in scene.packets, NEW via, Transit(p, via)
  PROVE  BanInv'
<1> DEFINE d == DecodePayload(p)
           lp == LimiterPacket(p, via, d)
           near == scene.proximity
           v == L!ShouldDrop(lim, lp, now, near)
           direct == via.byte = 0
           c == IF direct /\ ~v.drop THEN I!RememberRelayIdentity(cache, p.from, now) ELSE cache
           s == Judged(lp, lim, v.l, v.drop)
           n == p.from
           r == Remembered(s, c, n)
<1>1. /\ lim' = v.l /\ now' = now /\ ticks' = ticks /\ scene' = scene
      /\ seen' = (IF direct /\ ~v.drop THEN r ELSE s)
  BY DEF Transit
<1>2. LimOK(lim) /\ DOMAIN seen = SeenFields /\ now \in Int BY NowInt DEF LimInv
<1>3. KnownPacket(lp) BY TransitKnown
<1>4. Nearness(near) BY SceneNodes DEF Nearness, IdInv
<1>5. scene \in Scenes /\ ticks \in Nat /\ now = At(scene, ticks) BY DEF IdInv
<1> HIDE DEF lp, near, d
<1>6. LimOK(v.l) /\ \A a : Recent(a, now) => KeepsBans(lim, v.l, a)
  <2> HIDE DEF v
  <2>1. v = L!ShouldDrop(lim, lp, now, near) BY DEF v
  <2>2. QED BY <1>2, <1>3, <1>4, <2>1, Verdict, VerdictKeeps
<1> HIDE DEF v, c, direct, n
<1> DEFINE after == v.l
           drop == v.drop
<1>7. DOMAIN s = SeenFields
      /\ s.bans = seen.bans \cup {[ban |-> b, at |-> ticks] : b \in Tripped(lim, after)}
  <2>1. s = Judged(lp, lim, after, drop) OBVIOUS
  <2> HIDE DEF after, drop, s
  <2>2. QED BY <1>2, <2>1, JudgedLast, JudgedBans
<1> HIDE DEF s
<1>8. r.bans = s.bans BY <1>7, RememberedBans
<1> HIDE DEF r
<1>9. seen'.bans = s.bans BY <1>1, <1>8
<1>10. ASSUME NEW e \in seen.bans PROVE BanRuns(v.l, e.ban, At(scene, e.at))
  <2>1. /\ e.ban \in BanNames /\ e.at \in Nat /\ e.at <= ticks /\ ticks - e.at < Window
        /\ BanRuns(lim, e.ban, At(scene, e.at))
    BY DEF BanInv
  <2> DEFINE a == At(scene, e.at)
             b == e.ban
             t == e.at
  <2>2. Recent(a, now)
    <3> HIDE DEF t
    <3>1. Recent(At(scene, t), At(scene, ticks)) BY <1>5, <2>1, AgeRecent DEF t
    <3>2. QED BY <1>5, <3>1 DEF t
  <2>3. b \in BanNames /\ BanRuns(lim, b, a) BY <2>1
  <2> HIDE DEF a, b, t
  <2>4. KeepsBans(lim, after, a) BY <1>6, <2>2
  <2> HIDE DEF after
  <2>5. BanRuns(after, b, a) BY <2>3, <2>4, BanRunsOn
  <2>6. QED BY <2>5 DEF after, a, b
<1>11. ASSUME NEW b \in Tripped(lim, after) PROVE b \in BanNames /\ BanRuns(after, b, At(scene, ticks))
  <2> HIDE DEF after
  <2>1. LimOK(after) BY <1>6 DEF after
  <2>2. QED BY <1>5, <2>1, TrippedRuns
<1>12. ticks <= ticks /\ ticks - ticks < Window BY <1>5, WindowPositive
<1>13. ASSUME NEW e \in seen'.bans
       PROVE  /\ e.ban \in BanNames
              /\ e.at \in Nat /\ e.at <= ticks /\ ticks - e.at < Window
              /\ BanRuns(v.l, e.ban, At(scene, e.at))
  <2>1. CASE e \in seen.bans BY <1>10, <2>1 DEF BanInv
  <2>2. CASE \E b \in Tripped(lim, after) : e = [ban |-> b, at |-> ticks]
    <3>1. PICK b \in Tripped(lim, after) : e = [ban |-> b, at |-> ticks] BY <2>2
    <3>2. e.ban = b /\ e.at = ticks BY <3>1
    <3>3. QED BY <1>5, <1>11, <1>12, <3>2
  <2>3. QED BY <1>7, <1>9, <2>1, <2>2
<1>14. QED BY <1>1, <1>13 DEF BanInv

LEMMA OtherBans ==
  ASSUME BanInv, LimInv, IdInv, [Next]_vars, ~\E p \in scene.packets, via \in scene.via : Transit(p, via)
  PROVE  BanInv'
<1>1. DOMAIN seen = SeenFields BY DEF LimInv
<1>2. lim' = lim /\ scene' = scene
  <2>1. CASE UNCHANGED vars BY <2>1 DEF vars
  <2>2. CASE \E p \in scene.packets, via \in scene.via : ForUs(p, via) BY <2>2 DEF ForUs
  <2>3. CASE Tick BY <2>3 DEF Tick
  <2>4. CASE Maintain BY <2>4 DEF Maintain
  <2>5. CASE Poll BY <2>5 DEF Poll
  <2>6. CASE \E n \in Nodes : Forget(n) BY <2>6 DEF Forget
  <2>7. CASE \E preset \in BOOLEAN : RadioReconfigured(preset) BY <2>7 DEF RadioReconfigured
  <2>8. QED BY <2>1, <2>2, <2>3, <2>4, <2>5, <2>6, <2>7 DEF Next
<1>3. CASE Tick
  <2>1. ticks' = ticks + 1 /\ seen'.bans = {e \in seen.bans : (ticks + 1) - e.at < Window}
    <3> DEFINE Kept(u) == {e \in seen.bans : u - e.at < Window}
    <3>1. ticks' = ticks + 1 BY <1>3 DEF Tick
    <3>2. seen'.bans = Kept(ticks')
      <4> DEFINE k == Kept(ticks')
                 minted == {e \in seen.minted : ticks' - e.at < Window}
      <4>1. seen' = [seen EXCEPT !.last = None, !.bans = k, !.minted = minted] BY <1>3 DEF Tick
      <4> HIDE DEF k, minted
      <4>2. seen'.bans = k BY <1>1, <4>1 DEF SeenFields
      <4>3. QED BY <4>2 DEF k
    <3> HIDE DEF Kept
    <3>3. seen'.bans = Kept(ticks + 1) BY <3>1, <3>2
    <3>4. QED BY <3>1, <3>3 DEF Kept
  <2>2. ticks \in Nat BY DEF IdInv
  <2>3. ASSUME NEW e \in seen'.bans
        PROVE  e.ban \in BanNames /\ e.at \in Nat /\ e.at <= ticks' /\ ticks' - e.at < Window
               /\ BanRuns(lim, e.ban, At(scene, e.at))
    <3>1. e \in seen.bans /\ (ticks + 1) - e.at < Window BY <2>1
    <3>2. e.ban \in BanNames /\ e.at \in Nat /\ e.at <= ticks /\ BanRuns(lim, e.ban, At(scene, e.at))
      BY <3>1 DEF BanInv
    <3>3. e.at <= ticks' /\ ticks' - e.at < Window BY <2>1, <2>2, <3>1, <3>2
    <3>4. QED BY <3>2, <3>3
  <2>4. QED BY <1>2, <2>3 DEF BanInv
<1>4. CASE ~Tick
  <2>1. ticks' = ticks /\ seen'.bans = seen.bans
    <3>1. CASE UNCHANGED vars BY <3>1 DEF vars
    <3>2. CASE \E p \in scene.packets, via \in scene.via : ForUs(p, via)
      <4>1. PICK p, via : ForUs(p, via) BY <3>2
      <4> DEFINE fresh == via.byte = 0 /\ ~IsDuplicate(hist, p)
                 c == IF fresh THEN I!RememberRelayIdentity(cache, p.from, now) ELSE cache
                 n == p.from
                 r == Remembered(seen, c, n)
                 u == IF fresh THEN r ELSE seen
      <4>2. seen' = [u EXCEPT !.last = None] /\ ticks' = ticks BY <4>1 DEF ForUs
      <4> HIDE DEF c, n, fresh
      <4>3. DOMAIN r = SeenFields /\ r.bans = seen.bans BY <1>1, RememberedLast, RememberedBans
      <4> HIDE DEF r
      <4>4. DOMAIN u = SeenFields /\ u.bans = seen.bans BY <1>1, <4>3
      <4> HIDE DEF u
      <4>5. QED BY <4>2, <4>4 DEF SeenFields
    <3>3. CASE Maintain
      <4>1. seen' = Pruned(seen, cache') /\ ticks' = ticks BY <3>3 DEF Maintain
      <4>2. QED BY <1>1, <4>1, ForgottenFields
    <3>4. CASE Poll BY <3>4 DEF Poll
    <3>5. CASE \E n \in Nodes : Forget(n) BY <3>5 DEF Forget
    <3>6. CASE \E preset \in BOOLEAN : RadioReconfigured(preset)
      <4>1. ticks' = ticks /\ seen' \in {seen, NothingHeard(seen)}
        BY <3>6 DEF RadioReconfigured
      <4>2. QED BY <1>1, <4>1, ForgottenFields
    <3>7. QED BY <1>4, <3>1, <3>2, <3>3, <3>4, <3>5, <3>6 DEF Next
  <2>2. QED BY <1>2, <2>1 DEF BanInv
<1>5. QED BY <1>3, <1>4

(* Every ban runs from its trip to the end of its window.                  *)
THEOREM BanInvariant == Spec => []BanInv
<1>1. Init => BanInv
  <2> SUFFICES ASSUME Init PROVE BanInv OBVIOUS
  <2>1. seen.bans = {} BY DEF Init
  <2>2. QED BY <2>1 DEF BanInv
<1>2. BanInv /\ LimInv /\ IdInv /\ [Next]_vars => BanInv'
  BY TransitBans, OtherBans DEF Next
<1>3. QED BY <1>1, <1>2, LimiterInvariant, IdInvariant, PTL DEF Spec

(* should_drop never lifts a ban early: a node that trips its budget as    *)
(* originator, last hop or destination is refused for a whole window,      *)
(* whatever else arrives and whoever needs a slot in the tables            *)
(* (eviction_candidate), and whether the clock wraps meanwhile.            *)
THEOREM BansHold == Spec => []BanHolds
<1>1. BanInv /\ IdInv => BanHolds
  <2> SUFFICES ASSUME BanInv, IdInv, NEW e \in seen.bans PROVE e.ban \in Bans(lim)
      BY DEF BanHolds
  <2>1. scene \in Scenes /\ ticks \in Nat /\ now = At(scene, ticks) BY DEF IdInv
  <2>2. /\ e.ban \in BanNames /\ e.at \in Nat /\ e.at <= ticks /\ ticks - e.at < Window
        /\ BanRuns(lim, e.ban, At(scene, e.at))
    BY DEF BanInv
  <2> DEFINE t == e.at
             a == At(scene, t)
             b == e.ban
             clear == BanClear(b)
  <2>3. t \in Nat /\ t <= ticks /\ ticks - t < Window /\ b \in BanNames /\ BanRuns(lim, b, a) BY <2>2
  <2> HIDE DEF t, b
  <2>4. Recent(a, now) BY <2>1, <2>3, AgeRecent
  <2> HIDE DEF a, clear
  <2>5. PICK x \in BanBuckets(lim, b) : Running(x, a) BY <2>3 DEF BanRuns
  <2>6. L!LimitedAt(x, now, clear) BY <2>4, <2>5, RunningLimited
  <2>7. b \in Bans(lim) BY <2>3, <2>6 DEF Bans, clear
  <2>8. QED BY <2>7 DEF b
<1>2. QED BY <1>1, BanInvariant, IdInvariant, PTL

-----------------------------------------------------------------------------
(* The budget of newcomers.  Arrivals M of the last window, and how many   *)
(* of them came since tick S, at which the window of the bucket began.     *)

From(M, S) == {e \in M : e.at >= S}
Until(M, S) == {e \in M : e.at < S}

Spent(s, tk, M, b, S) ==
  /\ S \in Int /\ S <= tk /\ b.start = At(s, S) /\ b.n \in Nat
  /\ Cardinality(M) <= 2 * (YoungTrip - 1) /\ Cardinality(From(M, S)) <= YoungTrip - 1
  /\ \A e \in M : e.at < S + Window
  /\ ~b.limited => /\ Cardinality(From(M, S)) <= b.n /\ b.n <= YoungTrip - 1
                   /\ Cardinality(Until(M, S)) <= YoungTrip - 1

Minted(M, tk, f) ==
  /\ IsFiniteSet(M)
  /\ \A e \in M : e.at \in Nat /\ e.at <= tk /\ tk - e.at < Window /\ e.frame \in Nat /\ e.frame < f

LEMMA ModShift ==
  ASSUME NEW C \in Nat, C > 0, NEW x \in Int, NEW q \in Int
  PROVE  (x + C * q) % C = x % C
<1> DEFINE p == x \div C
           r == x % C
<1>1. p \in Int /\ r \in 0..(C - 1) /\ x = C * p + r BY ModFacts
<1> HIDE DEF p, r
<1>2. x + C * q \in Int /\ p + q \in Int /\ x + C * q = C * (p + q) + r BY <1>1
<1> DEFINE y == x + C * q
           d == p + q
<1>3. y \in Int /\ d \in Int /\ y = C * d + r BY <1>2
<1> HIDE DEF y, d
<1>4. y % C = r BY <1>1, <1>3, ModUnique
<1>5. QED BY <1>4 DEF y, r

LEMMA ModDiff ==
  ASSUME NEW C \in Nat, C > 0, NEW x \in Int, NEW y \in Int
  PROVE  ((x % C) - (y % C)) % C = (x - y) % C
<1> DEFINE p == x \div C
           r == x % C
           q == y \div C
           u == y % C
           d == r - u
           k == p - q
<1>1. p \in Int /\ r \in 0..(C - 1) /\ x = C * p + r BY ModFacts
<1>2. q \in Int /\ u \in 0..(C - 1) /\ y = C * q + u BY ModFacts
<1> HIDE DEF p, q, r, u
<1>3. d \in Int /\ k \in Int BY <1>1, <1>2
<1>4. x - y = d + C * k BY <1>1, <1>2
<1> HIDE DEF d, k
<1>5. (d + C * k) % C = d % C BY <1>3, ModShift
<1>6. QED BY <1>4, <1>5 DEF d, r, u

(* Where the window of a bucket begins once the bucket is rolled to tick   *)
(* tk, on the clock that does not wrap.                                    *)
LEMMA WindowStart ==
  ASSUME NEW s \in Scenes, NEW tk \in Nat, NEW S \in Int, S <= tk, NEW b, b.start = At(s, S)
  PROVE  /\ L!Windows(b, At(s, tk)) \in Nat
         /\ \E R \in Int :
              /\ S <= R /\ R <= tk /\ tk - R < Window
              /\ L!Windows(b, At(s, tk)) = 0 => At(s, R) = b.start /\ (R = S \/ R >= S + Window)
              /\ L!Windows(b, At(s, tk)) # 0 =>
                   R >= S + Window /\ At(s, R) = (b.start + L!Windows(b, At(s, tk)) * Window) % Clock
<1> DEFINE x == s.start + tk
           y == s.start + S
           d == tk - S
           e == d % Clock
           q == d \div Clock
           w == e \div Window
           r == e % Window
           R == tk - r
           cq == Clock * q
           ww == w * Window
<1>1. s.start \in Nat /\ x \in Int /\ y \in Int /\ d \in Nat /\ x - y = d BY Clocks
<1>2. L!Windows(b, At(s, tk)) = w
  <2>1. L!Elapsed(At(s, tk), b.start) = ((x % Clock) - (y % Clock)) % Clock BY DEF L!Elapsed, At
  <2> HIDE DEF x, y
  <2>2. ((x % Clock) - (y % Clock)) % Clock = (x - y) % Clock BY <1>1, WindowPositive, ModDiff
  <2> HIDE DEF d
  <2>3. L!Elapsed(At(s, tk), b.start) = e BY <1>1, <2>1, <2>2
  <2>4. QED BY <2>3 DEF L!Windows
<1> HIDE DEF d
<1>3. e \in 0..(Clock - 1) /\ q \in Int /\ d = Clock * q + e BY <1>1, WindowPositive, ModFacts
<1>4. q >= 0 BY <1>1, WindowPositive
<1> HIDE DEF e, q
<1>5. r \in 0..(Window - 1) /\ w \in Int /\ e = Window * w + r BY <1>3, WindowPositive, ModFacts
<1>6. w >= 0 BY <1>3, WindowPositive
<1> HIDE DEF w, r
<1>7. cq \in Int /\ ww \in Int /\ ww = Window * w /\ d = cq + ww + r BY <1>3, <1>5, WindowPositive
<1>8. (q = 0 \/ cq >= Clock) /\ cq >= 0
  <2>1. q >= 1 => Clock * q >= Clock BY <1>3, WindowPositive, MulGe
  <2>2. q = 0 => cq = 0 BY WindowPositive
  <2>3. QED BY <1>3, <1>4, <2>1, <2>2, WindowPositive
<1>9. (w = 0 \/ ww >= Window) /\ ww >= 0 /\ (w = 0 => ww = 0)
  <2>1. w >= 1 => Window * w >= Window BY <1>5, WindowPositive, MulGe
  <2>2. w = 0 => ww = 0 BY WindowPositive
  <2>3. QED BY <1>5, <1>6, <1>7, <2>1, <2>2, WindowPositive
<1>10. R \in Int /\ R = S + cq + ww /\ R <= tk /\ tk - R < Window BY <1>5, <1>7, WindowPositive DEF d
<1>11. Window <= Clock BY Clocks
<1>12. At(s, R) = (y + ww) % Clock
  <2> DEFINE z == y + ww
  <2>1. z \in Int /\ s.start + R = z + cq BY <1>1, <1>7, <1>10
  <2> HIDE DEF z, R
  <2>2. (z + cq) % Clock = z % Clock BY <1>3, <2>1, WindowPositive, ModShift
  <2>3. QED BY <2>1, <2>2 DEF At, z
<1>13. (y + ww) % Clock = (b.start + ww) % Clock
  <2> DEFINE j == y \div Clock
             u == y % Clock
             z == u + ww
  <2>1. j \in Int /\ u \in 0..(Clock - 1) /\ y = Clock * j + u BY <1>1, WindowPositive, ModFacts
  <2>2. b.start = u BY DEF At
  <2> HIDE DEF j, u, y
  <2>3. z \in Int /\ y + ww = z + Clock * j BY <1>7, <2>1, WindowPositive
  <2> HIDE DEF z
  <2>4. (z + Clock * j) % Clock = z % Clock BY <2>1, <2>3, WindowPositive, ModShift
  <2>5. QED BY <2>2, <2>3, <2>4 DEF z
<1>14. w = 0 => At(s, R) = b.start
  <2>1. w = 0 => y + ww = y BY <1>1, <1>9
  <2>2. QED BY <1>12, <2>1 DEF At
<1>15. w = 0 => (R = S \/ R >= S + Window)
  <2>1. q = 0 => cq = 0 BY WindowPositive
  <2> HIDE DEF R, cq, ww
  <2>2. QED BY <1>7, <1>8, <1>9, <1>10, <1>11, <2>1, WindowPositive
<1>16. w # 0 => R >= S + Window
  <2> HIDE DEF R, cq, ww
  <2>1. QED BY <1>7, <1>8, <1>9, <1>10, WindowPositive
<1>17. S <= R
  <2> HIDE DEF R, cq, ww
  <2>1. QED BY <1>7, <1>8, <1>9, <1>10
<1>18. w # 0 => At(s, R) = (b.start + w * Window) % Clock BY <1>12, <1>13
<1>19. w \in Nat BY <1>5, <1>6
<1> HIDE DEF R
<1>20. QED BY <1>2, <1>10, <1>14, <1>15, <1>16, <1>17, <1>18, <1>19

LEMMA Counts ==
  ASSUME NEW M, IsFiniteSet(M), NEW S \in Int, NEW R \in Int, \A e \in M : e.at \in Int, S <= R
  PROVE  /\ IsFiniteSet(From(M, S)) /\ IsFiniteSet(Until(M, S))
         /\ Cardinality(M) \in Nat /\ Cardinality(From(M, S)) \in Nat /\ Cardinality(Until(M, S)) \in Nat
         /\ Cardinality(M) <= Cardinality(From(M, S)) + Cardinality(Until(M, S))
         /\ Cardinality(From(M, R)) <= Cardinality(From(M, S))
         /\ Cardinality(From(M, R)) \in Nat
<1>1. From(M, S) \subseteq M /\ Until(M, S) \subseteq M /\ From(M, R) \subseteq From(M, S)
  BY DEF From, Until
<1>2. IsFiniteSet(From(M, S)) /\ IsFiniteSet(Until(M, S)) BY <1>1, FS_Subset
<1>3. IsFiniteSet(From(M, R)) /\ Cardinality(From(M, R)) <= Cardinality(From(M, S)) BY <1>1, <1>2, FS_Subset
<1>4. M = From(M, S) \cup Until(M, S) BY DEF From, Until
<1>5. Cardinality(M) <= Cardinality(From(M, S)) + Cardinality(Until(M, S))
  <2> DEFINE F == From(M, S)
             U == Until(M, S)
             x == Cardinality(F)
             y == Cardinality(U)
             z == Cardinality(F \cap U)
  <2>1. IsFiniteSet(F) /\ IsFiniteSet(U) /\ M = F \cup U BY <1>2, <1>4
  <2>2. F \cap U = {} BY DEF From, Until
  <2> HIDE DEF F, U
  <2>3. Cardinality(F \cup U) = x + y - z BY <2>1, FS_Union
  <2>4. z = 0 BY <2>2, FS_EmptySet
  <2>5. x \in Nat /\ y \in Nat BY <2>1, FS_CardinalityType
  <2> HIDE DEF x, y, z
  <2>6. Cardinality(F \cup U) <= x + y BY <2>3, <2>4, <2>5
  <2>7. Cardinality(M) = Cardinality(F \cup U) BY <2>1
  <2>8. Cardinality(M) <= x + y BY <2>6, <2>7
  <2>9. QED BY <2>8 DEF x, y, F, U
<1>6. QED BY <1>2, <1>3, <1>5, FS_CardinalityType

(* A bucket that is rolled to the present keeps the budget: a window later *)
(* everything of the last Window was counted in the one that ended.        *)
LEMMA RollSpent ==
  ASSUME NEW s \in Scenes, NEW tk \in Nat, NEW M, NEW f, Minted(M, tk, f), NEW b, IsBucket(b),
         NEW S, Spent(s, tk, M, b, S), NEW t, t = At(s, tk), NEW clear, NEW c,
         c = L!Roll(b, t, clear)
  PROVE  \E R : Spent(s, tk, M, c, R) /\ tk - R < Window
<1> DEFINE w == L!Windows(b, t)
           max == YoungTrip - 1
<1>1. S \in Int /\ S <= tk /\ b.start = At(s, S) /\ b.n \in Nat BY DEF Spent
<1>2. YoungTrip \in Nat /\ max \in Nat BY SceneTimes
<1>3. w \in Nat BY <1>1, WindowStart
<1>4. PICK R \in Int :
        /\ S <= R /\ R <= tk /\ tk - R < Window
        /\ w = 0 => At(s, R) = b.start /\ (R = S \/ R >= S + Window)
        /\ w # 0 => R >= S + Window /\ At(s, R) = (b.start + w * Window) % Clock
  BY <1>1, WindowStart
<1>5. \A e \in M : e.at \in Int /\ e.at <= tk /\ tk - e.at < Window /\ e.at < S + Window
  BY DEF Minted, Spent
<1>6. IsFiniteSet(M) BY DEF Minted
<1>7. R >= S + Window => From(M, R) = {} /\ Until(M, R) = M /\ From(M, S) = M
  BY <1>1, <1>4, <1>5, WindowPositive DEF From, Until
<1>8. c.start = At(s, R) /\ c.n \in Nat /\ (w = 0 => c = b) /\ (w # 0 => c.n = 0)
  <2>1. CASE w = 0
    <3>1. c = b BY <2>1 DEF L!Roll
    <3>2. QED BY <1>1, <1>4, <2>1, <3>1
  <2>2. CASE w # 0
    <3> DEFINE lim1 == L!LimitedAt(b, t, clear)
               st == (b.start + w * Window) % Clock
    <3>1. c = [b EXCEPT !.limited = lim1, !.n = 0, !.start = st] BY <2>2 DEF L!Roll
    <3> HIDE DEF lim1, st
    <3>2. c.n = 0 /\ c.start = st BY <3>1 DEF IsBucket, BucketShape
    <3>3. QED BY <1>4, <2>2, <3>2 DEF st
  <2>3. QED BY <2>1, <2>2
<1> HIDE DEF w
<1>9. Cardinality(M) <= 2 * max /\ Cardinality(From(M, S)) <= max BY DEF Spent
<1>10. CASE R = S /\ c = b BY <1>4, <1>10
<1>11. CASE R >= S + Window
  <2>1. Cardinality(M) <= max BY <1>7, <1>9, <1>11
  <2>2. Cardinality(From(M, R)) = 0 BY <1>7, <1>11, FS_EmptySet
  <2>3. Cardinality(Until(M, R)) <= max BY <1>7, <1>11, <2>1
  <2>4. \A e \in M : e.at < R + Window BY <1>1, <1>4, <1>5, <1>11, WindowPositive
  <2>5. ~c.limited => 0 <= c.n /\ c.n <= max
    <3>1. CASE w = 0
      <4>1. c = b BY <1>8, <3>1
      <4>2. QED BY <1>8, <4>1 DEF Spent
    <3>2. CASE w # 0 BY <1>2, <1>8, <3>2
    <3>3. QED BY <3>1, <3>2
  <2>6. QED BY <1>2, <1>4, <1>8, <1>9, <2>2, <2>3, <2>4, <2>5 DEF Spent
<1>12. QED BY <1>4, <1>8, <1>10, <1>11

(* A newcomer's packet is counted; unless it trips the budget or the       *)
(* budget is tripped, there is room for its arrival.                       *)
LEMMA ChargeSpent ==
  ASSUME NEW s \in Scenes, NEW tk \in Nat, NEW M, NEW f, Minted(M, tk, f), NEW b, IsBucket(b),
         NEW S, Spent(s, tk, M, b, S), NEW t, t = At(s, tk), NEW c,
         c = L!CheckAndUpdate(b, YoungTrip, YoungClear, 1, t)
  PROVE  \E R : /\ Spent(s, tk, M, c, R)
                /\ ~c.limited => \A e : e.at = tk /\ e \notin M => Spent(s, tk, M \cup {e}, c, R)
<1> DEFINE clear == YoungClear
           g == [b EXCEPT !.clear = clear]
           h == L!Roll(g, t, clear)
           k == [h EXCEPT !.n = @ + 1]
           max == YoungTrip - 1
<1>1. c = L!TripOf(k, YoungTrip, t) BY DEF L!CheckAndUpdate, L!Counted
<1>2. IsBucket(g) /\ g.start = b.start /\ g.n = b.n /\ g.limited = b.limited
  <2> HIDE DEF clear
  <2>1. QED BY DEF IsBucket, BucketShape
<1>3. Spent(s, tk, M, g, S)
  <2> HIDE DEF g
  <2>1. QED BY <1>2 DEF Spent
<1> HIDE DEF g, clear
<1>4. PICK R : Spent(s, tk, M, h, R) /\ tk - R < Window BY <1>2, <1>3, RollSpent
<1>5. IsBucket(h)
  <2>1. t \in Int BY AtFacts
  <2>2. QED BY <1>2, <2>1, RollCurrent DEF Current
<1> HIDE DEF h
<1>6. IsBucket(k) /\ k.start = h.start /\ k.n = h.n + 1 /\ k.limited = h.limited
  BY <1>5 DEF IsBucket, BucketShape
<1> HIDE DEF k
<1>7. R \in Int /\ R <= tk /\ h.n \in Nat /\ max \in Nat /\ YoungTrip \in Nat
  BY <1>4, SceneTimes DEF Spent
<1>8. IsFiniteSet(M) /\ \A e \in M : e.at \in Int /\ e.at <= tk BY DEF Minted
<1>9. /\ Cardinality(M) \in Nat /\ Cardinality(From(M, R)) \in Nat /\ Cardinality(Until(M, R)) \in Nat
      /\ Cardinality(M) <= Cardinality(From(M, R)) + Cardinality(Until(M, R))
      /\ Cardinality(From(M, tk)) <= Cardinality(From(M, R)) /\ Cardinality(From(M, tk)) \in Nat
  <2>1. tk \in Int OBVIOUS
  <2>2. \A e \in M : e.at \in Int BY <1>8
  <2>3. QED BY <1>7, <1>8, <2>1, <2>2, Counts
<1>10. CASE ~k.limited /\ k.n >= YoungTrip
  <2> DEFINE yes == TRUE
  <2> HIDE DEF yes
  <2>1. c = [k EXCEPT !.limited = yes, !.start = t] BY <1>1, <1>10 DEF L!TripOf, yes
  <2>2. c.limited = yes /\ c.start = t /\ c.n = k.n BY <1>6, <2>1 DEF IsBucket, BucketShape
  <2>3. c.limited BY <2>2 DEF yes
  <2>4. c.n \in Nat BY <1>6, <1>7, <2>2
  <2>5. \A e \in M : e.at < tk + Window BY <1>8, WindowPositive
  <2>6. Cardinality(From(M, tk)) <= YoungTrip - 1 /\ Cardinality(M) <= 2 * (YoungTrip - 1)
    BY <1>4, <1>7, <1>9 DEF Spent
  <2>7. Spent(s, tk, M, c, tk) BY <1>7, <2>2, <2>3, <2>4, <2>5, <2>6 DEF Spent
  <2>8. QED BY <2>3, <2>7
<1>11. CASE ~(~k.limited /\ k.n >= YoungTrip)
  <2>1. c = k BY <1>1, <1>11 DEF L!TripOf
  <2>2. c.limited = h.limited /\ c.start = h.start /\ c.n = h.n + 1 BY <1>6, <2>1
  <2>3. ~c.limited => c.n <= YoungTrip - 1 BY <1>6, <1>7, <1>11, <2>1
  <2>4. Spent(s, tk, M, c, R)
    <3>1. ~c.limited => Cardinality(From(M, R)) <= c.n /\ Cardinality(Until(M, R)) <= YoungTrip - 1
      BY <1>4, <1>7, <1>9, <2>2 DEF Spent
    <3>2. QED BY <1>4, <1>7, <2>2, <2>3, <3>1 DEF Spent
  <2>5. ASSUME ~c.limited, NEW e, e.at = tk, e \notin M PROVE Spent(s, tk, M \cup {e}, c, R)
    <3> DEFINE N == M \cup {e}
               x == Cardinality(From(M, R))
               y == Cardinality(Until(M, R))
    <3>1. From(N, R) = From(M, R) \cup {e} /\ Until(N, R) = Until(M, R)
      BY <1>7, <2>5 DEF From, Until
    <3>0. R <= R BY <1>7
    <3>2. e \notin From(M, R) /\ IsFiniteSet(From(M, R))
      <4>1. IsFiniteSet(From(M, R)) BY <1>7, <1>8, <3>0, Counts
      <4>2. e \notin From(M, R) BY <2>5 DEF From
      <4>3. QED BY <4>1, <4>2
    <3>3. Cardinality(From(N, R)) = x + 1 BY <3>1, <3>2, FS_AddElement
    <3>4. Cardinality(Until(N, R)) = y BY <3>1
    <3>5. IsFiniteSet(N) /\ \A a \in N : a.at \in Int BY <1>8, <2>5, FS_AddElement
    <3> HIDE DEF N
    <3>6. Cardinality(N) \in Nat /\ Cardinality(N) <= Cardinality(From(N, R)) + Cardinality(Until(N, R))
      BY <1>7, <3>0, <3>5, Counts
    <3>7. x \in Nat /\ y \in Nat /\ x <= h.n /\ y <= YoungTrip - 1 /\ h.n + 1 <= YoungTrip - 1
      BY <1>4, <1>9, <2>2, <2>3, <2>5 DEF Spent
    <3> HIDE DEF x, y
    <3>8. Cardinality(N) <= 2 * (YoungTrip - 1) /\ x + 1 <= YoungTrip - 1 /\ x + 1 <= c.n
      BY <1>7, <2>2, <3>3, <3>4, <3>6, <3>7
    <3>9. \A a \in N : a.at < R + Window
      <4>1. tk < R + Window BY <1>4, <1>7, WindowPositive
      <4>2. \A a \in M : a.at < R + Window BY <1>4 DEF Spent
      <4>3. QED BY <2>5, <4>1, <4>2 DEF N
    <3>10. Spent(s, tk, N, c, R)
      <4>1. c.start = At(s, R) /\ c.n \in Nat BY <1>4, <1>7, <2>2 DEF Spent
      <4>2. Cardinality(From(N, R)) <= YoungTrip - 1 /\ Cardinality(From(N, R)) <= c.n
        BY <3>3, <3>8
      <4>3. Cardinality(Until(N, R)) <= YoungTrip - 1 BY <3>4, <3>7
      <4>4. QED BY <1>7, <2>3, <2>5, <3>8, <3>9, <4>1, <4>2, <4>3 DEF Spent
    <3>11. QED BY <3>10 DEF N
  <2>6. QED BY <2>4, <2>5
<1>12. QED BY <1>10, <1>11

-----------------------------------------------------------------------------
(* When nodes were first heard.  f: the tick at which each node was first  *)
(* heard, b: the tick of the first packet, both Never before.  The alumni  *)
(* are no newcomers, and an entry of the young table is no older than the  *)
(* node it stands for.                                                     *)

Heard(f, b, tk, n) == b \in Nat /\ b <= tk /\ f[n] \in Nat /\ f[n] <= tk
Settled(f, b, tk, n) == Heard(f, b, tk, n) /\ (f[n] - b < Warmup \/ tk - f[n] >= YoungAge)
Dated(s, f, b, tk, e) ==
  Heard(f, b, tk, e.id) /\ \E t \in Nat : f[e.id] <= t /\ t <= tk /\ e.first = At(s, t)

Aged(s, f, b, tk, l) ==
  /\ \A n \in l.alumni : n \in Nodes /\ Settled(f, b, tk, n)
  /\ \A i \in DOMAIN l.young : Dated(s, f, b, tk, l.young[i])
Booted(s, b, tk, l) ==
  IF b = Never THEN l.boot = Never ELSE b \in Nat /\ b <= tk /\ l.boot = At(s, b)
Firsts(f, b, tk) == DOMAIN f = Nodes /\ \A n \in Nodes : f[n] = Never \/ Heard(f, b, tk, n)

LEMMA ElapsedTicks ==
  ASSUME NEW s \in Scenes, NEW t \in Nat, NEW tk \in Nat, t <= tk, tk < Clock
  PROVE  L!Elapsed(At(s, tk), At(s, t)) = tk - t
<1>1. tk - t < Clock BY Clocks
<1>2. I!Since(At(s, tk), At(s, t)) = tk - t BY <1>1, AgeOf
<1>3. QED BY <1>2 DEF L!Elapsed, I!Since

(* A node whose entry has aged is settled. *)
LEMMA AgedSettled ==
  ASSUME NEW s \in Scenes, NEW tk \in Nat, tk < Clock, NEW f, NEW b, NEW e, Dated(s, f, b, tk, e),
         NEW t, t = At(s, tk), ~L!YoungActive(e, t)
  PROVE  Settled(f, b, tk, e.id)
<1>1. PICK u \in Nat : f[e.id] <= u /\ u <= tk /\ e.first = At(s, u) BY DEF Dated
<1>2. L!Elapsed(t, e.first) = tk - u BY <1>1, ElapsedTicks
<1>3. tk - u >= YoungAge BY <1>2, SceneTimes DEF L!YoungActive
<1>4. f[e.id] \in Nat /\ Heard(f, b, tk, e.id) BY DEF Dated, Heard
<1>5. tk - f[e.id] >= YoungAge BY <1>1, <1>3, <1>4, SceneTimes
<1>6. QED BY <1>4, <1>5 DEF Settled

(* A newcomer's entry is active, and the warm-up is over for it. *)
LEMMA NewcomerActive ==
  ASSUME NEW s \in Scenes, NEW tk \in Nat, tk < Clock, NEW f, NEW b, NEW n, Heard(f, b, tk, n),
         f[n] - b >= Warmup, tk - f[n] < YoungAge, NEW t, t = At(s, tk)
  PROVE  /\ ~Settled(f, b, tk, n)
         /\ \A l : l.boot = At(s, b) => L!WarmedUp(l, t)
         /\ \A e : Dated(s, f, b, tk, e) /\ e.id = n => L!YoungActive(e, t)
<1>1. b \in Nat /\ b <= tk /\ f[n] \in Nat /\ f[n] <= tk BY DEF Heard
<1>2. ~Settled(f, b, tk, n) BY <1>1, SceneTimes DEF Settled
<1>3. L!Elapsed(t, At(s, b)) = tk - b /\ At(s, b) # Never BY <1>1, ElapsedTicks, AtFacts
<1>4. tk - b >= Warmup BY <1>1, SceneTimes
<1>5. \A l : l.boot = At(s, b) => L!WarmedUp(l, t) BY <1>3, <1>4 DEF L!WarmedUp
<1>6. ASSUME NEW e, Dated(s, f, b, tk, e), e.id = n PROVE L!YoungActive(e, t)
  BY <1>2, <1>6, AgedSettled
<1>7. QED BY <1>2, <1>5, <1>6

LEMMA EarlySettled ==
  ASSUME NEW s \in Scenes, NEW tk \in Nat, tk < Clock, NEW f, NEW b, NEW n, Heard(f, b, tk, n),
         NEW l, l.boot = At(s, b), NEW t, t = At(s, tk), ~L!WarmedUp(l, t)
  PROVE  Settled(f, b, tk, n)
<1>1. b \in Nat /\ b <= tk /\ f[n] \in Nat /\ f[n] <= tk BY DEF Heard
<1>2. L!Elapsed(t, At(s, b)) = tk - b /\ At(s, b) # Never BY <1>1, ElapsedTicks, AtFacts
<1>3. ~(tk - b >= Warmup) BY <1>2 DEF L!WarmedUp
<1>4. f[n] - b < Warmup BY <1>1, <1>3, SceneTimes
<1>5. QED BY <1>4 DEF Settled

(* expire_if_old and note_originator keep the ages, and a node that they    *)
(* note is settled, in the young table, or crowded out of it.              *)
Noted(l, id, t) ==
  \/ id \in l.alumni \/ ~L!WarmedUp(l, t) \/ L!YoungTableFull(l, t)
  \/ \E i \in DOMAIN l.young : l.young[i].id = id

Thinned(l, i, m) ==
  /\ SameBudgets(l, m) /\ YoungOK(m.young, m.alumni)
  /\ m.alumni \in {l.alumni, l.alumni \cup {l.young[i].id}}
  /\ \A j \in DOMAIN m.young : \E k \in DOMAIN l.young : m.young[j] = l.young[k]

LEMMA RemovedThinned ==
  ASSUME NEW l, LimOK(l), NEW i \in DOMAIN l.young, NEW m,
         m = L!RemoveYoungAt(L!AddAlumni(l, l.young[i].id), i)
  PROVE  Thinned(l, i, m)
<1> DEFINE a == L!AddAlumni(l, l.young[i].id)
<1>1. a = L!AddAlumni(l, l.young[i].id) /\ m = L!RemoveYoungAt(a, i) OBVIOUS
<1> HIDE DEF a
<1>2. SameBudgets(l, m) /\ YoungOK(m.young, m.alumni) BY <1>1, RemovedFacts
<1>3. m.alumni \in {l.alumni, l.alumni \cup {l.young[i].id}} BY <1>1, RemovedFacts
<1>4. \A j \in DOMAIN m.young : \E k \in DOMAIN l.young : m.young[j] = l.young[k]
  BY <1>1, RemovedFacts
<1>5. QED BY <1>2, <1>3, <1>4 DEF Thinned

LEMMA ExpireAges ==
  ASSUME NEW s \in Scenes, NEW tk \in Nat, tk < Clock, NEW f, NEW b, NEW l, LimOK(l), NEW id \in Nodes,
         Aged(s, f, b, tk, l), NEW t, t = At(s, tk), NEW e, e = L!ExpireIfOld(l, id, t)
  PROVE  LimOK(e) /\ SameBudgets(l, e) /\ Aged(s, f, b, tk, e)
<1> DEFINE i == L!Find(l.young, id)
           a == L!AddAlumni(l, l.young[i].id)
           r == L!RemoveYoungAt(a, i)
           y == l.young
<1>1. e = l \/ (i # 0 /\ ~L!YoungActive(y[i], t) /\ e = L!RemoveYoungAt(L!AddAlumni(l, id), i))
  BY DEF L!ExpireIfOld
<1>2. CASE e = l BY <1>2 DEF SameBudgets, LimOK
<1>3. CASE i # 0 /\ ~L!YoungActive(y[i], t) /\ e = L!RemoveYoungAt(L!AddAlumni(l, id), i)
  <2>1. i \in DOMAIN y /\ y[i].id = id
    <3>1. Table(y, YoungFields) BY DEF LimOK, YoungOK
    <3> HIDE DEF y
    <3>2. L!Find(y, id) # 0 => L!Find(y, id) \in DOMAIN y /\ y[L!Find(y, id)].id = id BY <3>1, FindFacts
    <3>3. i = L!Find(y, id) BY DEF y
    <3>4. QED BY <1>3, <3>2, <3>3
  <2>2. Settled(f, b, tk, id)
    <3> DEFINE x == y[i]
    <3>1. Dated(s, f, b, tk, x) BY <2>1 DEF Aged
    <3>2. ~L!YoungActive(x, t) /\ x.id = id BY <1>3, <2>1
    <3> HIDE DEF x
    <3>3. Settled(f, b, tk, x.id) BY <3>1, <3>2, AgedSettled
    <3>4. QED BY <3>2, <3>3
  <2> HIDE DEF i
  <2>3. i \in DOMAIN l.young /\ e = r BY <1>3, <2>1
  <2>4. /\ SameBudgets(l, r) /\ YoungOK(r.young, r.alumni)
        /\ r.alumni \in {l.alumni, l.alumni \cup {l.young[i].id}}
        /\ \A j \in DOMAIN r.young : \E k \in DOMAIN l.young : r.young[j] = l.young[k]
    <3> HIDE DEF r
    <3>1. Thinned(l, i, r) BY <2>3, RemovedThinned DEF r
    <3>2. QED BY <3>1 DEF Thinned
  <2> HIDE DEF a, r
  <2>5. LimOK(r) BY <2>4, SameBudgetsOK
  <2>6. \A n \in r.alumni : n \in Nodes /\ Settled(f, b, tk, n) BY <2>1, <2>2, <2>4 DEF Aged
  <2>7. \A j \in DOMAIN r.young : Dated(s, f, b, tk, r.young[j]) BY <2>4 DEF Aged
  <2>8. QED BY <2>3, <2>4, <2>5, <2>6, <2>7 DEF Aged
<1>4. QED BY <1>1, <1>2, <1>3

LEMMA FullOfActive ==
  ASSUME NEW l, LimOK(l), NEW t, ~(Len(l.young) < MaxYoung),
         {i \in DOMAIN l.young : ~L!YoungActive(l.young[i], t)} = {}
  PROVE  L!YoungTableFull(l, t)
<1> DEFINE y == l.young
           n == Len(y)
           active == {i \in DOMAIN y : L!YoungActive(y[i], t)}
<1>1. Table(y, YoungFields) BY DEF LimOK, YoungOK
<1>2. n \in Nat /\ DOMAIN y = 1..n
  <2> HIDE DEF y
  <2>1. QED BY <1>1, SeqFacts DEF Table
<1>3. active = 1..n BY <1>2
<1>4. Cardinality(1..n) = n
  <2> HIDE DEF n
  <2>1. 1 \in Int /\ n \in Int BY <1>2
  <2>2. Cardinality(1..n) = IF 1 > n THEN 0 ELSE n - 1 + 1 BY <2>1, FS_Interval
  <2>3. QED BY <1>2, <2>2
<1>5. L!Cardinality(active) = Cardinality(active) BY DEF L!Cardinality, Cardinality
<1>6. L!Cardinality(active) = n
  <2>1. Cardinality(active) = Cardinality(1..n) BY <1>3
  <2> HIDE DEF active
  <2>2. QED BY <1>4, <1>5, <2>1
<1>8. n >= MaxYoung BY <1>2, SceneTimes
<1>9. QED BY <1>6, <1>8 DEF L!YoungTableFull

LEMMA InsertAges ==
  ASSUME NEW s \in Scenes, NEW tk \in Nat, NEW f, NEW b, NEW g, LimOK(g), NEW id \in Nodes,
         Heard(f, b, tk, id), Aged(s, f, b, tk, g), NEW t, t = At(s, tk),
         NEW m, m = L!InsertYoung(g, id, t)
  PROVE  Aged(s, f, b, tk, m) /\ \E i \in DOMAIN m.young : m.young[i].id = id
<1> DEFINE z == g.young
           entry == [id |-> id, first |-> t]
           u == Append(z, entry)
<1>1. m = [g EXCEPT !.young = u] BY DEF L!InsertYoung
<1>2. entry.id = id /\ entry.first = t OBVIOUS
<1>3. Table(z, YoungFields) /\ DOMAIN g = LimFields BY DEF LimOK, YoungOK
<1> HIDE DEF u
<1>4. m.young = u /\ m.alumni = g.alumni BY <1>1, <1>3 DEF LimFields
<1>5. \A j \in DOMAIN z : Dated(s, f, b, tk, z[j]) BY DEF Aged
<1> HIDE DEF z, entry
<1>6. IsSeq(z) /\ Len(z) \in Nat /\ DOMAIN z = 1..Len(z) BY <1>3, SeqFacts DEF Table
<1>7. /\ IsSeq(u) /\ DOMAIN u = 1..(Len(z) + 1)
      /\ \A j \in 1..Len(z) : u[j] = z[j]
      /\ u[Len(z) + 1] = entry
  BY <1>6, SeqAppend DEF u
<1>8. \A j \in DOMAIN u : (j \in DOMAIN z /\ u[j] = z[j]) \/ u[j] = entry BY <1>6, <1>7
<1>9. Dated(s, f, b, tk, entry)
  <2>1. f[id] <= tk /\ tk <= tk BY DEF Heard
  <2>2. QED BY <1>2, <2>1 DEF Dated
<1>10. \A j \in DOMAIN u : Dated(s, f, b, tk, u[j]) BY <1>5, <1>8, <1>9
<1>11. Len(z) + 1 \in DOMAIN u BY <1>6, <1>7
<1>12. QED BY <1>2, <1>4, <1>7, <1>10, <1>11 DEF Aged

LEMMA ArriveAges ==
  ASSUME NEW s \in Scenes, NEW tk \in Nat, tk < Clock, NEW f, NEW b, NEW e, LimOK(e), NEW id \in Nodes,
         Heard(f, b, tk, id), e.boot = At(s, b), Aged(s, f, b, tk, e), NEW t, t = At(s, tk),
         NEW m, LimOK(m), SameBudgets(e, m), m = L!Arrive(e, id, t)
  PROVE  Aged(s, f, b, tk, m) /\ Noted(m, id, t)
<1> DEFINE y == e.young
           aged == {i \in DOMAIN e.young : ~L!YoungActive(e.young[i], t)}
           first == CHOOSE i \in aged : \A j \in aged : i <= j
           x == L!AddAlumni(e, e.young[first].id)
           r == L!RemoveYoungAt(x, first)
<1>1. \/ m = e /\ (L!Find(y, id) # 0 \/ id \in e.alumni)
      \/ m = L!AddAlumni(e, id) /\ ~L!WarmedUp(e, t)
      \/ m = L!InsertYoung(e, id, t)
      \/ aged # {} /\ m = L!InsertYoung(r, id, t)
      \/ m = e /\ aged = {} /\ ~(Len(e.young) < MaxYoung)
  BY DEF L!Arrive
<1>2. Table(y, YoungFields) BY DEF LimOK, YoungOK
<1>3. CASE m = e /\ (L!Find(y, id) # 0 \/ id \in e.alumni)
  <2>1. L!Find(y, id) # 0 => L!Find(y, id) \in DOMAIN y /\ y[L!Find(y, id)].id = id
    <3> HIDE DEF y
    <3>1. QED BY <1>2, FindFacts
  <2>2. QED BY <1>3, <2>1 DEF Noted
<1>4. CASE m = L!AddAlumni(e, id) /\ ~L!WarmedUp(e, t)
  <2>1. SameBudgets(e, m) /\ m.young = e.young /\ m.alumni \in {e.alumni, e.alumni \cup {id}}
    BY <1>4, AlumniFacts
  <2>2. Settled(f, b, tk, id) BY <1>4, EarlySettled
  <2>3. Aged(s, f, b, tk, m) BY <2>1, <2>2 DEF Aged
  <2>4. ~L!WarmedUp(m, t) BY <1>4, <2>1 DEF L!WarmedUp, SameBudgets
  <2>5. QED BY <2>3, <2>4 DEF Noted
<1>5. CASE m = L!InsertYoung(e, id, t) BY <1>5, InsertAges DEF Noted
<1>6. CASE aged # {} /\ m = L!InsertYoung(r, id, t)
  <2>1. DOMAIN y \subseteq Nat
    <3> HIDE DEF y
    <3>1. QED BY <1>2, SeqFacts DEF Table
  <2>2. aged \subseteq Nat /\ aged # {} BY <1>6, <2>1
  <2>3. first \in aged
    <3> HIDE DEF aged
    <3>1. \E i \in aged : \A j \in aged : i <= j BY <2>2, LeastNat
    <3>2. QED BY <3>1
  <2>4. first \in DOMAIN e.young /\ ~L!YoungActive(e.young[first], t) BY <2>3
  <2> HIDE DEF first, aged
  <2>5. /\ SameBudgets(e, r) /\ YoungOK(r.young, r.alumni)
        /\ r.alumni \in {e.alumni, e.alumni \cup {e.young[first].id}}
        /\ \A j \in DOMAIN r.young : \E k \in DOMAIN e.young : r.young[j] = e.young[k]
    <3>1. Thinned(e, first, r) BY <2>4, RemovedThinned
    <3> HIDE DEF r
    <3>2. QED BY <3>1 DEF Thinned
  <2> DEFINE z == e.young[first]
  <2>6. Dated(s, f, b, tk, z) /\ z.id \in Nodes /\ ~L!YoungActive(z, t) BY <1>2, <2>4 DEF Aged, Table
  <2> HIDE DEF z, r
  <2>7. Settled(f, b, tk, z.id) BY <2>6, AgedSettled
  <2>8. \A n \in r.alumni : n \in Nodes /\ Settled(f, b, tk, n) BY <2>5, <2>6, <2>7 DEF Aged, z
  <2>9. Aged(s, f, b, tk, r) BY <2>5, <2>8 DEF Aged
  <2>10. LimOK(r) BY <2>5, SameBudgetsOK
  <2>11. QED BY <1>6, <2>9, <2>10, InsertAges DEF Noted
<1>7. CASE m = e /\ aged = {} /\ ~(Len(e.young) < MaxYoung) BY <1>7, FullOfActive DEF Noted
<1>8. QED BY <1>1, <1>3, <1>4, <1>5, <1>6, <1>7

LEMMA NoteAges ==
  ASSUME NEW s \in Scenes, NEW tk \in Nat, tk < Clock, NEW f, NEW b, NEW l, LimOK(l), NEW id \in Nodes,
         Heard(f, b, tk, id), l.boot = At(s, b), Aged(s, f, b, tk, l), NEW t, t = At(s, tk),
         NEW m, m = L!NoteOriginator(l, id, t)
  PROVE  Aged(s, f, b, tk, m) /\ Noted(m, id, t)
<1> DEFINE e == L!ExpireIfOld(l, id, t)
<1>1. m = L!Arrive(e, id, t) BY DEF L!NoteOriginator
<1>2. LimOK(e) /\ SameBudgets(l, e) /\ Aged(s, f, b, tk, e) BY ExpireAges
<1>3. LimOK(m) /\ SameBudgets(l, m) BY YoungStep
<1> HIDE DEF e
<1>4. SameBudgets(e, m) /\ e.boot = At(s, b) BY <1>2, <1>3 DEF SameBudgets
<1>5. QED BY <1>1, <1>2, <1>3, <1>4, ArriveAges

(* So a newcomer that was noted pays from the shared budget. *)
LEMMA NewcomerPays ==
  ASSUME NEW s \in Scenes, NEW tk \in Nat, tk < Clock, NEW f, NEW b, NEW l, LimOK(l), NEW n,
         Heard(f, b, tk, n), f[n] - b >= Warmup, tk - f[n] < YoungAge,
         l.boot = At(s, b), Aged(s, f, b, tk, l), NEW t, t = At(s, tk), Noted(l, n, t)
  PROVE  L!WarmedUp(l, t) /\ L!IsYoung(l, n, t)
<1> DEFINE y == l.young
           i == L!Find(y, n)
<1>1. /\ ~Settled(f, b, tk, n) /\ L!WarmedUp(l, t)
      /\ \A e : Dated(s, f, b, tk, e) /\ e.id = n => L!YoungActive(e, t)
  BY NewcomerActive
<1>2. n \notin l.alumni BY <1>1 DEF Aged
<1>3. /\ i # 0 => i \in DOMAIN y /\ y[i].id = n
      /\ i = 0 => \A j \in DOMAIN y : y[j].id # n
  <2>1. Table(y, YoungFields) BY DEF LimOK, YoungOK
  <2> HIDE DEF y
  <2>2. QED BY <2>1, FindFacts
<1> HIDE DEF i
<1>4. CASE i = 0
  <2>1. L!YoungTableFull(l, t) BY <1>1, <1>2, <1>3, <1>4 DEF Noted
  <2>2. QED BY <1>1, <1>2, <1>4, <2>1 DEF L!IsYoung, i
<1>5. CASE i # 0
  <2>1. L!YoungActive(y[i], t) BY <1>1, <1>3, <1>5 DEF Aged
  <2>2. QED BY <1>1, <1>5, <2>1 DEF L!IsYoung, i
<1>6. QED BY <1>4, <1>5

-----------------------------------------------------------------------------
(* The verdict: a packet that is admitted from a newcomer was counted.     *)

SameNewcomers(l, m) ==
  m.young = l.young /\ m.alumni = l.alumni /\ m.newcomers = l.newcomers /\ m.boot = l.boot

LEMMA DestNewcomers ==
  ASSUME NEW l, LimOK(l), NEW p, NEW t, NEW proximity, NEW m, m = L!ChargeDest(l, p, t, proximity)
  PROVE  SameNewcomers(l, m)
<1> DEFINE s == IF L!ChargesDest(p) THEN L!WithDest(l.dests, p.to, t, proximity) ELSE l.dests
           d == [s EXCEPT ![L!Find(s, p.to)] = L!DestAfter(@, p, t)]
<1>1. m = l \/ m = [l EXCEPT !.dests = s] \/ m = [l EXCEPT !.dests = d] BY DEF L!ChargeDest
<1>2. DOMAIN l = LimFields BY DEF LimOK
<1> HIDE DEF s, d
<1>3. QED BY <1>1, <1>2 DEF SameNewcomers, LimFields

LEMMA SharedCharge ==
  ASSUME NEW l, LimOK(l), NEW p, NEW t \in Int, NEW m, m = L!ChargeYoung(l, p, t)
  PROVE  /\ m.newcomers = IF L!ChargesYoung(l, p, t)
                          THEN L!CheckAndUpdate(l.newcomers, YoungTrip, YoungClear, 1, t)
                          ELSE l.newcomers
         /\ L!ChargesYoung(m, p, t) <=> L!ChargesYoung(l, p, t)
<1> DEFINE b == L!CheckAndUpdate(l.newcomers, YoungTrip, YoungClear, 1, t)
           c == [l EXCEPT !.newcomers = b]
           u == p.util
<1>1. DOMAIN l = LimFields BY DEF LimOK
<1>2. SameButNewcomers(l, m) BY SharedStep
<1>3. L!ChargesYoung(m, p, t) <=> L!ChargesYoung(l, p, t)
  <2>1. L!YoungTableFull(m, t) <=> L!YoungTableFull(l, t) BY <1>2 DEF L!YoungTableFull, SameButNewcomers
  <2>2. L!IsYoung(m, p.from, t) <=> L!IsYoung(l, p.from, t) BY <1>2, <2>1 DEF L!IsYoung, SameButNewcomers
  <2>3. L!WarmedUp(m, t) <=> L!WarmedUp(l, t) BY <1>2 DEF L!WarmedUp, SameButNewcomers
  <2>4. QED BY <2>2, <2>3 DEF L!ChargesYoung
<1>4. CASE ~L!ChargesYoung(l, p, t)
  <2>1. m = l BY <1>4 DEF L!ChargeYoung
  <2>2. QED BY <1>3, <1>4, <2>1
<1>5. CASE L!ChargesYoung(l, p, t)
  <2>1. m = c \/ m = L!MaybeAnnounce(c, u, t) BY <1>5 DEF L!ChargeYoung
  <2> HIDE DEF b, u
  <2>2. DOMAIN c = LimFields /\ c.newcomers = b BY <1>1 DEF LimFields
  <2> HIDE DEF c
  <2>3. m = c \/ m = [c EXCEPT !.announced = t] BY <2>1 DEF L!MaybeAnnounce
  <2>4. m.newcomers = b BY <2>2, <2>3 DEF LimFields
  <2>5. QED BY <1>3, <1>5, <2>4 DEF b
<1>6. QED BY <1>4, <1>5

LEMMA KnownPort ==
  ASSUME NEW port
  PROVE  L!BucketOf(port) # "unknown" <=> port # "none"
BY Zenon DEF L!BucketOf

(* The three ways a packet meets the budget of newcomers. *)
Passes(f, b, tk, l, p, v, t) ==
  \/ v.drop /\ v.l.newcomers = l.newcomers
  \/ /\ v.l.newcomers = l.newcomers
     /\ ~(p.port # "none" /\ f[p.from] - b >= Warmup /\ tk - f[p.from] < YoungAge)
  \/ /\ v.l.newcomers = L!CheckAndUpdate(l.newcomers, YoungTrip, YoungClear, 1, t)
     /\ v.l.newcomers.limited => v.drop

LEMMA VerdictMinted ==
  ASSUME NEW s \in Scenes, NEW tk \in Nat, tk < Clock, NEW f, NEW b \in Nat, NEW l, LimOK(l), NEW p,
         KnownPacket(p), ~L!Exempt(p), Aged(s, f, b, tk, l),
         IF l.boot = Never THEN b = tk ELSE l.boot = At(s, b),
         p.port # "none" => Heard(f, b, tk, p.from),
         NEW t, t = At(s, tk), NEW proximity, NEW v, v = L!ShouldDrop(l, p, t, proximity)
  PROVE  Aged(s, f, b, tk, v.l) /\ v.l.boot = At(s, b) /\ Passes(f, b, tk, l, p, v, t)
<1> DEFINE a == [l EXCEPT !.boot = IF @ = Never THEN t ELSE @]
           g == L!ChargeDest(a, p, t, proximity)
           id == p.from
           n == IF L!BucketOf(p.port) = "unknown" THEN g ELSE L!NoteOriginator(g, id, t)
           c == L!ChargeOriginator(n, p, t, proximity)
           d == L!ChargeYoung(c, p, t)
           r == L!ChargeRelay(d, p, t, proximity)
<1>1. v = L!AfterDest(g, p, t, proximity) BY DEF L!ShouldDrop
<1>2. d = L!AfterOriginator(g, p, t, proximity) BY DEF L!AfterOriginator
<1>3. t \in Int BY AtFacts
<1>4. LimOK(a) /\ a.young = l.young /\ a.alumni = l.alumni /\ a.newcomers = l.newcomers /\ a.boot = At(s, b)
  <2>1. /\ DOMAIN a = LimFields /\ a.orig = l.orig /\ a.relays = l.relays /\ a.dests = l.dests
        /\ a.young = l.young /\ a.alumni = l.alumni /\ a.unresolved = l.unresolved
        /\ a.newcomers = l.newcomers /\ a.boot = IF l.boot = Never THEN t ELSE l.boot
    BY DEF LimOK, LimFields
  <2> HIDE DEF a
  <2>2. QED BY <2>1 DEF LimOK
<1> HIDE DEF a
<1>5. LimOK(g) /\ SameNewcomers(a, g)
  <2>1. L!IsUnicast(p) => p.to \in Nodes BY DEF KnownPacket
  <2>2. QED BY <1>3, <1>4, <2>1, DestStep, DestNewcomers
<1> HIDE DEF g
<1>6. g.boot = At(s, b) /\ g.newcomers = l.newcomers /\ Aged(s, f, b, tk, g)
  BY <1>4, <1>5 DEF SameNewcomers, Aged
<1>7. CASE L!DestFlagged(g, p) \/ L!ToLimitedDest(g, p, t)
  <2>1. v.l = g /\ v.drop BY <1>1, <1>7 DEF L!AfterDest
  <2>2. QED BY <1>6, <2>1 DEF Passes
<1>8. CASE ~(L!DestFlagged(g, p) \/ L!ToLimitedDest(g, p, t))
  <2>1. v = L!AfterSender(d, p, t, proximity) BY <1>1, <1>2, <1>8 DEF L!AfterDest
  <2>2. id \in Nodes BY DEF KnownPacket
  <2>3. LimOK(n) /\ SameBudgets(g, n)
    <3> HIDE DEF id
    <3>1. LimOK(L!NoteOriginator(g, id, t)) /\ SameBudgets(g, L!NoteOriginator(g, id, t))
      BY <1>5, <2>2, YoungStep
    <3>2. SameBudgets(g, g) BY <1>5 DEF SameBudgets, LimOK
    <3>3. QED BY <1>5, <3>1, <3>2
  <2>4. Aged(s, f, b, tk, n) /\ (p.port # "none" => Noted(n, id, t))
    <3>1. CASE p.port = "none"
      <4>1. n = g BY <3>1, KnownPort
      <4>2. QED BY <1>6, <3>1, <4>1
    <3>2. CASE p.port # "none"
      <4>1. n = L!NoteOriginator(g, id, t) /\ Heard(f, b, tk, id) BY <3>2, KnownPort
      <4> HIDE DEF id, n
      <4>2. QED BY <1>5, <1>6, <2>2, <4>1, NoteAges
    <3>3. QED BY <3>1, <3>2
  <2> HIDE DEF n
  <2>5. LimOK(c) /\ SameButOrig(n, c) BY <1>3, <2>2, <2>3, OriginatorStep
  <2> HIDE DEF c
  <2>6. /\ c.boot = At(s, b) /\ c.newcomers = l.newcomers /\ Aged(s, f, b, tk, c)
        /\ p.port # "none" => Noted(c, id, t)
    <3>1. L!YoungTableFull(c, t) <=> L!YoungTableFull(n, t) BY <2>5 DEF L!YoungTableFull, SameButOrig
    <3>2. L!WarmedUp(c, t) <=> L!WarmedUp(n, t) BY <2>5 DEF L!WarmedUp, SameButOrig
    <3>3. Noted(n, id, t) => Noted(c, id, t) BY <2>5, <3>1, <3>2 DEF Noted, SameButOrig
    <3>4. Aged(s, f, b, tk, c) BY <2>4, <2>5 DEF Aged, SameButOrig
    <3>5. c.boot = At(s, b) /\ c.newcomers = l.newcomers BY <1>6, <2>3, <2>5 DEF SameBudgets, SameButOrig
    <3>6. QED BY <2>4, <3>3, <3>4, <3>5
  <2>7. /\ LimOK(d) /\ SameButNewcomers(c, d)
        /\ d.newcomers = IF L!ChargesYoung(c, p, t)
                         THEN L!CheckAndUpdate(l.newcomers, YoungTrip, YoungClear, 1, t)
                         ELSE l.newcomers
        /\ L!ChargesYoung(d, p, t) <=> L!ChargesYoung(c, p, t)
    BY <1>3, <2>5, <2>6, SharedStep, SharedCharge
  <2> HIDE DEF d
  <2>8. p.port # "none" /\ f[id] - b >= Warmup /\ tk - f[id] < YoungAge => L!ChargesYoung(c, p, t)
    <3> SUFFICES ASSUME p.port # "none", f[id] - b >= Warmup, tk - f[id] < YoungAge
                 PROVE  L!ChargesYoung(c, p, t)
      OBVIOUS
    <3>1. Heard(f, b, tk, id) /\ Noted(c, id, t) BY <2>6
    <3>2. L!WarmedUp(c, t) /\ L!IsYoung(c, id, t)
      <4> HIDE DEF id
      <4>1. QED BY <2>5, <2>6, <3>1, NewcomerPays
    <3>3. QED BY <3>2, KnownPort DEF L!ChargesYoung
  <2>9. LimOK(r) /\ SameButRelays(d, r)
    <3>1. L!ResolvedRelay(p) => p.relay \in Nodes BY DEF KnownPacket
    <3>2. QED BY <1>3, <2>7, <3>1, RelayStep
  <2>10. v.l \in {r, d} /\ (L!YoungDrops(d, p, t) => v.drop)
    <3>1. CASE p.candidate /\ ~L!SenderDrops(d, p, t)
      <4>1. v.l = r BY <2>1, <3>1 DEF L!AfterSender
      <4>2. ~L!YoungDrops(d, p, t) BY <3>1 DEF L!SenderDrops
      <4>3. QED BY <4>1, <4>2
    <3>2. CASE ~(p.candidate /\ ~L!SenderDrops(d, p, t))
      <4>1. v.l = d /\ v.drop = L!SenderDrops(d, p, t) BY <2>1, <3>2 DEF L!AfterSender
      <4>2. QED BY <4>1 DEF L!SenderDrops
    <3>3. QED BY <3>1, <3>2
  <2> HIDE DEF r
  <2>11. /\ v.l.young = d.young /\ v.l.alumni = d.alumni /\ v.l.newcomers = d.newcomers
         /\ v.l.boot = d.boot
    BY <2>9, <2>10 DEF SameButRelays
  <2>12. Aged(s, f, b, tk, v.l) /\ v.l.boot = At(s, b)
    BY <2>6, <2>7, <2>11 DEF Aged, SameButNewcomers
  <2>13. CASE L!ChargesYoung(c, p, t)
    <3>1. v.l.newcomers = L!CheckAndUpdate(l.newcomers, YoungTrip, YoungClear, 1, t) BY <2>7, <2>11, <2>13
    <3>2. v.l.newcomers.limited => v.drop BY <2>7, <2>10, <2>11, <2>13 DEF L!YoungDrops
    <3>3. QED BY <2>12, <3>1, <3>2 DEF Passes
  <2>14. CASE ~L!ChargesYoung(c, p, t) BY <2>7, <2>8, <2>11, <2>12, <2>14 DEF Passes
  <2>15. QED BY <2>13, <2>14
<1>9. QED BY <1>7, <1>8

-----------------------------------------------------------------------------
(* The inductive invariant: the ages that the limiter keeps agree with     *)
(* when nodes were really heard, and what was admitted from newcomers      *)
(* during the last Window is covered by what their bucket counted.         *)
AgeInv ==
  /\ ticks <= scene.last
  /\ Firsts(seen.first, seen.boot, ticks)
  /\ Booted(scene, seen.boot, ticks, lim)
  /\ Aged(scene, seen.first, seen.boot, ticks, lim)
BudgetInv ==
  /\ frames \in Nat /\ Minted(seen.minted, ticks, frames)
  /\ \E S : Spent(scene, ticks, seen.minted, lim.newcomers, S)
MintInv == AgeInv /\ BudgetInv

FirstsAfter(f, n, port, tk) == [f EXCEPT ![n] = IF @ = Never /\ port # "none" THEN tk ELSE @]
BootAfter(b, tk) == IF b = Never THEN tk ELSE b

Adds(M, N, f, b, p, drop, tk, k) ==
  \/ N = M
  \/ /\ N = M \cup {[at |-> tk, frame |-> k]} /\ p.port # "none" /\ ~drop
     /\ f[p.from] - b >= Warmup /\ tk - f[p.from] < YoungAge

LEMMA JudgedMinted ==
  ASSUME DOMAIN seen = SeenFields, NEW lp, NEW l, NEW m, NEW drop,
         NEW f, f = FirstsAfter(seen.first, lp.from, lp.port, ticks),
         NEW b, b = BootAfter(seen.boot, ticks), NEW j, j = Judged(lp, l, m, drop)
  PROVE  /\ j.boot = b /\ j.first = f
         /\ Adds(seen.minted, j.minted, f, b, lp, drop, ticks, frames)
<1> DEFINE known == lp.port # "none"
           s == [seen EXCEPT !.boot = IF @ = Never THEN ticks ELSE @,
                             !.first[lp.from] = IF @ = Never /\ known THEN ticks ELSE @]
           bans == {[ban |-> x, at |-> ticks] : x \in Tripped(l, m)}
           last == IF lp.candidate THEN [p |-> lp, drop |-> drop] ELSE None
           minted == IF known /\ ~drop /\ Newcomer(s, lp.from)
                     THEN seen.minted \cup {[at |-> ticks, frame |-> frames]} ELSE seen.minted
<1>1. s = [seen EXCEPT !.boot = b, !.first = f]
  BY DEF FirstsAfter, BootAfter, SeenFields
<1> HIDE DEF s
<1>2. s.boot = b /\ s.first = f /\ s.minted = seen.minted /\ s.bans = seen.bans /\ DOMAIN s = SeenFields
  BY <1>1 DEF SeenFields
<1>3. j = [s EXCEPT !.bans = s.bans \cup bans,
                    !.minted = IF known /\ ~drop /\ Newcomer(s, lp.from)
                               THEN s.minted \cup {[at |-> ticks, frame |-> frames]} ELSE s.minted,
                    !.last = last]
  BY DEF Judged, s
<1>4. j = [s EXCEPT !.bans = s.bans \cup bans, !.minted = minted, !.last = last]
  BY <1>2, <1>3
<1> HIDE DEF bans, last, minted
<1>5. j.boot = b /\ j.first = f /\ j.minted = minted BY <1>2, <1>4 DEF SeenFields
<1>6. QED BY <1>2, <1>5 DEF minted, Newcomer, Adds

LEMMA RememberedMinted ==
  ASSUME NEW s, DOMAIN s = SeenFields, NEW c, NEW n
  PROVE  /\ Remembered(s, c, n).boot = s.boot /\ Remembered(s, c, n).first = s.first
         /\ Remembered(s, c, n).minted = s.minted
BY DEF Remembered, SeenFields

(* The ages after the observer has noted a packet, before the limiter has. *)
LEMMA AgesHeard ==
  ASSUME AgeInv, LimInv, IdInv, NEW n \in Nodes, NEW port,
         NEW f, f = FirstsAfter(seen.first, n, port, ticks), NEW b, b = BootAfter(seen.boot, ticks)
  PROVE  /\ ticks < Clock /\ b \in Nat /\ b <= ticks /\ Firsts(f, b, ticks)
         /\ Aged(scene, f, b, ticks, lim)
         /\ IF lim.boot = Never THEN b = ticks ELSE lim.boot = At(scene, b)
         /\ port # "none" => Heard(f, b, ticks, n)
<1> DEFINE g == seen.first
           a == seen.boot
<1>1. scene \in Scenes /\ ticks \in Nat /\ Never \notin Nat BY Clocks DEF IdInv
<1>2. ticks < Clock
  <2>1. scene.last \in Nat /\ scene.last < Clock /\ ticks <= scene.last BY <1>1, SceneTimes DEF AgeInv
  <2>2. QED BY <1>1, <2>1, Clocks
<1>3. /\ DOMAIN g = Nodes /\ (\A m \in Nodes : g[m] = Never \/ Heard(g, a, ticks, m))
      /\ IF a = Never THEN lim.boot = Never ELSE a \in Nat /\ a <= ticks /\ lim.boot = At(scene, a)
      /\ Aged(scene, g, a, ticks, lim)
  BY DEF AgeInv, Firsts, Booted
<1>4. b = IF a = Never THEN ticks ELSE a BY DEF BootAfter
<1>5. f = [g EXCEPT ![n] = IF g[n] = Never /\ port # "none" THEN ticks ELSE g[n]] BY DEF FirstsAfter
<1>13. \A i \in DOMAIN lim.young : lim.young[i].id \in Nodes BY DEF LimInv, LimOK, YoungOK, Table
<1> HIDE DEF g, a
<1>6. b \in Nat /\ b <= ticks BY <1>1, <1>3, <1>4
<1>7. IF lim.boot = Never THEN b = ticks ELSE lim.boot = At(scene, b)
  <2>1. a # Never => lim.boot # Never BY <1>1, <1>3, AtFacts
  <2>2. QED BY <1>3, <1>4, <2>1
<1>8. DOMAIN f = Nodes /\ \A m \in Nodes : f[m] = IF m = n /\ g[n] = Never /\ port # "none" THEN ticks ELSE g[m]
  BY <1>3, <1>5
<1>9. \A m \in Nodes : Heard(g, a, ticks, m) => b = a /\ f[m] = g[m] /\ Heard(f, b, ticks, m)
  BY <1>1, <1>4, <1>8 DEF Heard
<1>10. \A m \in Nodes : f[m] = Never \/ Heard(f, b, ticks, m)
  <2> TAKE m \in Nodes
  <2>1. CASE Heard(g, a, ticks, m) BY <1>9, <2>1
  <2>2. CASE g[m] = Never
    <3>1. f[m] = Never \/ f[m] = ticks BY <1>8, <2>2
    <3>2. ticks <= ticks BY <1>1
    <3>3. QED BY <1>1, <1>6, <3>1, <3>2 DEF Heard
  <2>3. QED BY <1>3, <2>1, <2>2
<1>11. port # "none" => Heard(f, b, ticks, n)
  <2>1. port # "none" => f[n] # Never BY <1>1, <1>8
  <2>2. QED BY <1>10, <2>1
<1>12. Aged(scene, f, b, ticks, lim)
  <2>1. \A m \in lim.alumni : m \in Nodes /\ Settled(f, b, ticks, m) BY <1>3, <1>9 DEF Aged, Settled
  <2>2. ASSUME NEW i \in DOMAIN lim.young PROVE Dated(scene, f, b, ticks, lim.young[i])
    <3> DEFINE e == lim.young[i]
    <3>1. Dated(scene, g, a, ticks, e) /\ e.id \in Nodes BY <1>3, <1>13 DEF Aged
    <3> HIDE DEF e
    <3>2. f[e.id] = g[e.id] /\ Heard(f, b, ticks, e.id) BY <1>9, <3>1 DEF Dated
    <3>3. Dated(scene, f, b, ticks, e) BY <3>1, <3>2 DEF Dated
    <3>4. QED BY <3>3 DEF e
  <2>3. QED BY <2>1, <2>2 DEF Aged
<1>14. QED BY <1>2, <1>6, <1>7, <1>8, <1>10, <1>11, <1>12 DEF Firsts

(* One packet: what it adds to the arrivals, its bucket has room for. *)
LEMMA BudgetAfter ==
  ASSUME NEW s \in Scenes, NEW tk \in Nat, NEW k \in Nat, NEW M, Minted(M, tk, k), NEW l, LimOK(l),
         \E S : Spent(s, tk, M, l.newcomers, S), NEW f, NEW b, NEW p, NEW v, NEW t, t = At(s, tk),
         Passes(f, b, tk, l, p, v, t), NEW N, Adds(M, N, f, b, p, v.drop, tk, k)
  PROVE  Minted(N, tk, k + 1) /\ \E S : Spent(s, tk, N, v.l.newcomers, S)
<1> DEFINE e == [at |-> tk, frame |-> k]
<1>1. e.at = tk /\ e.frame = k OBVIOUS
<1>2. N = M \/ N = M \cup {e} BY DEF Adds
<1> HIDE DEF e
<1>3. e \notin M BY <1>1 DEF Minted
<1>4. Minted(N, tk, k + 1)
  <2>1. IsFiniteSet(M) BY DEF Minted
  <2>2. IsFiniteSet(N) BY <1>2, <2>1, FS_AddElement
  <2>3. tk <= tk /\ tk - tk < Window /\ k < k + 1 BY WindowPositive
  <2>4. \A a \in M : a.at \in Nat /\ a.at <= tk /\ tk - a.at < Window /\ a.frame \in Nat /\ a.frame < k + 1
    BY DEF Minted
  <2>5. QED BY <1>1, <1>2, <2>2, <2>3, <2>4 DEF Minted
<1>5. PICK S : Spent(s, tk, M, l.newcomers, S) OBVIOUS
<1>6. CASE v.l.newcomers = l.newcomers /\ N = M BY <1>4, <1>5, <1>6
<1>7. CASE v.l.newcomers = L!CheckAndUpdate(l.newcomers, YoungTrip, YoungClear, 1, t)
           /\ (v.l.newcomers.limited => v.drop)
  <2> DEFINE c == v.l.newcomers
             g == l.newcomers
  <2>1. IsBucket(g) /\ Spent(s, tk, M, g, S) /\ c = L!CheckAndUpdate(g, YoungTrip, YoungClear, 1, t)
    BY <1>5, <1>7 DEF LimOK
  <2> HIDE DEF c, g
  <2>2. PICK R : /\ Spent(s, tk, M, c, R)
                 /\ ~c.limited => \A a : a.at = tk /\ a \notin M => Spent(s, tk, M \cup {a}, c, R)
    BY <2>1, ChargeSpent
  <2>3. N # M => ~c.limited BY <1>7 DEF c, Adds
  <2>4. N # M => Spent(s, tk, M \cup {e}, c, R) BY <1>1, <1>3, <2>2, <2>3
  <2>5. Spent(s, tk, N, c, R) BY <1>2, <2>2, <2>4
  <2>6. QED BY <1>4, <2>5 DEF c
<1>8. \/ v.l.newcomers = l.newcomers /\ N = M
      \/ v.l.newcomers = L!CheckAndUpdate(l.newcomers, YoungTrip, YoungClear, 1, t)
         /\ (v.l.newcomers.limited => v.drop)
  BY DEF Passes, Adds
<1>9. QED BY <1>4, <1>6, <1>7, <1>8

LEMMA TransitMint ==
  ASSUME MintInv, LimInv, IdInv, NEW p \in scene.packets, NEW via, Transit(p, via)
  PROVE  MintInv'
<1> DEFINE d == DecodePayload(p)
           lp == LimiterPacket(p, via, d)
           near == scene.proximity
           v == L!ShouldDrop(lim, lp, now, near)
           direct == via.byte = 0
           c == IF direct /\ ~v.drop THEN I!RememberRelayIdentity(cache, p.from, now) ELSE cache
           s == Judged(lp, lim, v.l, v.drop)
           n == p.from
           r == Remembered(s, c, n)
<1>1. /\ lim' = v.l /\ ticks' = ticks /\ scene' = scene /\ frames' = frames + 1
      /\ seen' = (IF direct /\ ~v.drop THEN r ELSE s)
  BY DEF Transit, Arrives
<1>2. LimOK(lim) /\ DOMAIN seen = SeenFields BY DEF LimInv
<1>3. KnownPacket(lp) BY TransitKnown
<1>4. scene \in Scenes /\ ticks \in Nat /\ now = At(scene, ticks) BY DEF IdInv
<1>5. lp.from \in Nodes /\ ~L!Exempt(lp)
  <2>1. p.from \in Nodes /\ p.to # Me /\ lp.from = p.from /\ lp.to = p.to
    BY <1>4, SceneNodes DEF Transit, LimiterPacket
  <2> HIDE DEF lp
  <2>2. QED BY <2>1, Clocks, SceneTimes DEF L!Exempt
<1> HIDE DEF lp, near, d
<1> DEFINE id == lp.from
           port == lp.port
           f == FirstsAfter(seen.first, id, port, ticks)
           b == BootAfter(seen.boot, ticks)
<1>6. /\ ticks < Clock /\ b \in Nat /\ b <= ticks /\ Firsts(f, b, ticks)
      /\ Aged(scene, f, b, ticks, lim)
      /\ IF lim.boot = Never THEN b = ticks ELSE lim.boot = At(scene, b)
      /\ port # "none" => Heard(f, b, ticks, id)
  <2>1. id \in Nodes BY <1>5
  <2> HIDE DEF port, id
  <2>2. QED BY <2>1, AgesHeard DEF MintInv
<1>7. Aged(scene, f, b, ticks, v.l) /\ v.l.boot = At(scene, b) /\ Passes(f, b, ticks, lim, lp, v, now)
  <2>1. lp.port # "none" => Heard(f, b, ticks, lp.from) BY <1>6
  <2> HIDE DEF f, b, v, port, id
  <2>2. v = L!ShouldDrop(lim, lp, now, near) BY DEF v
  <2>3. QED BY <1>2, <1>3, <1>4, <1>5, <1>6, <2>1, <2>2, VerdictMinted
<1> HIDE DEF v, c, direct, n
<1> DEFINE after == v.l
           drop == v.drop
<1>8. /\ DOMAIN s = SeenFields /\ s.boot = b /\ s.first = f
      /\ Adds(seen.minted, s.minted, f, b, lp, drop, ticks, frames)
  <2>1. s = Judged(lp, lim, after, drop) /\ b = BootAfter(seen.boot, ticks)
        /\ f = FirstsAfter(seen.first, lp.from, lp.port, ticks)
    OBVIOUS
  <2> HIDE DEF after, drop, s, f, b
  <2>2. DOMAIN s = SeenFields BY <1>2, <2>1, JudgedLast
  <2>3. s.boot = b /\ s.first = f BY <1>2, <2>1, JudgedMinted
  <2>4. Adds(seen.minted, s.minted, f, b, lp, drop, ticks, frames)
    BY <1>2, <2>1, JudgedMinted
  <2>5. QED BY <2>2, <2>3, <2>4
<1> HIDE DEF s
<1>9. r.boot = s.boot /\ r.first = s.first /\ r.minted = s.minted BY <1>8, RememberedMinted
<1> HIDE DEF r, f, b
<1>10. seen'.boot = b /\ seen'.first = f /\ seen'.minted = s.minted BY <1>1, <1>8, <1>9
<1>11. AgeInv'
  <2>1. b # Never BY <1>6, Clocks
  <2>2. Booted(scene, b, ticks, v.l) BY <1>6, <1>7, <2>1 DEF Booted
  <2>3. ticks <= scene.last BY DEF MintInv, AgeInv
  <2>4. QED BY <1>1, <1>6, <1>7, <1>10, <2>2, <2>3 DEF AgeInv
<1>12. BudgetInv'
  <2> DEFINE M == seen.minted
             N == s.minted
  <2>1. frames \in Nat /\ Minted(M, ticks, frames) /\ \E S : Spent(scene, ticks, M, lim.newcomers, S)
    BY DEF MintInv, BudgetInv
  <2>2. Adds(M, N, f, b, lp, v.drop, ticks, frames) BY <1>8
  <2> HIDE DEF M, N
  <2>3. Minted(N, ticks, frames + 1) /\ \E S : Spent(scene, ticks, N, v.l.newcomers, S)
    BY <1>2, <1>4, <1>7, <2>1, <2>2, BudgetAfter
  <2>4. frames + 1 \in Nat BY <2>1
  <2>5. QED BY <1>1, <1>10, <2>3, <2>4 DEF BudgetInv, N
<1>13. QED BY <1>11, <1>12 DEF MintInv

(* Time passes: old arrivals are forgotten. *)
LEMMA LaterSpent ==
  ASSUME NEW s, NEW tk \in Nat, NEW M, IsFiniteSet(M), NEW b, NEW S, Spent(s, tk, M, b, S),
         NEW N, N \subseteq M
  PROVE  Spent(s, tk + 1, N, b, S)
<1> DEFINE x == Cardinality(N)
           y == Cardinality(From(N, S))
           z == Cardinality(Until(N, S))
           i == Cardinality(M)
           j == Cardinality(From(M, S))
           k == Cardinality(Until(M, S))
           max == YoungTrip - 1
<1>1. /\ From(N, S) \subseteq From(M, S) /\ Until(N, S) \subseteq Until(M, S)
      /\ From(M, S) \subseteq M /\ Until(M, S) \subseteq M
  BY DEF From, Until
<1>2. IsFiniteSet(From(M, S)) /\ IsFiniteSet(Until(M, S)) BY <1>1, FS_Subset
<1>3. x <= i /\ y <= j /\ z <= k BY <1>1, <1>2, FS_Subset
<1>4. IsFiniteSet(N) /\ IsFiniteSet(From(N, S)) /\ IsFiniteSet(Until(N, S)) BY <1>1, <1>2, FS_Subset
<1>5. x \in Nat /\ y \in Nat /\ z \in Nat /\ i \in Nat /\ j \in Nat /\ k \in Nat
  BY <1>2, <1>4, FS_CardinalityType
<1>6. /\ S \in Int /\ S <= tk /\ b.start = At(s, S) /\ b.n \in Nat /\ i <= 2 * max /\ j <= max
      /\ \A e \in M : e.at < S + Window
      /\ ~b.limited => j <= b.n /\ b.n <= max /\ k <= max
  BY DEF Spent
<1>7. max \in Int BY SceneTimes
<1> HIDE DEF x, y, z, i, j, k, max
<1>8. S <= tk + 1 /\ x <= 2 * max /\ y <= max /\ (~b.limited => y <= b.n /\ b.n <= max /\ z <= max)
  BY <1>3, <1>5, <1>6, <1>7
<1>9. QED BY <1>6, <1>8 DEF Spent, x, y, z, max

LEMMA TickMint ==
  ASSUME MintInv, LimInv, IdInv, Tick
  PROVE  MintInv'
<1> DEFINE Kept(u) == {e \in seen.minted : u - e.at < Window}
           k == Kept(ticks')
           bans == {b \in seen.bans : ticks' - b.at < Window}
           f == seen.first
           b == seen.boot
           tk == ticks + 1
<1>1. ticks' = tk /\ ticks < scene.last /\ scene' = scene /\ frames' = frames /\ lim' = lim BY DEF Tick
<1>2. seen' = [seen EXCEPT !.last = None, !.bans = bans, !.minted = k] BY DEF Tick
<1>3. DOMAIN seen = SeenFields /\ LimOK(lim) BY DEF LimInv
<1>4. scene \in Scenes /\ ticks \in Nat BY DEF IdInv
<1> HIDE DEF bans, k
<1>5. seen'.first = f /\ seen'.boot = b /\ seen'.minted = k BY <1>2, <1>3 DEF SeenFields
<1>6. k = Kept(tk) BY <1>1 DEF k
<1>7. scene.last \in Nat BY <1>4, SceneTimes
<1>8. tk \in Nat /\ ticks <= tk /\ tk <= scene.last BY <1>1, <1>4, <1>7
<1>9. Firsts(f, b, ticks) /\ Booted(scene, b, ticks, lim) /\ Aged(scene, f, b, ticks, lim)
  BY DEF MintInv, AgeInv
<1> HIDE DEF f, b, tk
<1>10. \A n : Heard(f, b, ticks, n) => Heard(f, b, tk, n) BY <1>4, <1>8 DEF Heard
<1>11. \A n : Settled(f, b, ticks, n) => Settled(f, b, tk, n)
  BY <1>4, <1>8, <1>10, SceneTimes DEF Settled, Heard
<1>12. \A e : Dated(scene, f, b, ticks, e) => Dated(scene, f, b, tk, e)
  BY <1>4, <1>8, <1>10 DEF Dated, Heard
<1>13. Firsts(f, b, tk) /\ Aged(scene, f, b, tk, lim)
  BY <1>9, <1>10, <1>11, <1>12 DEF Firsts, Aged
<1>14. Booted(scene, b, tk, lim) BY <1>4, <1>8, <1>9 DEF Booted
<1>15. AgeInv' BY <1>1, <1>5, <1>8, <1>13, <1>14 DEF AgeInv
<1> DEFINE M == seen.minted
           g == lim.newcomers
<1>16. frames \in Nat /\ Minted(M, ticks, frames) BY DEF MintInv, BudgetInv
<1>17. PICK S : Spent(scene, ticks, M, g, S) BY DEF MintInv, BudgetInv
<1>18. IsFiniteSet(M) /\ k \subseteq M BY <1>6, <1>16 DEF Minted
<1>19. Spent(scene, tk, k, g, S)
  <2> HIDE DEF M, g, Kept
  <2>1. QED BY <1>4, <1>17, <1>18, LaterSpent DEF tk
<1>20. Minted(k, tk, frames)
  <2>1. IsFiniteSet(k) BY <1>18, FS_Subset
  <2>2. \A e \in k : e \in M /\ tk - e.at < Window BY <1>6
  <2>3. \A e \in M : e.at \in Nat /\ e.at <= ticks /\ e.frame \in Nat /\ e.frame < frames
    BY <1>16 DEF Minted
  <2>4. \A e \in k : e.at <= tk BY <1>4, <1>8, <2>2, <2>3
  <2>5. QED BY <2>1, <2>2, <2>3, <2>4 DEF Minted
<1>21. BudgetInv' BY <1>1, <1>5, <1>16, <1>19, <1>20 DEF BudgetInv
<1>22. QED BY <1>15, <1>21 DEF MintInv

LEMMA OtherMint ==
  ASSUME MintInv, LimInv, IdInv, [Next]_vars, ~Tick,
         ~\E p \in scene.packets, via \in scene.via : Transit(p, via)
  PROVE  MintInv'
<1>1. DOMAIN seen = SeenFields BY DEF LimInv
<1>2. /\ lim' = lim /\ scene' = scene /\ ticks' = ticks
      /\ frames' = frames \/ frames' = frames + 1
  <2>1. CASE UNCHANGED vars BY <2>1 DEF vars
  <2>2. CASE \E p \in scene.packets, via \in scene.via : ForUs(p, via) BY <2>2 DEF ForUs, Arrives
  <2>3. CASE Maintain BY <2>3 DEF Maintain
  <2>4. CASE Poll BY <2>4 DEF Poll
  <2>5. CASE \E n \in Nodes : Forget(n) BY <2>5 DEF Forget
  <2>6. CASE \E preset \in BOOLEAN : RadioReconfigured(preset) BY <2>6 DEF RadioReconfigured, Arrives
  <2>7. QED BY <2>1, <2>2, <2>3, <2>4, <2>5, <2>6 DEF Next
<1>3. seen'.first = seen.first /\ seen'.boot = seen.boot /\ seen'.minted = seen.minted
  <2>1. CASE UNCHANGED vars BY <2>1 DEF vars
  <2>2. CASE \E p \in scene.packets, via \in scene.via : ForUs(p, via)
    <3>1. PICK p, via : ForUs(p, via) BY <2>2
    <3> DEFINE fresh == via.byte = 0 /\ ~IsDuplicate(hist, p)
               c == IF fresh THEN I!RememberRelayIdentity(cache, p.from, now) ELSE cache
               n == p.from
               r == Remembered(seen, c, n)
               u == IF fresh THEN r ELSE seen
    <3>2. seen' = [u EXCEPT !.last = None] BY <3>1 DEF ForUs
    <3> HIDE DEF c, n, fresh
    <3>3. DOMAIN r = SeenFields /\ r.first = seen.first /\ r.boot = seen.boot /\ r.minted = seen.minted
      BY <1>1, RememberedLast, RememberedMinted
    <3> HIDE DEF r
    <3>4. DOMAIN u = SeenFields /\ u.first = seen.first /\ u.boot = seen.boot /\ u.minted = seen.minted
      BY <1>1, <3>3
    <3> HIDE DEF u
    <3>5. QED BY <3>2, <3>4 DEF SeenFields
  <2>3. CASE Maintain
    <3>1. seen' = Pruned(seen, cache') BY <2>3 DEF Maintain
    <3>2. QED BY <1>1, <3>1, ForgottenFields
  <2>4. CASE Poll BY <2>4 DEF Poll
  <2>5. CASE \E n \in Nodes : Forget(n) BY <2>5 DEF Forget
  <2>6. CASE \E preset \in BOOLEAN : RadioReconfigured(preset)
    <3>1. seen' \in {seen, NothingHeard(seen)} BY <2>6 DEF RadioReconfigured
    <3>2. QED BY <1>1, <3>1, ForgottenFields
  <2>7. QED BY <2>1, <2>2, <2>3, <2>4, <2>5, <2>6 DEF Next
<1>4. AgeInv' BY <1>2, <1>3 DEF MintInv, AgeInv
<1>5. BudgetInv'
  <2>1. frames \in Nat /\ Minted(seen.minted, ticks, frames) BY DEF MintInv, BudgetInv
  <2>2. frames' \in Nat /\ frames <= frames' BY <1>2, <2>1
  <2>3. Minted(seen.minted, ticks, frames') BY <2>1, <2>2 DEF Minted
  <2>4. QED BY <1>2, <1>3, <2>2, <2>3 DEF MintInv, BudgetInv
<1>6. QED BY <1>4, <1>5 DEF MintInv

(* The ages of the limiter and the count of its shared bucket stay true to *)
(* the arrivals, whatever arrives and however often the window rolls.      *)
THEOREM MintInvariant == Spec => []MintInv
<1>1. Init => MintInv
  <2> SUFFICES ASSUME Init PROVE MintInv OBVIOUS
  <2>1. /\ scene \in Scenes /\ ticks = 0 /\ frames = 0 /\ lim = L!NewLimiter
        /\ seen.first = [n \in Nodes |-> Never] /\ seen.boot = Never /\ seen.minted = {}
    BY DEF Init
  <2>2. lim.boot = Never /\ lim.young = << >> /\ lim.alumni = {} /\ lim.newcomers = L!Fresh(0)
    BY <2>1 DEF L!NewLimiter
  <2>3. AgeInv
    <3>1. ticks <= scene.last BY <2>1, SceneTimes
    <3>2. DOMAIN lim.young = {} BY <2>2
    <3>3. QED BY <2>1, <2>2, <3>1, <3>2 DEF AgeInv, Firsts, Booted, Aged
  <2>4. BudgetInv
    <3> DEFINE S == 0 - scene.start
               b == lim.newcomers
               M == seen.minted
               max == YoungTrip - 1
    <3>1. b.start = 0 /\ b.n = 0 BY <2>2 DEF L!Fresh
    <3>2. S \in Int /\ S <= ticks /\ At(scene, S) = 0 % Clock BY <2>1, Clocks DEF At
    <3>3. 0 % Clock = 0
      <4>1. 0 \in 0..(Clock - 1) /\ 0 \in Int /\ 0 = Clock * 0 + 0 BY WindowPositive
      <4>2. QED BY <4>1, WindowPositive, ModUnique
    <3>4. M = {} /\ From(M, S) = {} /\ Until(M, S) = {} BY <2>1 DEF From, Until
    <3>5. IsFiniteSet(M) /\ Cardinality(M) = 0 /\ Cardinality(From(M, S)) = 0 /\ Cardinality(Until(M, S)) = 0
      BY <3>4, FS_EmptySet
    <3>6. max \in Int /\ 0 <= max /\ 0 <= 2 * max BY SceneTimes
    <3> HIDE DEF S, b, M
    <3>7. Spent(scene, ticks, M, b, S) BY <3>1, <3>2, <3>3, <3>4, <3>5, <3>6 DEF Spent
    <3>8. Minted(M, ticks, frames) BY <3>4, <3>5 DEF Minted
    <3>9. QED BY <2>1, <3>7, <3>8 DEF BudgetInv, M, b
  <2>5. QED BY <2>3, <2>4 DEF MintInv
<1>2. MintInv /\ LimInv /\ IdInv /\ [Next]_vars => MintInv'
  BY TransitMint, TickMint, OtherMint DEF Next
<1>3. QED BY <1>1, <1>2, LimiterInvariant, IdInvariant, PTL DEF Spec

(* should_drop makes minted identities share one budget: whatever arrives, *)
(* at most two budgets' worth of packets from newcomers is admitted within *)
(* a window, however many of them there are, whatever the size of the      *)
(* young table (note_originator, is_young), and across the wrap.           *)
THEOREM MintedOneBudget == Spec => []MintedShareOneBudget
<1>1. MintInv => MintedShareOneBudget BY DEF MintInv, BudgetInv, Spent, MintedShareOneBudget
<1>2. QED BY <1>1, MintInvariant, PTL
=============================================================================
