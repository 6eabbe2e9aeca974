--------------------------- MODULE NodeAdminProofs ---------------------------
(***************************************************************************)
(* Settings, radio and flash of a node for every set of settings and every *)
(* number of requests, boots and faults.  First what each kind of step may *)
(* do is stated, then three groups of invariants follow from it: those of  *)
(* the settings, those of the radio and those of the flash.                *)
(***************************************************************************)
EXTENDS NodeAdmin, TLAPS

-----------------------------------------------------------------------------
(* Operators of the model keep their sets. *)
LEMMA CoercePosFacts ==
  ASSUME NEW p \in PosIntervals, NEW r \in Roles
  PROVE  /\ CoercePos(p, r) \in PosIntervals
         /\ CoercePos(CoercePos(p, r), r) = CoercePos(p, r)
  BY FloorsAssumption DEF CoercePos

LEMMA CommittedType ==
  ASSUME TypeOK
  PROVE  Committed \in Settings
  <1>1. /\ Or(buf.lora, live.lora) \in Loras /\ Or(buf.keys, live.keys) \in KeySets
        /\ Or(buf.interval, live.interval) \in Intervals /\ Or(buf.role, live.role) \in Roles
    BY DEF TypeOK, Settings, Buffers, Or
  <1>2. (IF buf.pos = None THEN live.pos ELSE buf.pos.secs) \in PosIntervals
    BY DEF TypeOK, Settings, Buffers
  <1>3. CoercePos(IF buf.pos = None THEN live.pos ELSE buf.pos.secs, Or(buf.role, live.role))
          \in PosIntervals
    BY <1>1, <1>2, CoercePosFacts
  <1>4. /\ (IF buf.pos = None THEN live.fixed ELSE buf.pos.fixed) \in BOOLEAN
        /\ live.coords \in Coords \cup {None} /\ live.pos \in PosIntervals
    BY DEF TypeOK, Settings, Buffers
  <1>5. Or(buf.owner, OwnerOf(live)) \in Owners
    BY DEF TypeOK, Settings, Buffers, Owners, Or, OwnerOf
  <1>6. QED
    BY <1>1, <1>3, <1>4, <1>5 DEF Committed, Settings, Owners

(* What Announce leaves in the waiting position. *)
LEMMA AnnounceType ==
  ASSUME TypeOK, NEW now \in BOOLEAN, Announce(now), live' \in Settings
  PROVE  position' \in Coords \cup {None}
  BY DEF TypeOK, Announce, Settings

LEMMA TypeInit == Init => TypeOK
  <1>1. NoBuffer \in Buffers
    BY DEF NoBuffer, Buffers
  <1> SUFFICES ASSUME Init PROVE TypeOK
    OBVIOUS
  <1>2. live \in Settings /\ advert \in Owners /\ radio \in Loras
    BY FlashAssumption DEF Init, Settings, Owners, OwnerOf
  <1>3. acked \in Acks
    BY DEF Init, NothingAcked, Acks, Values
  <1>4. requests \in 0..MaxRequests /\ boots \in 0..MaxBoots /\ faults \in 0..MaxFaults
    BY BoundsAssumption DEF Init
  <1>5. flash \in Records \cup {None}
    BY FlashAssumption DEF Init
  <1>6. QED
    BY <1>1, <1>2, <1>3, <1>4, <1>5 DEF Init, TypeOK

(* What every request leaves with its type, but for what it sets. *)
LEMMA ReceiveType ==
  ASSUME TypeOK, Receive
  PROVE  /\ requests' \in 0..MaxRequests /\ boots' \in 0..MaxBoots /\ faults' \in 0..MaxFaults
         /\ outbox' \subseteq Loras /\ radio' \in Loras /\ reinit' \in BOOLEAN /\ hold' \in BOOLEAN
         /\ flash' \in Records \cup {None} /\ up' \in {"off", "run", "nomesh"}
         /\ id' \in Ids \cup {None} /\ armed' \subseteq Resets
         /\ phase' \in {"top", "rx", "end"} /\ lastSave' \in {"none", "ok", "err", "boot_err"}
  BY BoundsAssumption DEF TypeOK, Receive

(* The two forms of a set request. *)
LEMMA BufferSetType ==
  ASSUME TypeOK, NEW b \in Buffers, BufferSet(b),
         acked' \in Acks
  PROVE  TypeOK'
  <1>1. Receive
    BY DEF BufferSet, Authorized
  <1>2. position' \in Coords \cup {None}
    BY AnnounceType DEF BufferSet, TypeOK
  <1>3. QED
    BY <1>1, <1>2, ReceiveType DEF BufferSet, TypeOK

LEMMA ApplySetType ==
  ASSUME TypeOK, NEW s \in Settings, ApplySet(s),
         acked' \in Acks,
         advert' \in Owners, wanted' \in Loras \cup {None}, asked' \in BOOLEAN
  PROVE  TypeOK'
  <1>1. Receive
    BY DEF ApplySet, Authorized
  <1>2. position' \in Coords \cup {None}
    BY AnnounceType DEF ApplySet, TypeOK
  <1>3. QED
    BY <1>1, <1>2, ReceiveType DEF ApplySet, TypeOK

LEMMA AckType ==
  ASSUME TypeOK, NEW f \in Fields, NEW v \in Values,
         acked' = Ack(f, v)
  PROVE  acked' \in Acks
  <1>1. None \in Values
    BY DEF Values
  <1>2. QED
    BY <1>1 DEF TypeOK, Ack, Acks

(* Requests keep the type of the state. *)
LEMMA RequestType ==
  ASSUME TypeOK, Request
  PROVE  TypeOK'
  <1>1. CASE Refuse \/ Get
    <2>1. Receive /\ live' = live /\ Announce(FALSE)
      BY <1>1 DEF Refuse, Get
    <2>2. position' \in Coords \cup {None}
      BY <2>1, AnnounceType DEF TypeOK
    <2>3. QED
      BY <1>1, <2>1, <2>2, ReceiveType DEF Refuse, Get, TypeOK
  <1>2. CASE BeginEdit
    <2>1. NoBuffer \in Buffers
      BY DEF NoBuffer, Buffers
    <2>2. \A f \in Fields : live[f] \in Values
      BY DEF TypeOK, Settings, Fields, Values
    <2>3. acked' \in Acks
      BY <1>2, <2>2 DEF BeginEdit, TypeOK, Acks
    <2>4. Receive /\ live' = live /\ Announce(FALSE)
      BY <1>2 DEF BeginEdit, Authorized
    <2>5. position' \in Coords \cup {None}
      BY <2>4, AnnounceType DEF TypeOK
    <2>6. QED
      BY <1>2, <2>1, <2>3, <2>4, <2>5, ReceiveType DEF BeginEdit, TypeOK
  <1>3. CASE CommitEdit
    <2>1. NoBuffer \in Buffers
      BY DEF NoBuffer, Buffers
    <2>2. Receive /\ live' = Committed /\ Announce(FALSE)
      BY <1>3 DEF CommitEdit, CommitTo, Authorized
    <2>3. live' \in Settings
      BY <2>2, CommittedType
    <2>4. position' \in Coords \cup {None}
      BY <2>2, <2>3, AnnounceType
    <2>5. advert' \in Owners /\ wanted' \in Loras \cup {None}
      BY <1>3 DEF CommitEdit, CommitTo, TypeOK, Buffers, Or
    <2>6. QED
      BY <1>3, <2>1, <2>2, <2>3, <2>4, <2>5, ReceiveType DEF CommitEdit, CommitTo, TypeOK
  <1>4. ASSUME NEW l \in Loras, SetLora(l) PROVE TypeOK'
    <2>1. acked' \in Acks
      BY <1>4, AckType DEF SetLora, Fields, Values
    <2>2. CASE BufferSet([buf EXCEPT !.lora = l])
      <3>1. [buf EXCEPT !.lora = l] \in Buffers
        BY DEF TypeOK, Buffers
      <3>2. QED
        BY <2>1, <2>2, <3>1, BufferSetType
    <2>3. CASE ApplySet([live EXCEPT !.lora = l]) /\ wanted' = l /\ asked' = TRUE /\ UNCHANGED advert
      <3>1. [live EXCEPT !.lora = l] \in Settings
        BY DEF TypeOK, Settings
      <3>2. advert' \in Owners /\ wanted' \in Loras \cup {None} /\ asked' \in BOOLEAN
        BY <2>3 DEF TypeOK
      <3>3. QED
        BY <2>1, <2>3, <3>1, <3>2, ApplySetType
    <2>4. QED
      BY <1>4, <2>2, <2>3 DEF SetLora
  <1>5. ASSUME NEW i \in Intervals, SetInterval(i) PROVE TypeOK'
    <2>1. acked' \in Acks
      BY <1>5, AckType DEF SetInterval, Fields, Values
    <2>2. [buf EXCEPT !.interval = i] \in Buffers /\ [live EXCEPT !.interval = i] \in Settings
      BY DEF TypeOK, Buffers, Settings
    <2>3. QED
      BY <1>5, <2>1, <2>2, BufferSetType, ApplySetType DEF SetInterval, TypeOK
  <1>6. ASSUME NEW k \in KeySets, SetKeys(k) PROVE TypeOK'
    <2>1. acked' \in Acks
      BY <1>6, AckType DEF SetKeys, Fields, Values
    <2>2. [buf EXCEPT !.keys = k] \in Buffers /\ [live EXCEPT !.keys = k] \in Settings
      BY DEF TypeOK, Buffers, Settings
    <2>3. QED
      BY <1>6, <2>1, <2>2, BufferSetType, ApplySetType DEF SetKeys, TypeOK
  <1>7. ASSUME NEW p \in [secs : PosIntervals, fixed : BOOLEAN], SetPosition(p) PROVE TypeOK'
    <2>1. acked' \in Acks
      BY <1>7 DEF SetPosition, TypeOK
    <2>2. CoercePos(p.secs, live.role) \in PosIntervals
      BY CoercePosFacts DEF TypeOK, Settings
    <2>3. /\ [buf EXCEPT !.pos = p] \in Buffers
          /\ [live EXCEPT !.pos = CoercePos(p.secs, live.role), !.fixed = p.fixed] \in Settings
      BY <2>2 DEF TypeOK, Buffers, Settings
    <2>4. QED
      BY <1>7, <2>1, <2>3, BufferSetType, ApplySetType DEF SetPosition, TypeOK
  <1>8. ASSUME NEW fixed \in BOOLEAN, NEW c \in Coords \cup {None}, NEW now \in BOOLEAN,
               FixPosition(fixed, c, now)
        PROVE  TypeOK'
    <2>1. [live EXCEPT !.fixed = fixed, !.coords = c] \in Settings
      BY DEF TypeOK, Settings
    <2>2. Receive /\ live' \in Settings /\ Announce(now)
      BY <1>8, <2>1 DEF FixPosition, Authorized
    <2>3. position' \in Coords \cup {None}
      BY <2>2, AnnounceType
    <2>4. QED
      BY <1>8, <2>2, <2>3, ReceiveType DEF FixPosition, TypeOK
  <1>9. ASSUME NEW r \in Roles, SetRole(r) PROVE TypeOK'
    <2>1. acked' \in Acks
      BY <1>9, AckType DEF SetRole, Fields, Values
    <2>2. CoercePos(live.pos, r) \in PosIntervals
      BY CoercePosFacts DEF TypeOK, Settings
    <2>3. [buf EXCEPT !.role = r] \in Buffers /\ RoleApplied(live, r) \in Settings
      BY <2>2 DEF TypeOK, Buffers, Settings, RoleApplied
    <2>4. QED
      BY <1>9, <2>1, <2>3, BufferSetType, ApplySetType DEF SetRole, TypeOK
  <1>10. ASSUME NEW names \in Owners, StoreOwner(names) PROVE TypeOK'
    <2>1. acked' \in Acks
      BY <1>10 DEF StoreOwner, TypeOK
    <2>2. /\ [buf EXCEPT !.owner = names] \in Buffers
          /\ [live EXCEPT !.short = names.short, !.long = names.long] \in Settings
      BY DEF TypeOK, Buffers, Settings, Owners
    <2>3. QED
      BY <1>10, <2>1, <2>2, BufferSetType, ApplySetType DEF StoreOwner, TypeOK
  <1>11. ASSUME NEW kind \in Resets, AskReset(kind) PROVE TypeOK'
    BY <1>11, ReceiveType DEF AskReset, TypeOK, adminVars
  <1>12. ASSUME NEW o \in [short : Names \cup {None}, long : Names \cup {None}],
                SetOwner(o.short, o.long)
         PROVE  TypeOK'
    <2>1. [short |-> Or(o.short, live.short), long |-> Or(o.long, live.long)] \in Owners
      BY DEF TypeOK, Settings, Owners, Or
    <2>2. QED
      BY <1>12, <2>1, <1>10 DEF SetOwner
  <1>13. QED
    BY <1>1, <1>2, <1>3, <1>4, <1>5, <1>6, <1>7, <1>8, <1>9, <1>11, <1>12
    DEF Request, SetFixedPosition, RemoveFixedPosition

(* Saves and the boot keep the type of what they write. *)
LEMMA SaveType ==
  ASSUME TypeOK, NEW rec \in Records, NEW ok \in BOOLEAN, Save(rec, ok)
  PROVE  flash' \in Records \cup {None} /\ faults' \in 0..MaxFaults
  BY BoundsAssumption DEF TypeOK, Save

LEMMA BootRecordType ==
  ASSUME TypeOK, NEW drawn \in Ids
  PROVE  BootRecord(drawn) \in Records
  <1>1. CASE flash = None
    BY <1>1, FlashAssumption DEF BootRecord, Records
  <1>2. CASE flash # None
    BY <1>2 DEF BootRecord, Records, TypeOK
  <1>3. QED
    BY <1>1, <1>2

(* A running node has a key pair. *)
HasKey == up = "run" => id \in Ids

LEMMA PersistType ==
  ASSUME TypeOK, HasKey, up = "run", NEW ok \in BOOLEAN, Persist(ok)
  PROVE  /\ flash' \in Records \cup {None} /\ faults' \in 0..MaxFaults
         /\ dirty' \in BOOLEAN /\ lastSave' \in {"none", "ok", "err", "boot_err"}
  <1>1. [id |-> id, set |-> live] \in Records
    BY DEF TypeOK, HasKey, Records
  <1>2. Save([id |-> id, set |-> live], ok)
    BY DEF Persist, PersistThen
  <1>3. flash' \in Records \cup {None} /\ faults' \in 0..MaxFaults
    BY <1>1, <1>2, SaveType
  <1>4. QED
    BY <1>3 DEF TypeOK, Persist, PersistThen

LEMMA BootType ==
  ASSUME TypeOK, NEW saved \in BOOLEAN, Boot(saved)
  PROVE  TypeOK' /\ HasKey'
  <1>1. boots' \in Ids /\ boots' \in 0..MaxBoots
    BY IdsAssumption, BoundsAssumption DEF TypeOK, Boot
  <1> DEFINE rec == BootRecord(boots')
  <1>2. rec \in Records
    BY <1>1, BootRecordType
  <1>3. flash' \in Records \cup {None} /\ faults' \in 0..MaxFaults
    <2>1. CASE rec # flash
      BY <1>2, <2>1, SaveType DEF Boot
    <2>2. CASE rec = flash
      BY <2>2 DEF Boot, TypeOK
    <2>3. QED
      BY <2>1, <2>2
  <1>4. LoadNodeConfig(rec)
    BY DEF Boot
  <1> HIDE DEF rec
  <1>5. CoercePos(rec.set.pos, rec.set.role) \in PosIntervals
    BY <1>2, CoercePosFacts DEF Records, Settings
  <1>6. live' \in Settings /\ dirty' \in BOOLEAN /\ id' \in Ids /\ radio' \in Loras
    BY <1>2, <1>4, <1>5 DEF LoadNodeConfig, Records, Settings
  <1>7. NoBuffer \in Buffers /\ NothingAcked \in Acks
    BY DEF NoBuffer, Buffers, NothingAcked, Acks, Values
  <1>8. advert' \in Owners
    BY NamesAssumption DEF Boot, SetNodeIdentity, Owners
  <1>9. lastSave' \in {"none", "ok", "err", "boot_err"}
    BY DEF Boot
  <1>10. QED
    BY <1>1, <1>3, <1>6, <1>7, <1>8, <1>9 DEF Boot, TypeOK, HasKey

(* The passes of the radio loop. *)
LEMMA LoopType ==
  ASSUME TypeOK, HasKey, Loop
  PROVE  TypeOK'
  <1> USE DEF TypeOK, adminVars, radioVars, loopVars, countVars, Running, GoTo
  <1>1. ASSUME NEW kind \in Resets, NEW ok \in BOOLEAN, TakeReset(kind, ok) PROVE TypeOK'
    BY <1>1, PersistType DEF TakeReset
  <1>2. CASE ResetNow
    BY <1>2 DEF ResetNow
  <1>3. CASE ToReceptions
    BY <1>3 DEF ToReceptions
  <1>4. ASSUME NEW l \in Loras, SendReply(l) PROVE TypeOK'
    BY <1>4 DEF SendReply
  <1>5. CASE SendPosition
    BY <1>5 DEF SendPosition
  <1>6. CASE AnnouncePosition
    BY <1>6 DEF AnnouncePosition, Settings
  <1>7. CASE ToEnd
    BY <1>7 DEF ToEnd
  <1>8. ASSUME NEW ok \in BOOLEAN, Reinit(ok) PROVE TypeOK'
    <2>1. faults' \in 0..MaxFaults
      BY <1>8, BoundsAssumption DEF Reinit, ApplyModemPresetSoft
    <2>2. QED
      BY <1>8, <2>1 DEF Reinit, ApplyModemPresetSoft, Or
  <1>9. ASSUME NEW ok \in BOOLEAN, StorePass(ok) PROVE TypeOK'
    BY <1>9, PersistType DEF StorePass
  <1>10. CASE HoldEnds
    BY <1>10 DEF HoldEnds
  <1>11. CASE NextPass
    BY <1>11 DEF NextPass, PassEnds
  <1>12. QED
    BY <1>1, <1>2, <1>3, <1>4, <1>5, <1>6, <1>7, <1>8, <1>9, <1>10, <1>11 DEF Loop

(* Only a boot gives a node its key pair or starts it. *)
LEMMA OnlyBootStarts ==
  ASSUME Request \/ SessionEnds \/ Loop \/ PowerFail \/ BootWithoutRandomness \/ UNCHANGED vars
  PROVE  id' = id /\ (up' = "run" => up = "run")
  <1>1. CASE Request
    <2>1. Receive
      BY <1>1 DEF Request, Refuse, Get, BeginEdit, CommitEdit, CommitTo, SetLora, SetInterval,
         SetKeys, SetPosition, SetFixedPosition, RemoveFixedPosition, FixPosition, SetRole,
         SetOwner, StoreOwner, AskReset, BufferSet, ApplySet, Authorized
    <2>2. QED
      BY <2>1 DEF Receive
  <1>2. CASE Loop
    BY <1>2 DEF Loop, TakeReset, ResetNow, ToReceptions, SendReply, SendPosition,
       AnnouncePosition, ToEnd, Reinit, ApplyModemPresetSoft, StorePass, HoldEnds, NextPass, PassEnds
  <1>3. CASE SessionEnds \/ PowerFail \/ BootWithoutRandomness \/ UNCHANGED vars
    BY <1>3 DEF SessionEnds, PowerFail, BootWithoutRandomness, vars
  <1>4. QED
    BY <1>1, <1>2, <1>3

(* The session times out, the power fails, the node starts off the mesh. *)
LEMMA OtherType ==
  ASSUME TypeOK, SessionEnds \/ PowerFail \/ BootWithoutRandomness \/ UNCHANGED vars
  PROVE  TypeOK'
  <1> USE DEF TypeOK, adminVars, radioVars, loopVars, countVars
  <1>1. CASE SessionEnds
    <2>1. session' \in BOOLEAN
      BY <1>1 DEF SessionEnds
    <2>2. UNCHANGED <<flash, up, id, live, editing, buf, dirty, advert, position, radioVars,
                      loopVars, countVars, acked, lastSave>>
      BY <1>1, Zenon DEF SessionEnds
    <2>3. QED
      BY <2>1, <2>2
  <1>2. CASE PowerFail
    BY <1>2 DEF PowerFail
  <1>3. CASE BootWithoutRandomness
    <2>1. boots' \in 0..MaxBoots
      BY <1>3, BoundsAssumption DEF BootWithoutRandomness
    <2>2. QED
      BY <1>3, <2>1 DEF BootWithoutRandomness
  <1>4. CASE UNCHANGED vars
    BY <1>4 DEF vars
  <1>5. QED
    BY <1>1, <1>2, <1>3, <1>4

LEMMA TypeStep ==
  ASSUME TypeOK, HasKey, [Next]_vars
  PROVE  TypeOK' /\ HasKey'
  <1>1. ASSUME NEW saved \in BOOLEAN, Boot(saved) PROVE TypeOK' /\ HasKey'
    BY <1>1, BootType
  <1>2. CASE Request \/ SessionEnds \/ Loop \/ PowerFail \/ BootWithoutRandomness \/ UNCHANGED vars
    <2>1. HasKey'
      BY <1>2, OnlyBootStarts DEF HasKey
    <2>2. TypeOK'
      BY <1>2, RequestType, LoopType, OtherType
    <2>3. QED
      BY <2>1, <2>2
  <1>3. QED
    BY <1>1, <1>2 DEF Next

(* The state of a node keeps its type: no request, fault or power failure  *)
(* in any order makes a setting leave its range.                           *)
THEOREM TypeCorrect == Spec => [](TypeOK /\ HasKey)
  <1>1. Init => TypeOK /\ HasKey
    BY TypeInit DEF Init, HasKey
  <1>2. QED
    BY <1>1, TypeStep, PTL DEF Spec

-----------------------------------------------------------------------------
(* The invariants of the settings.                                         *)

(* Settings are buffered in an open edit only. *)
BufferedInEdit == ~editing => buf = NoBuffer

SettingsInv ==
  BufferedInEdit /\ AckedIsHeld /\ PositionAboveFloor /\ WaitingPositionIsCurrent

(* AckedIsHeld, setting by setting. *)
HeldField(a, b, l) == a.val # None => Or(b, l) = Or(a.back, a.val)
EachHeld(a, b, l) ==
  /\ HeldField(a["lora"], b.lora, l.lora) /\ HeldField(a["interval"], b.interval, l.interval)
  /\ HeldField(a["role"], b.role, l.role) /\ HeldField(a["keys"], b.keys, l.keys)

LEMMA AckedByField == AckedIsHeld <=> (up = "run" => EachHeld(acked, buf, live))
  BY DEF AckedIsHeld, EachHeld, HeldField, Fields

LEMMA AckedByFieldNext == AckedIsHeld' <=> (up' = "run" => EachHeld(acked', buf', live'))
  BY DEF AckedIsHeld, EachHeld, HeldField, Fields

(* A request leaves the waiting position current if it keeps the           *)
(* coordinates or announces the new ones.                                  *)
LEMMA AnnounceCurrent ==
  ASSUME WaitingPositionIsCurrent, NEW now \in BOOLEAN, Announce(now),
         now \/ live'.coords = live.coords
  PROVE  WaitingPositionIsCurrent'
  BY DEF WaitingPositionIsCurrent, Announce, Broadcasts

(* A set request in an open edit. *)
LEMMA BufferSetKeeps ==
  ASSUME TypeOK, SettingsInv, NEW b, BufferSet(b), EachHeld(acked', b, live)
  PROVE  SettingsInv'
  <1>1. live' = live /\ buf' = b /\ editing' = editing /\ editing /\ up = "run" /\ up' = up
        /\ Announce(FALSE)
    BY DEF BufferSet, Authorized, Receive
  <1>2. WaitingPositionIsCurrent'
    BY <1>1, AnnounceCurrent DEF SettingsInv
  <1>3. AckedIsHeld'
    BY <1>1, AckedByFieldNext
  <1>4. PositionAboveFloor'
    BY <1>1 DEF SettingsInv, PositionAboveFloor
  <1>5. BufferedInEdit'
    BY <1>1 DEF BufferedInEdit
  <1>6. QED
    BY <1>2, <1>3, <1>4, <1>5 DEF SettingsInv

(* A set request outside an edit. *)
LEMMA ApplySetKeeps ==
  ASSUME TypeOK, SettingsInv, NEW s, ApplySet(s), EachHeld(acked', NoBuffer, s),
         s.pos = CoercePos(s.pos, s.role), s.coords = live.coords
  PROVE  SettingsInv'
  <1>1. live' = s /\ buf' = buf /\ editing' = editing /\ ~editing /\ Announce(FALSE)
    BY DEF ApplySet, Authorized, Receive
  <1>2. WaitingPositionIsCurrent'
    BY <1>1, AnnounceCurrent DEF SettingsInv
  <1>3. buf = NoBuffer
    BY <1>1 DEF SettingsInv, BufferedInEdit
  <1>4. AckedIsHeld'
    BY <1>1, <1>3, AckedByFieldNext
  <1>5. PositionAboveFloor'
    BY <1>1 DEF PositionAboveFloor
  <1>6. BufferedInEdit'
    BY <1>1, <1>3 DEF BufferedInEdit
  <1>7. QED
    BY <1>2, <1>4, <1>5, <1>6 DEF SettingsInv

(* Outside an edit nothing is buffered, so what was acknowledged is live. *)
LEMMA LiveHeld ==
  ASSUME SettingsInv, ~editing, up = "run"
  PROVE  EachHeld(acked, NoBuffer, live)
  BY AckedByField DEF SettingsInv, BufferedInEdit

(* Every request keeps the invariants of the settings. *)
LEMMA RequestSettings ==
  ASSUME TypeOK, SettingsInv, Request
  PROVE  SettingsInv'
  <1>0. /\ EachHeld(acked, buf, live) \/ up # "run"
        /\ live.pos = CoercePos(live.pos, live.role) \/ up # "run"
    BY AckedByField DEF SettingsInv, PositionAboveFloor
  <1>1. CASE Refuse \/ Get
    <2>1. live' = live /\ Announce(FALSE) /\ buf' = buf /\ editing' = editing /\ acked' = acked
          /\ up = "run"
      BY <1>1 DEF Refuse, Get, Receive
    <2>2. WaitingPositionIsCurrent'
      BY <2>1, AnnounceCurrent DEF SettingsInv
    <2>3. AckedIsHeld'
      BY <1>0, <2>1, AckedByFieldNext
    <2>4. QED
      BY <2>1, <2>2, <2>3, <1>0 DEF SettingsInv, BufferedInEdit, PositionAboveFloor
  <1>2. CASE BeginEdit
    <2>1. live' = live /\ Announce(FALSE) /\ buf' = NoBuffer /\ editing' = TRUE /\ up = "run"
      BY <1>2 DEF BeginEdit, Authorized, Receive
    <2>2. WaitingPositionIsCurrent'
      BY <2>1, AnnounceCurrent DEF SettingsInv
    <2>3. EachHeld(acked', NoBuffer, live)
      <3>1. /\ live.lora # None /\ live.interval # None /\ live.role # None /\ live.keys # None
            /\ acked \in Acks
        BY NoneAssumption DEF TypeOK, Settings
      <3>2. QED
        BY <1>2, <1>0, <2>1, <3>1 DEF BeginEdit, EachHeld, HeldField, Or, NoBuffer, Fields, Acks
    <2>4. AckedIsHeld'
      BY <2>1, <2>3, AckedByFieldNext
    <2>5. QED
      BY <2>1, <2>2, <2>4, <1>0 DEF SettingsInv, BufferedInEdit, PositionAboveFloor
  <1>3. CASE CommitEdit
    <2>1. live' = Committed /\ Announce(FALSE) /\ buf' = NoBuffer /\ up = "run" /\ acked' = acked
      BY <1>3 DEF CommitEdit, CommitTo, Authorized, Receive
    <2>2. Committed.coords = live.coords
      BY DEF Committed
    <2>3. WaitingPositionIsCurrent'
      BY <2>1, <2>2, AnnounceCurrent DEF SettingsInv
    <2>4. EachHeld(acked, NoBuffer, Committed)
      BY <1>0, <2>1 DEF EachHeld, HeldField, Or, NoBuffer, Committed
    <2>5. AckedIsHeld'
      BY <2>1, <2>4, AckedByFieldNext
    <2>6. Committed.pos = CoercePos(Committed.pos, Committed.role)
      <3>1. CASE buf.pos = None /\ buf.role = None
        BY <1>0, <2>1, <3>1 DEF Committed, Or
      <3>2. CASE ~(buf.pos = None /\ buf.role = None)
        <4> DEFINE p == IF buf.pos = None THEN live.pos ELSE buf.pos.secs
                   r == Or(buf.role, live.role)
        <4>1. p \in PosIntervals /\ r \in Roles
          BY DEF TypeOK, Settings, Buffers, Or
        <4>2. Committed.pos = CoercePos(p, r) /\ Committed.role = r
          BY <3>2 DEF Committed
        <4> HIDE DEF p, r
        <4>3. QED
          BY <4>1, <4>2, CoercePosFacts
      <3>3. QED
        BY <3>1, <3>2
    <2>7. QED
      BY <2>1, <2>3, <2>5, <2>6 DEF SettingsInv, BufferedInEdit, PositionAboveFloor
  <1>4. ASSUME NEW l \in Loras, SetLora(l) PROVE SettingsInv'
    <2>1. CASE BufferSet([buf EXCEPT !.lora = l])
      <3>1. EachHeld(acked', [buf EXCEPT !.lora = l], live)
        BY <1>4, <1>0, <2>1 DEF SetLora, Ack, BufferSet, Authorized, Receive, EachHeld, HeldField,
           Or, TypeOK, Acks, Buffers, Fields
      <3>2. QED
        BY <2>1, <3>1, BufferSetKeeps
    <2>2. CASE ApplySet([live EXCEPT !.lora = l])
      <3>1. EachHeld(acked', NoBuffer, [live EXCEPT !.lora = l])
        <4>1. EachHeld(acked, NoBuffer, live)
          BY <2>2, LiveHeld DEF ApplySet, Authorized, Receive
        <4>2. QED
          BY <1>4, <4>1 DEF SetLora, Ack, EachHeld, HeldField, Or, NoBuffer, TypeOK, Acks, Settings,
             Fields
      <3>2. /\ [live EXCEPT !.lora = l].pos = CoercePos([live EXCEPT !.lora = l].pos, [live EXCEPT !.lora = l].role)
            /\ [live EXCEPT !.lora = l].coords = live.coords
        BY <1>0, <2>2 DEF ApplySet, Authorized, Receive, TypeOK, Settings
      <3>3. QED
        BY <2>2, <3>1, <3>2, ApplySetKeeps
    <2>3. QED
      BY <1>4, <2>1, <2>2 DEF SetLora
  <1>5. ASSUME NEW i \in Intervals, SetInterval(i) PROVE SettingsInv'
    <2>1. CASE BufferSet([buf EXCEPT !.interval = i])
      <3>1. EachHeld(acked', [buf EXCEPT !.interval = i], live)
        BY <1>5, <1>0, <2>1 DEF SetInterval, Ack, BufferSet, Authorized, Receive, EachHeld, HeldField,
           Or, TypeOK, Acks, Buffers, Fields
      <3>2. QED
        BY <2>1, <3>1, BufferSetKeeps
    <2>2. CASE ApplySet([live EXCEPT !.interval = i])
      <3>1. EachHeld(acked', NoBuffer, [live EXCEPT !.interval = i])
        <4>1. EachHeld(acked, NoBuffer, live)
          BY <2>2, LiveHeld DEF ApplySet, Authorized, Receive
        <4>2. QED
          BY <1>5, <4>1 DEF SetInterval, Ack, EachHeld, HeldField, Or, NoBuffer, TypeOK, Acks, Settings,
             Fields
      <3>2. /\ [live EXCEPT !.interval = i].pos = CoercePos([live EXCEPT !.interval = i].pos, [live EXCEPT !.interval = i].role)
            /\ [live EXCEPT !.interval = i].coords = live.coords
        BY <1>0, <2>2 DEF ApplySet, Authorized, Receive, TypeOK, Settings
      <3>3. QED
        BY <2>2, <3>1, <3>2, ApplySetKeeps
    <2>3. QED
      BY <1>5, <2>1, <2>2 DEF SetInterval
  <1>6. ASSUME NEW k \in KeySets, SetKeys(k) PROVE SettingsInv'
    <2>1. CASE BufferSet([buf EXCEPT !.keys = k])
      <3>1. EachHeld(acked', [buf EXCEPT !.keys = k], live)
        BY <1>6, <1>0, <2>1 DEF SetKeys, Ack, BufferSet, Authorized, Receive, EachHeld, HeldField,
           Or, TypeOK, Acks, Buffers, Fields
      <3>2. QED
        BY <2>1, <3>1, BufferSetKeeps
    <2>2. CASE ApplySet([live EXCEPT !.keys = k])
      <3>1. EachHeld(acked', NoBuffer, [live EXCEPT !.keys = k])
        <4>1. EachHeld(acked, NoBuffer, live)
          BY <2>2, LiveHeld DEF ApplySet, Authorized, Receive
        <4>2. QED
          BY <1>6, <4>1 DEF SetKeys, Ack, EachHeld, HeldField, Or, NoBuffer, TypeOK, Acks, Settings,
             Fields
      <3>2. /\ [live EXCEPT !.keys = k].pos = CoercePos([live EXCEPT !.keys = k].pos, [live EXCEPT !.keys = k].role)
            /\ [live EXCEPT !.keys = k].coords = live.coords
        BY <1>0, <2>2 DEF ApplySet, Authorized, Receive, TypeOK, Settings
      <3>3. QED
        BY <2>2, <3>1, <3>2, ApplySetKeeps
    <2>3. QED
      BY <1>6, <2>1, <2>2 DEF SetKeys
  <1>7. ASSUME NEW p \in [secs : PosIntervals, fixed : BOOLEAN], SetPosition(p) PROVE SettingsInv'
    <2>1. acked' = acked
      BY <1>7 DEF SetPosition
    <2>2. CASE BufferSet([buf EXCEPT !.pos = p])
      <3>1. EachHeld(acked, [buf EXCEPT !.pos = p], live)
        BY <1>0, <2>2 DEF BufferSet, Authorized, Receive, EachHeld, TypeOK, Buffers
      <3>2. QED
        BY <2>1, <2>2, <3>1, BufferSetKeeps
    <2>3. CASE ApplySet([live EXCEPT !.pos = CoercePos(p.secs, live.role), !.fixed = p.fixed])
      <3> DEFINE s == [live EXCEPT !.pos = CoercePos(p.secs, live.role), !.fixed = p.fixed]
      <3>1. EachHeld(acked, NoBuffer, s)
        <4>1. EachHeld(acked, NoBuffer, live)
          BY <2>3, LiveHeld DEF ApplySet, Authorized, Receive
        <4>2. QED
          BY <4>1 DEF EachHeld, TypeOK, Settings
      <3>2. s.pos = CoercePos(s.pos, s.role) /\ s.coords = live.coords
        BY CoercePosFacts DEF ApplySet, Authorized, Receive, TypeOK, Settings
      <3>3. QED
        BY <2>1, <2>3, <3>1, <3>2, ApplySetKeeps
    <2>4. QED
      BY <1>7, <2>2, <2>3 DEF SetPosition
  <1>8. ASSUME NEW fixed \in BOOLEAN, NEW c \in Coords \cup {None}, NEW now \in BOOLEAN,
               FixPosition(fixed, c, now), now \/ ~fixed
        PROVE  SettingsInv'
    <2>1. /\ live' = [live EXCEPT !.fixed = fixed, !.coords = c] /\ Announce(now)
          /\ buf' = buf /\ editing' = editing /\ acked' = acked /\ up = "run" /\ up' = up
      BY <1>8 DEF FixPosition, Authorized, Receive
    <2>2. WaitingPositionIsCurrent'
      BY <1>8, <2>1 DEF WaitingPositionIsCurrent, Announce, Broadcasts, TypeOK, Settings
    <2>3. EachHeld(acked, buf, live')
      BY <1>0, <2>1 DEF EachHeld, TypeOK, Settings
    <2>4. AckedIsHeld'
      BY <2>1, <2>3, AckedByFieldNext
    <2>5. PositionAboveFloor'
      BY <1>0, <2>1 DEF PositionAboveFloor, TypeOK, Settings
    <2>6. QED
      BY <2>1, <2>2, <2>4, <2>5 DEF SettingsInv, BufferedInEdit
  <1>9. ASSUME NEW r \in Roles, SetRole(r) PROVE SettingsInv'
    <2>1. CASE BufferSet([buf EXCEPT !.role = r])
      <3>1. EachHeld(acked', [buf EXCEPT !.role = r], live)
        BY <1>9, <1>0, <2>1 DEF SetRole, Ack, BufferSet, Authorized, Receive, EachHeld, HeldField,
           Or, TypeOK, Acks, Buffers, Fields
      <3>2. QED
        BY <2>1, <3>1, BufferSetKeeps
    <2>2. CASE ApplySet(RoleApplied(live, r))
      <3>1. EachHeld(acked', NoBuffer, RoleApplied(live, r))
        <4>1. EachHeld(acked, NoBuffer, live)
          BY <2>2, LiveHeld DEF ApplySet, Authorized, Receive
        <4>2. QED
          BY <1>9, <4>1 DEF SetRole, Ack, EachHeld, HeldField, Or, NoBuffer, TypeOK, Acks, Settings,
             Fields, RoleApplied
      <3>2. /\ RoleApplied(live, r).pos = CoercePos(RoleApplied(live, r).pos, RoleApplied(live, r).role)
            /\ RoleApplied(live, r).coords = live.coords
        BY <1>0, <2>2, CoercePosFacts DEF ApplySet, Authorized, Receive, TypeOK, Settings, RoleApplied
      <3>3. QED
        BY <2>2, <3>1, <3>2, ApplySetKeeps
    <2>3. QED
      BY <1>9, <2>1, <2>2 DEF SetRole
  <1>10. ASSUME NEW names \in Owners, StoreOwner(names) PROVE SettingsInv'
    <2>1. acked' = acked
      BY <1>10 DEF StoreOwner
    <2>2. CASE BufferSet([buf EXCEPT !.owner = names])
      <3>1. EachHeld(acked, [buf EXCEPT !.owner = names], live)
        BY <1>0, <2>2 DEF BufferSet, Authorized, Receive, EachHeld, TypeOK, Buffers
      <3>2. QED
        BY <2>1, <2>2, <3>1, BufferSetKeeps
    <2>3. CASE ApplySet([live EXCEPT !.short = names.short, !.long = names.long])
      <3> DEFINE s == [live EXCEPT !.short = names.short, !.long = names.long]
      <3>1. EachHeld(acked, NoBuffer, s)
        <4>1. EachHeld(acked, NoBuffer, live)
          BY <2>3, LiveHeld DEF ApplySet, Authorized, Receive
        <4>2. QED
          BY <4>1 DEF EachHeld, TypeOK, Settings
      <3>2. s.pos = CoercePos(s.pos, s.role) /\ s.coords = live.coords
        BY <1>0, <2>3 DEF ApplySet, Authorized, Receive, TypeOK, Settings
      <3>3. QED
        BY <2>1, <2>3, <3>1, <3>2, ApplySetKeeps
    <2>4. QED
      BY <1>10, <2>2, <2>3 DEF StoreOwner
  <1>11. ASSUME NEW kind \in Resets, AskReset(kind) PROVE SettingsInv'
    <2>1. /\ live' = live /\ position' = position /\ buf' = buf /\ editing' = editing
          /\ acked' = acked /\ up' = up
      BY <1>11 DEF AskReset, Receive, adminVars
    <2>2. QED
      BY <2>1 DEF SettingsInv, BufferedInEdit, AckedIsHeld, PositionAboveFloor,
         WaitingPositionIsCurrent, Broadcasts
  <1>12. ASSUME NEW o \in [short : Names \cup {None}, long : Names \cup {None}],
                SetOwner(o.short, o.long)
         PROVE  SettingsInv'
    <2>1. [short |-> Or(o.short, live.short), long |-> Or(o.long, live.long)] \in Owners
      BY DEF TypeOK, Settings, Owners, Or
    <2>2. QED
      BY <1>12, <2>1, <1>10 DEF SetOwner
  <1>13. QED
    BY <1>1, <1>2, <1>3, <1>4, <1>5, <1>6, <1>7, <1>8, <1>9, <1>11, <1>12
    DEF Request, SetFixedPosition, RemoveFixedPosition

(* The radio loop touches no setting but the waiting position. *)
LEMMA LoopSettings ==
  ASSUME SettingsInv, Loop
  PROVE  SettingsInv'
  <1>1. /\ live' = live /\ buf' = buf /\ editing' = editing /\ acked' = acked
        /\ up' = "run" => up = "run"
        /\ \/ position' \in {position, None}
           \/ Broadcasts(live) /\ position' = live.coords
    BY DEF Loop, TakeReset, ResetNow, ToReceptions, SendReply, SendPosition, AnnouncePosition,
       ToEnd, Reinit, ApplyModemPresetSoft, StorePass, HoldEnds, NextPass, PassEnds, adminVars
  <1>2. QED
    BY <1>1 DEF SettingsInv, BufferedInEdit, AckedIsHeld, PositionAboveFloor,
       WaitingPositionIsCurrent, Broadcasts

LEMMA BootSettings ==
  ASSUME TypeOK, NEW saved \in BOOLEAN, Boot(saved)
  PROVE  SettingsInv'
  <1>1. boots' \in Ids
    BY IdsAssumption, BoundsAssumption DEF TypeOK, Boot
  <1> DEFINE rec == BootRecord(boots')
  <1>2. rec \in Records /\ LoadNodeConfig(rec)
    BY <1>1, BootRecordType DEF Boot
  <1>3. /\ buf' = NoBuffer /\ editing' = FALSE /\ acked' = NothingAcked /\ position' = None
    BY DEF Boot
  <1> HIDE DEF rec
  <1>4. PositionAboveFloor'
    BY <1>2, CoercePosFacts DEF LoadNodeConfig, PositionAboveFloor, Records, Settings
  <1>5. QED
    BY <1>3, <1>4 DEF SettingsInv, BufferedInEdit, AckedIsHeld, NothingAcked,
       WaitingPositionIsCurrent, Fields

LEMMA OtherSettings ==
  ASSUME SettingsInv, SessionEnds \/ PowerFail \/ BootWithoutRandomness \/ UNCHANGED vars
  PROVE  SettingsInv'
  <1>1. /\ live' = live /\ buf' = buf /\ editing' = editing /\ acked' = acked
        /\ up' = "run" => up = "run"
        /\ position' = position
    BY DEF SessionEnds, PowerFail, BootWithoutRandomness, vars, adminVars
  <1>2. QED
    BY <1>1 DEF SettingsInv, BufferedInEdit, AckedIsHeld, PositionAboveFloor,
       WaitingPositionIsCurrent, Broadcasts

LEMMA SettingsStep ==
  ASSUME TypeOK, SettingsInv, [Next]_vars
  PROVE  SettingsInv'
  BY RequestSettings, LoopSettings, BootSettings, OtherSettings DEF Next

LEMMA SettingsAlways == Spec => []SettingsInv
  <1>1. Init => SettingsInv
    BY DEF Init, SettingsInv, BufferedInEdit, AckedIsHeld, PositionAboveFloor,
       WaitingPositionIsCurrent
  <1>2. QED
    BY <1>1, SettingsStep, TypeCorrect, PTL DEF Spec

(* An acknowledged setting is in force or waits in the open edit, whatever *)
(* requests and refused commits come between - or the edit it waited in    *)
(* was begun again, which discards it, and the setting is the one before   *)
(* that edit.                                                              *)
THEOREM AckedAlwaysHeld == Spec => []AckedIsHeld
  BY SettingsAlways, PTL DEF SettingsInv

(* set_device_role and the position requests together keep the floor of    *)
(* the role, in every order, through commits and boots.                    *)
THEOREM PositionFloorHolds == Spec => []PositionAboveFloor
  BY SettingsAlways, PTL DEF SettingsInv

(* No frame with a position that was removed or switched off is left to    *)
(* send.                                                                   *)
THEOREM NoStalePosition == Spec => []WaitingPositionIsCurrent
  BY SettingsAlways, PTL DEF SettingsInv

-----------------------------------------------------------------------------
(* What a request may do to the radio and to the flash.                    *)

(* The radio settings stay, or the new ones are wanted and the restart of  *)
(* the radio is asked for.                                                 *)
RadioEffect ==
  \/ wanted' = wanted /\ asked' = asked /\ live'.lora = live.lora
  \/ wanted' = live'.lora /\ asked' = TRUE

(* The settings stay, or are marked as not saved. *)
DirtyEffect == (live' = live /\ dirty' = dirty) \/ dirty' = TRUE

(* An empty edit commits nothing. *)
LEMMA EmptyCommit ==
  ASSUME TypeOK, buf = NoBuffer
  PROVE  Committed = live
  <1>1. /\ buf.lora = None /\ buf.keys = None /\ buf.interval = None
        /\ buf.role = None /\ buf.pos = None /\ buf.owner = None
    BY DEF NoBuffer
  <1>2. Committed = [lora |-> live.lora, keys |-> live.keys, interval |-> live.interval,
                     role |-> live.role, pos |-> live.pos, fixed |-> live.fixed,
                     coords |-> live.coords, short |-> live.short, long |-> live.long]
    BY <1>1 DEF Committed, Or, OwnerOf
  <1>3. QED
    BY <1>2 DEF TypeOK, Settings

LEMMA RequestEffect ==
  ASSUME TypeOK, Request
  PROVE  /\ up = "run" /\ phase = "rx" /\ outbox' = outbox \cup {radio}
         /\ UNCHANGED <<flash, up, id, reinit, radio, armed, hold, phase, lastSave>>
         /\ RadioEffect /\ DirtyEffect
  <1>1. Receive
    BY DEF Request, Refuse, Get, BeginEdit, CommitEdit, CommitTo, SetLora, SetInterval,
       SetKeys, SetPosition, SetFixedPosition, RemoveFixedPosition, FixPosition, SetRole,
       SetOwner, StoreOwner, AskReset, BufferSet, ApplySet, Authorized
  <1>2. RadioEffect
    <2>1. CASE CommitEdit
      <3>1. /\ live'.lora = Or(buf.lora, live.lora) /\ wanted' = Or(buf.lora, wanted)
            /\ asked' = (asked \/ buf.lora # None) /\ asked \in BOOLEAN
        BY <2>1 DEF CommitEdit, CommitTo, Committed, TypeOK
      <3>2. CASE buf.lora = None
        BY <3>1, <3>2 DEF Or, RadioEffect
      <3>3. CASE buf.lora # None
        BY <3>1, <3>3 DEF Or, RadioEffect
      <3>4. QED
        BY <3>2, <3>3
    <2>2. ASSUME NEW l \in Loras, SetLora(l) PROVE RadioEffect
      BY <2>2 DEF SetLora, BufferSet, ApplySet, RadioEffect, TypeOK, Settings
    <2>3. CASE Refuse \/ Get \/ BeginEdit \/ \E kind \in Resets : AskReset(kind)
      BY <2>3 DEF Refuse, Get, BeginEdit, AskReset, adminVars, RadioEffect
    <2>4. CASE \/ \E i \in Intervals : SetInterval(i)
               \/ \E k \in KeySets : SetKeys(k)
               \/ \E p \in [secs : PosIntervals, fixed : BOOLEAN] : SetPosition(p)
               \/ \E r \in Roles : SetRole(r)
      BY <2>4 DEF SetInterval, SetKeys, SetPosition, SetRole, RoleApplied, BufferSet, ApplySet,
         RadioEffect, TypeOK, Settings
    <2>5. CASE (\E c \in Coords : SetFixedPosition(c)) \/ RemoveFixedPosition
      BY <2>5 DEF SetFixedPosition, RemoveFixedPosition, FixPosition, RadioEffect, TypeOK, Settings
    <2>6. ASSUME NEW short, NEW long, SetOwner(short, long) PROVE RadioEffect
      BY <2>6 DEF SetOwner, StoreOwner, BufferSet, ApplySet, RadioEffect, TypeOK, Settings
    <2>7. QED
      BY <2>1, <2>2, <2>3, <2>4, <2>5, <2>6 DEF Request
  <1>3. DirtyEffect
    <2>1. CASE CommitEdit
      BY <2>1, EmptyCommit DEF CommitEdit, CommitTo, DirtyEffect, TypeOK
    <2>2. CASE ~CommitEdit
      BY <2>2 DEF Request, Refuse, Get, BeginEdit, SetLora, SetInterval,
         SetKeys, SetPosition, SetFixedPosition, RemoveFixedPosition, FixPosition, SetRole,
         SetOwner, StoreOwner, AskReset, BufferSet, ApplySet, adminVars, DirtyEffect
    <2>3. QED
      BY <2>1, <2>2
  <1>4. QED
    BY <1>1, <1>2, <1>3 DEF Receive

-----------------------------------------------------------------------------
(* The invariants of the radio.                                            *)

(* The radio runs with the settings in force, or these are wanted and a    *)
(* restart is due.                                                         *)
RadioTracked ==
  up = "run" => Or(wanted, radio) = live.lora /\ (wanted # None => asked \/ reinit)

RadioInv == RadioTracked /\ RepliesOnOldParameters

LEMMA RadioStep ==
  ASSUME TypeOK, TypeOK', RadioInv, [Next]_vars
  PROVE  RadioInv'
  <1> USE DEF RadioInv, RadioTracked, RepliesOnOldParameters
  <1>0. None \notin Loras
    BY NoneAssumption
  <1>1. CASE Request
    <2>1. live'.lora \in Loras
      BY DEF TypeOK, Settings
    <2>2. QED
      BY <1>0, <1>1, <2>1, RequestEffect DEF RadioEffect, Or
  <1>2. ASSUME NEW saved \in BOOLEAN, Boot(saved) PROVE RadioInv'
    <2>1. boots' \in Ids
      BY <1>2, IdsAssumption, BoundsAssumption DEF TypeOK, Boot
    <2> DEFINE rec == BootRecord(boots')
    <2>2. rec \in Records /\ LoadNodeConfig(rec)
      BY <1>2, <2>1, BootRecordType DEF Boot
    <2> HIDE DEF rec
    <2>3. live'.lora = radio'
      BY <2>2 DEF LoadNodeConfig, Records, Settings
    <2>4. QED
      BY <1>2, <2>3 DEF Boot, Or
  <1>3. CASE ToReceptions
    BY <1>3 DEF ToReceptions, adminVars
  <1>4. ASSUME NEW ok \in BOOLEAN, Reinit(ok) PROVE RadioInv'
    BY <1>4 DEF Reinit, ApplyModemPresetSoft, adminVars, Or
  <1>5. ASSUME NEW l \in Loras, SendReply(l) PROVE RadioInv'
    BY <1>5 DEF SendReply, adminVars
  <1>6. CASE \/ \E kind \in Resets, ok \in BOOLEAN : TakeReset(kind, ok)
             \/ \E ok \in BOOLEAN : StorePass(ok)
             \/ SendPosition \/ AnnouncePosition \/ ToEnd \/ HoldEnds \/ NextPass
             \/ ResetNow \/ PowerFail \/ BootWithoutRandomness \/ SessionEnds \/ UNCHANGED vars
    <2>1. /\ wanted' = wanted /\ radio' = radio /\ asked' = asked /\ reinit' = reinit
          /\ outbox' = outbox /\ live' = live /\ (up' = "run" => up = "run")
      BY <1>6 DEF TakeReset, StorePass, SendPosition, AnnouncePosition, ToEnd, HoldEnds, NextPass,
         PassEnds, ResetNow, PowerFail, BootWithoutRandomness, SessionEnds, vars, radioVars, adminVars
    <2>2. QED
      BY <2>1
  <1>7. QED
    BY <1>1, <1>2, <1>3, <1>4, <1>5, <1>6 DEF Next, Loop

LEMMA RadioAlways == Spec => []RadioInv
  <1>1. Init => RadioInv
    BY DEF Init, RadioInv, RadioTracked, RepliesOnOldParameters
  <1>2. TypeOK /\ TypeOK' /\ RadioInv /\ [Next]_vars => RadioInv'
    BY RadioStep
  <1>3. QED
    BY <1>1, <1>2, TypeCorrect, PTL DEF Spec

(* No change of the radio settings is forgotten, through failing restarts  *)
(* of the radio and changes that overtake them.                            *)
THEOREM NoRadioChangeForgotten == Spec => []RadioFollowsSettings
  <1>1. RadioInv => RadioFollowsSettings
    BY DEF RadioInv, RadioTracked, RadioFollowsSettings, Or
  <1>2. QED
    BY <1>1, RadioAlways, PTL

(* The radio is restarted only when every reply to the old settings has    *)
(* left.                                                                   *)
THEOREM RepliesLeaveFirst == Spec => []RepliesOnOldParameters
  BY RadioAlways, PTL DEF RadioInv

-----------------------------------------------------------------------------
(* The invariants of the flash.                                            *)

(* At the top of a pass, where a reset may come, a change that is not      *)
(* saved waits for the retry of a failed save.                             *)
ArmedIsSaved ==
  Running("top") /\ armed # {} /\ dirty => hold \/ lastSave \in {"err", "boot_err"}

FlashInv == NothingSilentlyUnsaved /\ ArmedIsSaved

(* A save, if it fails too, leaves nothing unsaved that is not dirty. *)
LEMMA PersistKeeps ==
  ASSUME TypeOK, NothingSilentlyUnsaved, NEW ok \in BOOLEAN, Persist(ok),
         up = "run", id' = id, live' = live
  PROVE  /\ NothingSilentlyUnsaved'
         /\ dirty' => lastSave' \in {"err", "boot_err"}
  <1>1. CASE ok
    BY <1>1 DEF Persist, PersistThen, Save, NothingSilentlyUnsaved
  <1>2. CASE ~ok
    <2>1. /\ lastSave' \in {"err", "boot_err"} /\ dirty' = dirty
          /\ lastSave' # "boot_err" => lastSave # "boot_err"
          /\ flash' \in {flash, [id |-> id, set |-> live]}
      BY <1>2 DEF Persist, PersistThen, Save, TypeOK
    <2>2. QED
      BY <2>1 DEF NothingSilentlyUnsaved
  <1>3. QED
    BY <1>1, <1>2

(* After a boot that saved its record, or had none to save. *)
LEMMA BootFlash ==
  ASSUME TypeOK, NEW saved \in BOOLEAN, Boot(saved)
  PROVE  FlashInv'
  <1>1. boots' \in Ids
    BY IdsAssumption, BoundsAssumption DEF TypeOK, Boot
  <1> DEFINE rec == BootRecord(boots')
  <1>2. rec \in Records /\ LoadNodeConfig(rec)
    BY <1>1, BootRecordType DEF Boot
  <1>3. lastSave' # "boot_err" => flash' = rec
    BY DEF Boot, Save
  <1>4. armed' = {}
    BY DEF Boot
  <1> HIDE DEF rec
  <1>5. ~dirty' => live' = rec.set /\ id' = rec.id
    BY <1>2 DEF LoadNodeConfig, Records, Settings
  <1>6. rec = [id |-> rec.id, set |-> rec.set]
    BY <1>2 DEF Records
  <1>7. QED
    BY <1>3, <1>4, <1>5, <1>6 DEF FlashInv, NothingSilentlyUnsaved, ArmedIsSaved

LEMMA FlashStep ==
  ASSUME TypeOK, FlashInv, [Next]_vars
  PROVE  FlashInv'
  <1>1. CASE Request
    <2>1. /\ UNCHANGED <<flash, up, id, phase, lastSave>> /\ phase = "rx" /\ DirtyEffect
      BY <1>1, RequestEffect
    <2>2. NothingSilentlyUnsaved'
      BY <2>1 DEF FlashInv, NothingSilentlyUnsaved, DirtyEffect
    <2>3. ArmedIsSaved'
      BY <2>1 DEF ArmedIsSaved, Running
    <2>4. QED
      BY <2>2, <2>3 DEF FlashInv
  <1>2. ASSUME NEW saved \in BOOLEAN, Boot(saved) PROVE FlashInv'
    BY <1>2, BootFlash
  <1>3. ASSUME NEW kind \in Resets, NEW ok \in BOOLEAN, TakeReset(kind, ok) PROVE FlashInv'
    BY <1>3, PersistKeeps DEF TakeReset, Running, FlashInv, ArmedIsSaved
  <1>4. ASSUME NEW ok \in BOOLEAN, StorePass(ok) PROVE FlashInv'
    BY <1>4, PersistKeeps DEF StorePass, Running, FlashInv, ArmedIsSaved
  <1>5. CASE NextPass
    <2>1. /\ UNCHANGED <<flash, up, id, live, dirty, hold, lastSave>> /\ ~(dirty /\ ~hold)
      BY <1>5 DEF NextPass, PassEnds, SaveDue, adminVars
    <2>2. QED
      BY <2>1 DEF FlashInv, NothingSilentlyUnsaved, ArmedIsSaved
  <1>6. CASE ToReceptions \/ ToEnd \/ HoldEnds
    <2>1. UNCHANGED <<flash, up, id, live, dirty, lastSave>> /\ phase' # "top"
      BY <1>6 DEF ToReceptions, ToEnd, HoldEnds, GoTo, Running, adminVars
    <2>2. QED
      BY <2>1 DEF FlashInv, NothingSilentlyUnsaved, ArmedIsSaved, Running
  <1>7. CASE ResetNow \/ PowerFail \/ BootWithoutRandomness
    <2>1. up' # "run"
      BY <1>7 DEF ResetNow, PowerFail, BootWithoutRandomness
    <2>2. QED
      BY <2>1 DEF FlashInv, NothingSilentlyUnsaved, ArmedIsSaved, Running
  <1>8. CASE \/ \E l \in Loras : SendReply(l)
             \/ \E ok \in BOOLEAN : Reinit(ok)
             \/ SendPosition \/ AnnouncePosition \/ SessionEnds \/ UNCHANGED vars
    <2>1. UNCHANGED <<flash, up, id, live, dirty, lastSave, hold, armed, phase>>
      BY <1>8 DEF SendReply, Reinit, ApplyModemPresetSoft, SendPosition, AnnouncePosition,
         SessionEnds, vars, adminVars, loopVars
    <2>2. QED
      BY <2>1 DEF FlashInv, NothingSilentlyUnsaved, ArmedIsSaved, Running
  <1>9. QED
    BY <1>1, <1>2, <1>3, <1>4, <1>5, <1>6, <1>7, <1>8 DEF Next, Loop

LEMMA FlashAlways == Spec => []FlashInv
  <1>1. Init => FlashInv
    BY DEF Init, FlashInv, NothingSilentlyUnsaved, ArmedIsSaved, Running
  <1>2. TypeOK /\ FlashInv /\ [Next]_vars => FlashInv'
    BY FlashStep
  <1>3. QED
    BY <1>1, <1>2, TypeCorrect, PTL DEF Spec

(* Settings and identity in use are stored or marked as unsaved, through   *)
(* saves that fail, with or without having replaced the stored record.     *)
THEOREM UnsavedIsKnown == Spec => []NothingSilentlyUnsaved
  BY FlashAlways, PTL DEF FlashInv

(* A requested reset finds the settings in the flash, or a failed save.    *)
THEOREM ResetKeepsSettings == Spec => RequestedResetKeepsSettings
  <1>1. TypeOK /\ FlashInv /\ [Next]_vars =>
          [Running("top") /\ resets = {} /\ armed # {} /\ up' = "off"
             => flash = [id |-> id, set |-> live] \/ hold \/ lastSave \in {"err", "boot_err"}]_vars
    BY DEF TypeOK, FlashInv, NothingSilentlyUnsaved, ArmedIsSaved, Running
  <1>2. QED
    BY <1>1, TypeCorrect, FlashAlways, PTL DEF Spec, RequestedResetKeepsSettings
=============================================================================
