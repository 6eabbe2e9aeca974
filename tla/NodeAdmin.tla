------------------------------ MODULE NodeAdmin ------------------------------
(***************************************************************************)
(* The settings of a node from the remote administrator to the flash and   *)
(* back: crates/mesh-routing/src/admin.rs, the part of router.rs that      *)
(* applies its outcomes, the part of boards/nrf52840/src/lora/             *)
(* radio_task.rs that saves, restarts the radio and resets the node, and   *)
(* the boot of main.rs.                                                    *)
(*                                                                         *)
(* The flash is the atomic store ConfigStore: a save that reports an error *)
(* may or may not have replaced the configuration.  A lora value stands    *)
(* for the preset with its hop limit, power and MQTT flag.  Names are the  *)
(* owner names; DefaultName is the synthesized one, which an empty stored  *)
(* name is read as.                                                        *)
(***************************************************************************)
EXTENDS Naturals

CONSTANTS
  Loras,         \* radio settings lora_region_accepted admits
  MinInterval,   \* MinInterval[l]: the airtime floor of telemetry under l
  Intervals,     \* telemetry intervals, 0 is unset
  Roles,         \* device roles
  PosFloor,      \* PosFloor[r]: the floor of position intervals in role r
  PosIntervals,  \* position intervals, 0 is unset
  Coords,        \* coordinates SetFixedPosition admits
  KeySets,       \* values of the admin key slots
  Names, DefaultName,
  FirstSettings, \* NodeConfig::first_boot
  Ids, Legacy,   \* key pairs; the predictable one of older firmware
  InitialFlash,  \* what the flash may hold when this firmware is installed
  None,
  MaxRequests, MaxBoots, MaxFaults  \* bounds

ASSUME FloorsAssumption ==
  /\ Intervals \subseteq Nat /\ PosIntervals \subseteq Nat
  /\ MinInterval \in [Loras -> Nat]
  /\ PosFloor \in [Roles -> PosIntervals]
ASSUME NoneAssumption ==
  None \notin UNION {Loras, Intervals, Roles, KeySets, Coords}
ASSUME BoundsAssumption == MaxRequests \in Nat /\ MaxBoots \in Nat /\ MaxFaults \in Nat
ASSUME IdsAssumption == Ids = (1..MaxBoots) \cup {Legacy}
ASSUME NamesAssumption == DefaultName \in Names

Settings == [lora : Loras, interval : Intervals, role : Roles, pos : PosIntervals,
             fixed : BOOLEAN, coords : Coords \cup {None},
             keys : KeySets, short : Names, long : Names]
Owners == [short : Names, long : Names]
Buffers == [lora : Loras \cup {None}, keys : KeySets \cup {None},
            interval : Intervals \cup {None}, role : Roles \cup {None},
            pos : [secs : PosIntervals, fixed : BOOLEAN] \cup {None}, owner : Owners \cup {None}]
Records == [id : Ids, set : Settings]
Resets == {"reboot", "dfu"}

ASSUME FlashAssumption == InitialFlash \subseteq Records \cup {None} /\ FirstSettings \in Settings

VARIABLES
  flash,     \* the stored configuration, or None
  up,        \* "off", "run", or "nomesh" without randomness
  id,        \* the key pair in use
  live,      \* the settings of AdminState
  editing, buf,  \* the open edit and its buffered settings
  session,   \* a session passkey is valid
  dirty,     \* config_dirty
  advert,    \* the owner names of nodeinfo_identity
  wanted,    \* pending_radio_settings
  asked,     \* pending_radio_reinit of the router
  reinit,    \* radio_reinit_pending of the radio loop
  radio,     \* the settings the radio runs with
  resets,    \* pending_reboot_seconds and pending_ota_dfu_seconds
  armed,     \* their deadlines are set
  hold,      \* next_store_attempt lies ahead
  phase,     \* the place in a pass of the radio loop
  position,  \* pending_position: the coordinates in the waiting frame, or None
  outbox,    \* radio settings under which unsent replies were requested
  requests, boots, faults,  \* counted for the bounds
  acked,     \* of each setting, the value acknowledged last since the boot, and
             \* the one that came back when an edit begun again discarded it
  lastSave   \* the last save of this boot: "none", "ok", "err", or "boot_err"
             \* while the record the boot failed to save is not saved

adminVars == <<live, editing, buf, session, dirty, advert, position>>
radioVars == <<wanted, asked, reinit, radio, outbox>>
loopVars == <<resets, armed, hold, phase>>
countVars == <<requests, boots, faults>>
vars == <<flash, up, id, adminVars, radioVars, loopVars, countVars, acked, lastSave>>

Fields == {"lora", "interval", "role", "keys"}
NoBuffer == [lora |-> None, keys |-> None, interval |-> None, role |-> None,
             pos |-> None, owner |-> None]
Values == UNION {Loras, Intervals, Roles, KeySets, {None}}
Acks == [Fields -> [val : Values, back : Values]]
NothingAcked == [f \in Fields |-> [val |-> None, back |-> None]]

TypeOK ==
  /\ flash \in Records \cup {None}
  /\ up \in {"off", "run", "nomesh"}
  /\ id \in Ids \cup {None}
  /\ live \in Settings
  /\ editing \in BOOLEAN /\ session \in BOOLEAN /\ dirty \in BOOLEAN
  /\ asked \in BOOLEAN /\ reinit \in BOOLEAN /\ hold \in BOOLEAN
  /\ buf \in Buffers
  /\ advert \in Owners
  /\ wanted \in Loras \cup {None} /\ radio \in Loras /\ outbox \subseteq Loras
  /\ position \in Coords \cup {None}
  /\ resets \subseteq Resets /\ armed \subseteq Resets
  /\ phase \in {"top", "rx", "end"}
  /\ acked \in Acks
  /\ lastSave \in {"none", "ok", "err", "boot_err"}
  /\ requests \in 0..MaxRequests /\ boots \in 0..MaxBoots /\ faults \in 0..MaxFaults

Or(v, old) == IF v = None THEN old ELSE v
OwnerOf(s) == [short |-> s.short, long |-> s.long]

(* broadcasts_fixed_position *)
Broadcasts(s) == s.fixed /\ s.coords # None

(* coerce_position_broadcast_secs *)
CoercePos(p, role) == IF p # 0 /\ p < PosFloor[role] THEN PosFloor[role] ELSE p

Init ==
  /\ flash \in InitialFlash
  /\ up = "off" /\ id = None
  /\ live = FirstSettings /\ editing = FALSE /\ buf = NoBuffer
  /\ session = FALSE /\ dirty = FALSE
  /\ advert = OwnerOf(FirstSettings)
  /\ wanted = None /\ asked = FALSE /\ reinit = FALSE
  /\ radio = FirstSettings.lora /\ outbox = {} /\ position = None
  /\ resets = {} /\ armed = {} /\ hold = FALSE /\ phase = "top"
  /\ requests = 0 /\ boots = 0 /\ faults = 0
  /\ acked = NothingAcked /\ lastSave = "none"

-----------------------------------------------------------------------------
(* Saving.                                                                 *)

(* Operators whose name begins with Faulty are the code with a bug in it:  *)
(* each shows that some property can fail, none is part of the model.      *)

(* store.save: it succeeds, or reports an error, replaced or not. *)
Save(rec, ok) ==
  /\ IF ok THEN flash' = rec ELSE flash' \in {flash, rec}
  /\ faults' = IF ok THEN faults ELSE faults + 1
  /\ faults' <= MaxFaults

PersistThen(ok, stillDirty) ==
  /\ Save([id |-> id, set |-> live], ok)
  /\ lastSave' = IF ok THEN "ok" ELSE IF lastSave = "boot_err" THEN "boot_err" ELSE "err"
  /\ dirty' = stillDirty

FaultyPersist(ok) == PersistThen(ok, FALSE)

(* persist_config: the admin state is written over the stored record. *)
Persist(ok) == PersistThen(ok, dirty /\ ~ok)

-----------------------------------------------------------------------------
(* Boot: main() up to the spawn of the radio loop.                         *)

(* The identity drawn at this boot is used where the flash is empty, and   *)
(* replaces the predictable key of older firmware.                         *)
BootRecord(drawn) ==
  IF flash = None THEN [id |-> drawn, set |-> FirstSettings]
  ELSE IF flash.id = Legacy THEN [flash EXCEPT !.id = drawn] ELSE flash

(* load_node_config: set_device_role raises a position interval below the *)
(* floor of the role and marks the settings as changed.                    *)
LoadNodeConfig(rec) ==
  LET pos == CoercePos(rec.set.pos, rec.set.role) IN
  /\ live' = [rec.set EXCEPT !.pos = pos]
  /\ dirty' = (pos # rec.set.pos)
  /\ id' = rec.id
  /\ radio' = rec.set.lora

(* set_node_identity(for_node(..)) follows: the synthesized owner names. *)
SetNodeIdentity == advert' = [short |-> DefaultName, long |-> DefaultName]

Boot(saved) ==
  /\ up = "off" /\ boots < MaxBoots
  /\ up' = "run" /\ boots' = boots + 1
  /\ LET rec == BootRecord(boots') IN
     /\ IF rec # flash
        THEN Save(rec, saved) /\ lastSave' = IF saved THEN "ok" ELSE "boot_err"
        ELSE saved /\ UNCHANGED <<flash, faults>> /\ lastSave' = "none"
     /\ LoadNodeConfig(rec)
  /\ SetNodeIdentity
  /\ editing' = FALSE /\ buf' = NoBuffer /\ session' = FALSE
  /\ wanted' = None /\ asked' = FALSE /\ reinit' = FALSE /\ outbox' = {} /\ position' = None
  /\ resets' = {} /\ armed' = {} /\ hold' = FALSE /\ phase' = "top"
  /\ acked' = NothingAcked
  /\ UNCHANGED requests

(* Without usable randomness nothing is saved and the node stays off the   *)
(* mesh.                                                                   *)
BootWithoutRandomness ==
  /\ up = "off" /\ boots < MaxBoots
  /\ up' = "nomesh" /\ boots' = boots + 1
  /\ UNCHANGED <<flash, id, adminVars, radioVars, loopVars, requests, faults, acked, lastSave>>

(* The power fails, or the watchdog bites. *)
PowerFail ==
  /\ up # "off"
  /\ up' = "off"
  /\ UNCHANGED <<flash, id, adminVars, radioVars, loopVars, countVars, acked, lastSave>>

-----------------------------------------------------------------------------
(* Requests of an administrator.  A reply is queued for each of them.      *)

Receive ==
  /\ up = "run" /\ phase = "rx"
  /\ requests < MaxRequests /\ requests' = requests + 1
  /\ outbox' = outbox \cup {radio}
  /\ UNCHANGED <<flash, up, id, reinit, radio, armed, hold, phase, boots, faults, lastSave>>

Authorized == Receive /\ session

FaultyAnnounce(now) ==
  position' = IF now /\ Broadcasts(live') THEN live'.coords ELSE position

(* What process_admin_rx does with the position after every request: a     *)
(* waiting frame is dropped when the position is no longer broadcast.      *)
Announce(now) ==
  position' = IF ~Broadcasts(live') THEN None ELSE IF now THEN live'.coords ELSE position

(* A request without a valid session, from a key that is not authorized or *)
(* with a value the code rejects: unsupported radio settings, an unknown   *)
(* role, an interval below the floor, a blank name, or the commit of an    *)
(* edit with such an interval, which stays open.                           *)
Refuse ==
  /\ Receive
  /\ UNCHANGED <<live, editing, buf, session, dirty, advert, wanted, asked, resets, acked>>
  /\ Announce(FALSE)

(* Any get request issues a new session passkey. *)
Get ==
  /\ Receive
  /\ session' = TRUE
  /\ UNCHANGED <<live, editing, buf, dirty, advert, wanted, asked, resets, acked>>
  /\ Announce(FALSE)

(* session_valid_until_ms passes. *)
SessionEnds ==
  /\ up = "run" /\ session
  /\ session' = FALSE
  /\ UNCHANGED <<flash, up, id, live, editing, buf, dirty, advert, position, radioVars, loopVars,
                 countVars, acked, lastSave>>

Ack(f, v) == [acked EXCEPT ![f] = [val |-> v, back |-> None]]

(* Settings that wait in an open edit are discarded, although they were    *)
(* acknowledged.                                                           *)
BeginEdit ==
  /\ Authorized
  /\ editing' = TRUE /\ buf' = NoBuffer
  /\ acked' = [f \in Fields |-> IF buf[f] # None THEN [acked[f] EXCEPT !.back = live[f]]
                                ELSE acked[f]]
  /\ UNCHANGED <<live, session, dirty, advert, wanted, asked, resets>>
  /\ Announce(FALSE)

(* A set request while an edit is open. *)
BufferSet(b) ==
  /\ Authorized /\ editing
  /\ buf' = b
  /\ UNCHANGED <<live, editing, session, dirty, advert, wanted, asked, resets>>
  /\ Announce(FALSE)

(* A set request that applies at once. *)
ApplySet(s) ==
  /\ Authorized /\ ~editing
  /\ live' = s
  /\ dirty' = TRUE
  /\ UNCHANGED <<editing, buf, session, resets>>
  /\ Announce(FALSE)

IntervalFits(i, lora) == i = 0 \/ i >= MinInterval[lora]

SetLora(l) ==
  /\ acked' = Ack("lora", l)
  /\ \/ BufferSet([buf EXCEPT !.lora = l])
     \/ /\ ApplySet([live EXCEPT !.lora = l])
        /\ wanted' = l /\ asked' = TRUE
        /\ UNCHANGED advert

SetInterval(i) ==
  /\ IntervalFits(i, live.lora)
  /\ acked' = Ack("interval", i)
  /\ \/ BufferSet([buf EXCEPT !.interval = i])
     \/ ApplySet([live EXCEPT !.interval = i]) /\ UNCHANGED <<advert, wanted, asked>>

SetKeys(k) ==
  /\ acked' = Ack("keys", k)
  /\ \/ BufferSet([buf EXCEPT !.keys = k])
     \/ ApplySet([live EXCEPT !.keys = k]) /\ UNCHANGED <<advert, wanted, asked>>

SetPosition(p) ==
  /\ UNCHANGED acked
  /\ \/ BufferSet([buf EXCEPT !.pos = p])
     \/ /\ ApplySet([live EXCEPT !.pos = CoercePos(p.secs, live.role), !.fixed = p.fixed])
        /\ UNCHANGED <<advert, wanted, asked>>

(* SetFixedPosition and RemoveFixedPosition apply at once, in an edit too. *)
FixPosition(fixed, coords, announce) ==
  /\ Authorized
  /\ live' = [live EXCEPT !.fixed = fixed, !.coords = coords]
  /\ dirty' = TRUE
  /\ UNCHANGED <<editing, buf, session, advert, wanted, asked, resets, acked>>
  /\ Announce(announce)

SetFixedPosition(c) == FixPosition(TRUE, c, TRUE)
RemoveFixedPosition == FixPosition(FALSE, None, FALSE)

FaultyRoleApplied(s, role) == [s EXCEPT !.role = role]

(* set_device_role *)
RoleApplied(s, role) == [s EXCEPT !.role = role, !.pos = CoercePos(@, role)]

SetRole(r) ==
  /\ acked' = Ack("role", r)
  /\ \/ BufferSet([buf EXCEPT !.role = r])
     \/ ApplySet(RoleApplied(live, r)) /\ UNCHANGED <<advert, wanted, asked>>

StoreOwner(names) ==
  /\ UNCHANGED acked
  /\ \/ BufferSet([buf EXCEPT !.owner = names])
     \/ /\ ApplySet([live EXCEPT !.short = names.short, !.long = names.long])
        /\ advert' = names
        /\ UNCHANGED <<wanted, asked>>

(* merge_owner_update: a name that is not given keeps its live value, in   *)
(* an edit too.                                                            *)
SetOwner(short, long) ==
  StoreOwner([short |-> Or(short, live.short), long |-> Or(long, live.long)])

(* CommitEditSettings works on a copy of the state.  The interval is held  *)
(* against the radio settings of the same edit, the position interval      *)
(* against its role; a refused commit leaves the edit as it was.           *)
Committed ==
  [lora |-> Or(buf.lora, live.lora), keys |-> Or(buf.keys, live.keys),
   interval |-> Or(buf.interval, live.interval), role |-> Or(buf.role, live.role),
   pos |-> IF buf.pos = None /\ buf.role = None THEN live.pos
           ELSE CoercePos(IF buf.pos = None THEN live.pos ELSE buf.pos.secs,
                          Or(buf.role, live.role)),
   fixed |-> IF buf.pos = None THEN live.fixed ELSE buf.pos.fixed, coords |-> live.coords,
   short |-> Or(buf.owner, OwnerOf(live)).short, long |-> Or(buf.owner, OwnerOf(live)).long]

CommitFits == IntervalFits(Or(buf.interval, 0), Committed.lora)

CommitTo(settings) ==
  /\ Authorized
  /\ CommitFits
  /\ live' = settings
  /\ editing' = FALSE /\ buf' = NoBuffer
  /\ dirty' = (dirty \/ buf # NoBuffer)
  /\ advert' = Or(buf.owner, advert)
  /\ wanted' = Or(buf.lora, wanted)
  /\ asked' = (asked \/ buf.lora # None)
  /\ UNCHANGED <<session, resets, acked>>
  /\ Announce(FALSE)

FaultyCommitEdit == CommitTo([Committed EXCEPT !.keys = live.keys])
CommitEdit == CommitTo(Committed)

(* RebootSeconds, and the ENTER DFU message of an authorized neighbor. *)
AskReset(kind) ==
  /\ Receive
  /\ kind = "reboot" => session
  /\ resets' = resets \cup {kind}
  /\ UNCHANGED <<adminVars, wanted, asked, acked>>

Request ==
  \/ Refuse \/ Get \/ BeginEdit \/ CommitEdit
  \/ \E l \in Loras : SetLora(l)
  \/ \E i \in Intervals : SetInterval(i)
  \/ \E k \in KeySets : SetKeys(k)
  \/ \E p \in [secs : PosIntervals, fixed : BOOLEAN] : SetPosition(p)
  \/ \E c \in Coords : SetFixedPosition(c)
  \/ RemoveFixedPosition
  \/ \E r \in Roles : SetRole(r)
  \/ \E o \in [short : Names \cup {None}, long : Names \cup {None}] : SetOwner(o.short, o.long)
  \/ \E kind \in Resets : AskReset(kind)

-----------------------------------------------------------------------------
(* The radio loop: the resets at the top of a pass, receptions, then the   *)
(* restart of the radio and the save at its end.                           *)

Running(p) == up = "run" /\ phase = p
GoTo(p) == phase' = p

(* A requested reset is preceded by a save whose result is not looked at. *)
TakeReset(kind, ok) ==
  /\ Running("top") /\ kind \in resets
  /\ Persist(ok)
  /\ resets' = resets \ {kind} /\ armed' = armed \cup {kind}
  /\ UNCHANGED <<up, id, live, editing, buf, session, advert, position, radioVars, hold, phase,
                 requests, boots, acked>>

(* The deadline of a reset has passed. *)
ResetNow ==
  /\ Running("top") /\ resets = {} /\ armed # {}
  /\ up' = "off"
  /\ UNCHANGED <<flash, id, adminVars, radioVars, loopVars, countVars, acked, lastSave>>

ToReceptions ==
  /\ Running("top") /\ resets = {} /\ GoTo("rx")
  /\ reinit' = (reinit \/ asked) /\ asked' = FALSE
  /\ UNCHANGED <<flash, up, id, adminVars, wanted, radio, outbox, resets, armed, hold, countVars,
                 acked, lastSave>>

SendReply(l) ==
  /\ Running("rx") /\ l \in outbox
  /\ outbox' = outbox \ {l}
  /\ UNCHANGED <<flash, up, id, adminVars, wanted, asked, reinit, radio, loopVars, countVars,
                 acked, lastSave>>

(* poll_position_tx *)
SendPosition ==
  /\ Running("rx") /\ position # None
  /\ position' = None
  /\ UNCHANGED <<flash, up, id, live, editing, buf, session, dirty, advert, radioVars, loopVars,
                 countVars, acked, lastSave>>

(* run_maintenance, when the interval of the position has passed. *)
AnnouncePosition ==
  /\ Running("end") /\ position = None /\ Broadcasts(live)
  /\ position' = live.coords
  /\ UNCHANGED <<flash, up, id, live, editing, buf, session, dirty, advert, radioVars, loopVars,
                 countVars, acked, lastSave>>

ToEnd ==
  /\ Running("rx") /\ GoTo("end")
  /\ UNCHANGED <<flash, up, id, adminVars, radioVars, resets, armed, hold, countVars,
                 acked, lastSave>>

(* apply_modem_preset_soft: the radio restarts with the wanted settings,   *)
(* or returns to the old ones.                                             *)
ApplyModemPresetSoft(ok) ==
  /\ IF ok THEN radio' = Or(wanted, radio) /\ wanted' = None /\ UNCHANGED faults
     ELSE UNCHANGED <<wanted, radio>> /\ faults < MaxFaults /\ faults' = faults + 1
  /\ UNCHANGED <<flash, up, id, adminVars, asked, outbox, loopVars, requests, boots, acked,
                 lastSave>>

FaultyReinitForgets(ok) ==
  Running("end") /\ reinit /\ outbox = {} /\ reinit' = FALSE /\ ApplyModemPresetSoft(ok)
FaultyReinitHurries(ok) ==
  Running("end") /\ reinit /\ reinit' = ~ok /\ ApplyModemPresetSoft(ok)

(* The restart waits until no reply is left to send; after a failure it is *)
(* tried again.                                                            *)
Reinit(ok) ==
  /\ Running("end") /\ reinit /\ outbox = {}
  /\ reinit' = ~ok
  /\ ApplyModemPresetSoft(ok)

SaveDue == dirty /\ ~hold

(* A failed save is tried again after five seconds. *)
StorePass(ok) ==
  /\ Running("end") /\ SaveDue
  /\ Persist(ok)
  /\ hold' = ~ok
  /\ UNCHANGED <<up, id, live, editing, buf, session, advert, position, radioVars, resets, armed,
                 phase, requests, boots, acked>>

(* The clock is read only here. *)
HoldEnds ==
  /\ Running("end") /\ hold
  /\ hold' = FALSE
  /\ UNCHANGED <<flash, up, id, adminVars, radioVars, resets, armed, phase, countVars,
                 acked, lastSave>>

PassEnds ==
  /\ Running("end") /\ GoTo("top")
  /\ UNCHANGED <<flash, up, id, adminVars, radioVars, resets, armed, hold, countVars,
                 acked, lastSave>>

FaultyNextPass == PassEnds
NextPass == ~SaveDue /\ PassEnds

Loop ==
  \/ \E kind \in Resets, ok \in BOOLEAN : TakeReset(kind, ok)
  \/ ResetNow
  \/ ToReceptions
  \/ \E l \in Loras : SendReply(l)
  \/ SendPosition \/ AnnouncePosition
  \/ ToEnd
  \/ \E ok \in BOOLEAN : Reinit(ok) \/ StorePass(ok)
  \/ HoldEnds
  \/ NextPass

Next ==
  \/ \E saved \in BOOLEAN : Boot(saved)
  \/ BootWithoutRandomness
  \/ PowerFail
  \/ Request
  \/ SessionEnds
  \/ Loop

Spec == Init /\ [][Next]_vars

(***************************************************************************)
(* Fairness.  A running loop goes round for ever and the five seconds end. *)
(* Of the world it is asked that a queued reply is sent in the end and     *)
(* that the radio, restarted often enough, comes up.                       *)
(***************************************************************************)
FairSpec ==
  /\ Spec
  /\ WF_vars(ToReceptions) /\ WF_vars(ToEnd) /\ WF_vars(NextPass) /\ SF_vars(HoldEnds)
  /\ \A kind \in Resets : WF_vars(\E ok \in BOOLEAN : TakeReset(kind, ok))
  /\ WF_vars(\E ok \in BOOLEAN : StorePass(ok))
  /\ \A l \in Loras : SF_vars(SendReply(l))
  /\ SF_vars(Reinit(TRUE))

-----------------------------------------------------------------------------
(* A power failure at any time costs only what the node knows to be        *)
(* unsaved: settings and identity in use that are not marked dirty are the *)
(* stored ones - unless the save at boot failed, which nothing repeats.    *)
NothingSilentlyUnsaved ==
  up = "run" /\ ~dirty /\ lastSave # "boot_err" => flash = [id |-> id, set |-> live]

(* A reset that was asked for loses no setting, also one that changes      *)
(* between the request and the reset, unless the last save failed, or one  *)
(* less than five seconds ago.                                             *)
RequestedResetKeepsSettings ==
  [][Running("top") /\ resets = {} /\ armed # {} /\ up' = "off"
       => flash = [id |-> id, set |-> live] \/ hold \/ lastSave \in {"err", "boot_err"}]_vars

(* An acknowledged setting is in force or waits in the open edit, through  *)
(* refused and granted commits, ended sessions and changes of other        *)
(* settings.  BeginEditSettings while an edit is open is the one           *)
(* exception: it discards the settings that wait, acknowledged as they     *)
(* are.  Those then stay as they were before the edit, until the setting   *)
(* is sent again.  (The owner is left out: in an edit a second partial     *)
(* SetOwner drops the name the first one set.)                             *)
AckedIsHeld ==
  up = "run" =>
    \A f \in Fields :
      acked[f].val # None => Or(buf[f], live[f]) = Or(acked[f].back, acked[f].val)

(* The position interval respects the floor of the role, whichever of the  *)
(* two changed last, in an edit, outside it or at boot.                    *)
PositionAboveFloor == up = "run" => live.pos = CoercePos(live.pos, live.role)

(* A position frame that waits to be sent shows the coordinates in force:   *)
(* none leaves after an administrator has removed or switched off the       *)
(* fixed position, in an edit or outside it.                                *)
WaitingPositionIsCurrent == position # None => Broadcasts(live) /\ position = live.coords

(* A change of the radio settings is not forgotten: with no restart due    *)
(* the radio runs with the settings the administrator reads.               *)
RadioFollowsSettings ==
  up = "run" /\ ~asked /\ ~reinit => wanted = None /\ radio = live.lora

(* "Pending replies must leave on the old RF parameters before the         *)
(* requester loses contact."                                               *)
RepliesOnOldParameters == up = "run" => outbox \subseteq {radio}

(* The radio comes to run with the settings in force. *)
RadioCatchesUp == up = "run" /\ radio # live.lora ~> up # "run" \/ radio = live.lora

(* INTEROP_CONTRACT.md: the telemetry floor moves with the preset, so that *)
(* a telemetry stream cannot alone fill the duty cycle.  A change of the   *)
(* radio settings does not look at the interval.                           *)
IntervalAboveFloor == up = "run" => IntervalFits(live.interval, live.lora)

(* router.rs: the names of AdminState are aligned with the advert.  The    *)
(* boot then sets the advert to the synthesized names.                     *)
AdvertShowsOwner == up = "run" => advert = OwnerOf(live)
=============================================================================
