---------------------------- MODULE ConfigJournal ----------------------------
(***************************************************************************)
(* The configuration journal: crates/mesh-store/src/journal.rs.  Two flash *)
(* pages, each with a record (a generation and a configuration) or with    *)
(* nothing record() accepts: erased, half written, or failing its checksum *)
(* or decode().  save() reads both pages, then erases, writes and verifies *)
(* the page that does not hold the newest record.  The power may fail, and *)
(* the flash driver may report an error, at every one of these steps.      *)
(*                                                                         *)
(* A configuration passes through encode() and decode(), which normalise   *)
(* it: Decoded[c] is what comes back for c, None if decode() refuses it.   *)
(* encode() refuses a configuration outside Encodable.  That a half        *)
(* written page fails its CRC-32 is assumed.                               *)
(***************************************************************************)
EXTENDS Naturals

CONSTANTS Configs,    \* configurations
          Encodable,  \* the configurations encode() accepts
          Decoded,    \* decode() after encode()
          Half,       \* 2^31, half the number of generations
          None

ASSUME ConfigsAssumption ==
  /\ Encodable \subseteq Configs
  /\ Decoded \in [Configs -> Configs \cup {None}]
ASSUME HalfAssumption == Half \in Nat /\ Half >= 2

Generations == 0..(2 * Half - 1)
Pages == {0, 1}  \* 0 the spare page, 1 the page of older firmware
Records == [gen : Generations, cfg : Configs]

VARIABLES
  pages,   \* what record() returns for each page, None if nothing
  step,    \* where save() is: "idle", "erase", "write" or "verify"
  target,  \* the page, generation and configuration being saved
  result   \* how the last save() ended; "none" after a power failure

vars == <<pages, step, target, result>>

Targets == [page : Pages, gen : Generations, cfg : Configs]

ASSUME NoneAssumption == None \notin Configs \cup Pages \cup Records \cup Targets

TypeOK ==
  /\ pages \in [Pages -> Records \cup {None}]
  /\ step \in {"idle", "erase", "write", "verify"}
  /\ target \in Targets \cup {None}
  /\ step = "idle" <=> target = None
  /\ result \in {"none", "ok", "err"}

(* A new chip, or one whose older firmware left a raw record, which counts *)
(* as generation 0, in the legacy page.                                    *)
Init ==
  /\ pages \in {[p \in Pages |-> IF p = 1 THEN r ELSE None] :
                  r \in {None} \cup {[gen |-> 0, cfg |-> c] : c \in Configs}}
  /\ pages[1] # None => \E c \in Configs : Decoded[c] = pages[1].cfg
  /\ step = "idle" /\ target = None
  /\ result = "none"

(* wrapping_add and wrapping_sub of u32. *)
NextGen(g) == IF g = 2 * Half - 1 THEN 0 ELSE g + 1
GenDiff(b, a) == IF b >= a THEN b - a ELSE 2 * Half + b - a

(* Operators whose name begins with Faulty are the code with a bug in it:  *)
(* each shows that some property can fail, none is part of the model.      *)
FaultyLatestPage(pg) ==
  IF pg[0] # None /\ pg[1] # None
  THEN IF pg[1].gen >= pg[0].gen THEN 1 ELSE 0
  ELSE IF pg[0] # None THEN 0 ELSE IF pg[1] # None THEN 1 ELSE None

(* latest(): the page with the newest record; None with no record. *)
LatestPage(pg) ==
  IF pg[0] # None /\ pg[1] # None
  THEN IF GenDiff(pg[1].gen, pg[0].gen) < Half THEN 1 ELSE 0
  ELSE IF pg[0] # None THEN 0 ELSE IF pg[1] # None THEN 1 ELSE None

(* load() *)
Load(pg) == IF LatestPage(pg) = None THEN None ELSE pg[LatestPage(pg)].cfg

(* Always the first page. *)
FaultyTargetSpare(c) ==
  LET p == LatestPage(pages) IN
  [page |-> 0, gen |-> IF p = None THEN 1 ELSE NextGen(pages[p].gen), cfg |-> c]

(* The page and generation save() chooses. *)
SaveTarget(c) ==
  LET p == LatestPage(pages) IN
  IF p = None THEN [page |-> 0, gen |-> 1, cfg |-> c]
  ELSE [page |-> 1 - p, gen |-> NextGen(pages[p].gen), cfg |-> c]

(* save() up to the first flash operation.  A read error or a              *)
(* configuration encode() refuses ends it there.                           *)
BeginSave(c) ==
  /\ step = "idle"
  /\ c \in Encodable
  /\ target' = SaveTarget(c)
  /\ step' = "erase"
  /\ result' = "none"
  /\ UNCHANGED pages

RefuseSave ==
  /\ step = "idle"
  /\ result' = "err"
  /\ UNCHANGED <<pages, step, target>>

(* What the target page may hold when an operation on it is cut short or   *)
(* fails: an erase leaves the old record or none, a write none or the new  *)
(* record.                                                                 *)
Written == IF Decoded[target.cfg] = None THEN None
           ELSE [gen |-> target.gen, cfg |-> Decoded[target.cfg]]
Leftovers ==
  IF step = "erase" THEN {pages[target.page], None}
  ELSE IF step = "write" THEN {None, Written} ELSE {pages[target.page]}

EndSave(res) ==
  /\ step' = "idle" /\ target' = None
  /\ result' = res

Erase ==
  /\ step = "erase"
  /\ pages' = [pages EXCEPT ![target.page] = None]
  /\ step' = "write"
  /\ UNCHANGED <<target, result>>

(* write() returns success; a bad cell may still spoil the record. *)
Write ==
  /\ step = "write"
  /\ \E r \in {None, Written} : pages' = [pages EXCEPT ![target.page] = r]
  /\ step' = "verify"
  /\ UNCHANGED <<target, result>>

(* The record is read back and compared with the decoded configuration. *)
ReadsBack == pages[target.page] # None /\ pages[target.page].cfg = Decoded[target.cfg]
FaultyVerify ==
  /\ step = "verify"
  /\ EndSave("ok")
  /\ UNCHANGED pages
Verify ==
  /\ step = "verify"
  /\ EndSave(IF ReadsBack THEN "ok" ELSE "err")
  /\ UNCHANGED pages

(* The flash driver reports an error and save() returns it. *)
FlashError ==
  /\ step # "idle"
  /\ \E r \in Leftovers : pages' = [pages EXCEPT ![target.page] = r]
  /\ EndSave("err")

(* The power fails and the node starts again. *)
PowerFail ==
  /\ IF step = "idle" THEN UNCHANGED pages
     ELSE \E r \in Leftovers : pages' = [pages EXCEPT ![target.page] = r]
  /\ EndSave("none")

Next ==
  \/ \E c \in Configs : BeginSave(c)
  \/ RefuseSave
  \/ Erase \/ Write \/ Verify
  \/ FlashError
  \/ PowerFail

Spec == Init /\ [][Next]_vars

-----------------------------------------------------------------------------
(* The two records, when both are there, are of neighbouring generations,  *)
(* also across the wrap at 2^32, so that "newest" is well defined.         *)
Neighbours ==
  pages[0] # None /\ pages[1] # None =>
    \/ pages[1].gen = NextGen(pages[0].gen)
    \/ pages[0].gen = NextGen(pages[1].gen)

(* While a save is under way, its generation follows that of the record in *)
(* the other page, the page being written holds nothing, and a page read   *)
(* back holds nothing or what was written.                                 *)
SaveOnTrack ==
  step # "idle" =>
    /\ pages[1 - target.page] # None => target.gen = NextGen(pages[1 - target.page].gen)
    /\ step = "write" => pages[target.page] = None
    /\ step = "verify" => pages[target.page] \in {None, Written}

(* save() never erases or writes the page that holds the newest record.   *)
SparesNewest ==
  step \in {"erase", "write"} => target.page # LatestPage(pages)

(* "A settings update must not destroy identity or admin keys if power     *)
(* fails during writing": every step leaves the configuration a load       *)
(* returns as it was, or makes it the one being saved, whole.              *)
LoadIsOldOrNew ==
  [][Load(pages)' = Load(pages) \/ (step = "write" /\ Load(pages)' = Decoded[target.cfg])]_vars

(* A save that reports success is the one a load returns, although save()  *)
(* reads back only the page it wrote and not its rank among the two.       *)
SavedIsLoaded ==
  [][step = "verify" /\ result' = "ok" => Load(pages)' = Decoded[target.cfg]]_vars

(* The journal implements the store: a save is atomic. *)
Store == INSTANCE ConfigStore WITH
  stored <- Load(pages), saving <- IF target = None THEN None ELSE target.cfg, result <- result
StoreSpec == Store!StoreSpec
=============================================================================
