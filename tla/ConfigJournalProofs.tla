------------------------- MODULE ConfigJournalProofs -------------------------
(***************************************************************************)
(* The journal keeps a whole configuration for every number of generations *)
(* and every set of configurations.  The inductive invariant says that the *)
(* two records are neighbours and that a save under way carries the        *)
(* generation after the record in the other page: from that the page being *)
(* rewritten is never the newest, and what is written becomes the newest.  *)
(***************************************************************************)
EXTENDS ConfigJournal, TLAPS

IInv == TypeOK /\ Neighbours /\ SparesNewest /\ SaveOnTrack

-----------------------------------------------------------------------------
(* wrapping_sub of two neighbouring generations is 1 one way and 2^32 - 1  *)
(* the other way, on either side of 2^31.                                  *)
LEMMA NeighbourDiff ==
  ASSUME NEW g \in Generations
  PROVE  /\ NextGen(g) \in Generations
         /\ GenDiff(NextGen(g), g) < Half
         /\ ~(GenDiff(g, NextGen(g)) < Half)
  BY HalfAssumption DEF Generations, NextGen, GenDiff

(* The newest of two neighbouring records is the one with the next         *)
(* generation.                                                             *)
LEMMA NewestIsNext ==
  ASSUME NEW pg \in [Pages -> Records \cup {None}], NEW p \in Pages,
         pg[p] # None,
         pg[1 - p] # None => pg[p].gen = NextGen(pg[1 - p].gen)
  PROVE  LatestPage(pg) = p
  <1>1. CASE pg[1 - p] = None
    <2>1. p = 0 \/ p = 1
      BY DEF Pages
    <2> QED
      BY <1>1, <2>1 DEF LatestPage, Pages
  <1>2. CASE pg[1 - p] # None
    <2>1. pg[1 - p].gen \in Generations
      BY <1>2 DEF Pages, Records
    <2>2. /\ GenDiff(pg[p].gen, pg[1 - p].gen) < Half
          /\ ~(GenDiff(pg[1 - p].gen, pg[p].gen) < Half)
      BY <1>2, <2>1, NeighbourDiff
    <2>3. CASE p = 0
      BY <1>2, <2>2, <2>3 DEF LatestPage
    <2>4. CASE p = 1
      BY <1>2, <2>2, <2>4 DEF LatestPage
    <2> QED
      BY <2>3, <2>4 DEF Pages
  <1> QED
    BY <1>1, <1>2

(* With a record anywhere there is a newest page, and it holds a record.   *)
LEMMA LatestHasRecord ==
  ASSUME NEW pg \in [Pages -> Records \cup {None}]
  PROVE  /\ LatestPage(pg) \in Pages \cup {None}
         /\ LatestPage(pg) \in Pages => pg[LatestPage(pg)] # None
         /\ LatestPage(pg) = None <=> pg[0] = None /\ pg[1] = None
  BY NoneAssumption DEF LatestPage, Pages

-----------------------------------------------------------------------------
(* A page that is not the newest may lose its record: loads do not notice. *)
LEMMA BlankKeepsLatest ==
  ASSUME NEW pg \in [Pages -> Records \cup {None}], NEW t \in Pages,
         t # LatestPage(pg)
  PROVE  /\ LatestPage([pg EXCEPT ![t] = None]) = LatestPage(pg)
         /\ Load([pg EXCEPT ![t] = None]) = Load(pg)
  <1> DEFINE qg == [pg EXCEPT ![t] = None]
  <1>1. qg \in [Pages -> Records \cup {None}] /\ qg[t] = None /\ qg[1 - t] = pg[1 - t]
    BY DEF Pages
  <1>2. CASE LatestPage(pg) = None
    <2>1. pg[0] = None /\ pg[1] = None
      BY <1>2, LatestHasRecord
    <2>2. qg[0] = None /\ qg[1] = None
      BY <1>1, <2>1 DEF Pages
    <2> QED
      BY <1>1, <1>2, <2>2, LatestHasRecord DEF Load
  <1>3. CASE LatestPage(pg) # None
    <2>1. LatestPage(pg) = 1 - t /\ 1 - t \in Pages /\ pg[1 - t] # None
      BY <1>3, LatestHasRecord, NoneAssumption DEF Pages
    <2>2. 1 - (1 - t) = t
      BY DEF Pages
    <2>3. LatestPage(qg) = 1 - t
      BY <1>1, <2>1, <2>2, NewestIsNext
    <2> QED
      BY <1>1, <2>1, <2>3 DEF Load
  <1> QED
    BY <1>2, <1>3

(* A record with the generation after the other page's is the newest.      *)
LEMMA WriteBecomesLatest ==
  ASSUME NEW pg \in [Pages -> Records \cup {None}], NEW t \in Pages, NEW r \in Records,
         pg[1 - t] # None => r.gen = NextGen(pg[1 - t].gen)
  PROVE  /\ LatestPage([pg EXCEPT ![t] = r]) = t
         /\ Load([pg EXCEPT ![t] = r]) = r.cfg
  <1> DEFINE qg == [pg EXCEPT ![t] = r]
  <1>1. qg \in [Pages -> Records \cup {None}] /\ qg[t] = r /\ qg[1 - t] = pg[1 - t]
    BY DEF Pages
  <1>2. LatestPage(qg) = t
    BY <1>1, NewestIsNext, NoneAssumption
  <1> QED
    BY <1>1, <1>2, NoneAssumption DEF Load

(* What the target page holds when a save is cut short, and what a load    *)
(* then returns: the old configuration, or the new one from the write on.  *)
LEMMA LeftoverFacts ==
  ASSUME IInv, step # "idle", NEW r \in Leftovers
  PROVE  /\ [pages EXCEPT ![target.page] = r] \in [Pages -> Records \cup {None}]
         /\ \/ Load([pages EXCEPT ![target.page] = r]) = Load(pages)
            \/ /\ step = "write" /\ Decoded[target.cfg] # None
               /\ Load([pages EXCEPT ![target.page] = r]) = Decoded[target.cfg]
         /\ r = None \/ pages[1 - target.page] = None
            \/ r.gen = NextGen(pages[1 - target.page].gen)
            \/ r = pages[target.page]
  <1>1. target \in Targets /\ pages \in [Pages -> Records \cup {None}]
    BY DEF IInv, TypeOK
  <1>2. Written \in Records \cup {None}
    BY <1>1, ConfigsAssumption DEF Written, Records, Targets
  <1>3. r \in Records \cup {None}
    BY <1>1, <1>2 DEF Leftovers, Targets
  <1>4. [pages EXCEPT ![target.page] = r] \in [Pages -> Records \cup {None}]
    BY <1>1, <1>3
  <1>5. CASE r = pages[target.page]
    <2>1. [pages EXCEPT ![target.page] = r] = pages
      BY <1>1, <1>5
    <2> QED
      BY <1>4, <1>5, <2>1
  <1>6. CASE r = None /\ step \in {"erase", "write"}
    <2>1. target.page \in Pages /\ target.page # LatestPage(pages)
      BY <1>1, <1>6 DEF IInv, SparesNewest, Targets
    <2> QED
      BY <1>1, <1>4, <1>6, <2>1, BlankKeepsLatest
  <1>7. CASE r # None /\ step = "write" /\ r = Written
    <2>1. Decoded[target.cfg] # None /\ r = [gen |-> target.gen, cfg |-> Decoded[target.cfg]]
      BY <1>7 DEF Written
    <2>2. r \in Records /\ r.gen = target.gen /\ r.cfg = Decoded[target.cfg]
      BY <1>3, <1>7, <2>1
    <2>3. pages[1 - target.page] # None => r.gen = NextGen(pages[1 - target.page].gen)
      BY <1>7, <2>2 DEF IInv, SaveOnTrack
    <2>4. Load([pages EXCEPT ![target.page] = r]) = r.cfg
      BY <1>1, <2>2, <2>3, WriteBecomesLatest DEF Targets
    <2> QED
      BY <1>4, <1>7, <2>1, <2>2, <2>3, <2>4
  <1> QED
    BY <1>5, <1>6, <1>7 DEF Leftovers

-----------------------------------------------------------------------------
(* Neighbours, seen from the page being saved.                             *)
LEMMA NeighboursFromTarget ==
  ASSUME NEW pg \in [Pages -> Records \cup {None}], NEW t \in Pages,
         \/ pg[t] = None \/ pg[1 - t] = None \/ pg[t].gen = NextGen(pg[1 - t].gen)
  PROVE  pg[0] # None /\ pg[1] # None =>
           \/ pg[1].gen = NextGen(pg[0].gen)
           \/ pg[0].gen = NextGen(pg[1].gen)
  <1>1. CASE t = 0
    BY <1>1
  <1>2. CASE t = 1
    BY <1>2
  <1> QED
    BY <1>1, <1>2 DEF Pages

(* The page and generation a save chooses. *)
LEMMA TargetFacts ==
  ASSUME IInv, NEW c \in Configs
  PROVE  /\ SaveTarget(c) \in Targets
         /\ SaveTarget(c).page # LatestPage(pages)
         /\ pages[1 - SaveTarget(c).page] # None =>
              SaveTarget(c).gen = NextGen(pages[1 - SaveTarget(c).page].gen)
         /\ SaveTarget(c).cfg = c
  <1> DEFINE p == LatestPage(pages)
  <1>1. pages \in [Pages -> Records \cup {None}]
    BY DEF IInv, TypeOK
  <1>2. CASE p = None
    <2>1. SaveTarget(c) = [page |-> 0, gen |-> 1, cfg |-> c]
      BY <1>2 DEF SaveTarget
    <2>2. pages[1] = None
      BY <1>1, <1>2, LatestHasRecord
    <2>3. 1 \in Generations /\ 0 # None
      BY HalfAssumption, NoneAssumption DEF Generations, Pages
    <2> QED
      BY <1>2, <2>1, <2>2, <2>3 DEF Targets, Pages
  <1>3. CASE p # None
    <2>1. p \in Pages /\ pages[p] # None
      BY <1>1, <1>3, LatestHasRecord
    <2>2. SaveTarget(c) = [page |-> 1 - p, gen |-> NextGen(pages[p].gen), cfg |-> c]
      BY <1>3 DEF SaveTarget
    <2>3. pages[p].gen \in Generations
      BY <1>1, <2>1 DEF Records
    <2>4. NextGen(pages[p].gen) \in Generations
      BY <2>3, NeighbourDiff
    <2>5. 1 - p \in Pages /\ 1 - p # p /\ 1 - (1 - p) = p
      BY <2>1 DEF Pages
    <2> QED
      BY <2>2, <2>4, <2>5 DEF Targets
  <1> QED
    BY <1>2, <1>3

LEMMA Initial == Init => IInv
  <1> SUFFICES ASSUME Init PROVE IInv
    OBVIOUS
  <1>1. PICK r \in {None} \cup {[gen |-> 0, cfg |-> c] : c \in Configs} :
          pages = [p \in Pages |-> IF p = 1 THEN r ELSE None]
    BY DEF Init
  <1>2. 0 \in Generations
    BY HalfAssumption DEF Generations
  <1>3. r \in Records \cup {None}
    BY <1>1, <1>2 DEF Records
  <1>4. pages \in [Pages -> Records \cup {None}] /\ pages[0] = None
    BY <1>1, <1>3 DEF Pages
  <1> QED
    BY <1>4 DEF Init, IInv, TypeOK, Neighbours, SparesNewest, SaveOnTrack

(* A save that ends leaves the records neighbours. *)
LEMMA EndKeepsIInv ==
  ASSUME IInv, step # "idle", NEW r \in Leftovers, NEW res \in {"none", "ok", "err"},
         pages' = [pages EXCEPT ![target.page] = r], EndSave(res)
  PROVE  IInv'
  <1>1. target \in Targets /\ pages \in [Pages -> Records \cup {None}]
    BY DEF IInv, TypeOK
  <1>2. target.page \in Pages /\ 1 - target.page \in Pages /\ 1 - target.page # target.page
    BY <1>1 DEF Targets, Pages
  <1>3. pages' \in [Pages -> Records \cup {None}]
    BY LeftoverFacts
  <1>4. pages'[target.page] = r /\ pages'[1 - target.page] = pages[1 - target.page]
    BY <1>1, <1>2
  <1>5. Neighbours'
    <2>1. CASE r = pages[target.page]
      <3>1. pages' = pages
        BY <1>1, <2>1
      <3> QED
        BY <3>1 DEF IInv, Neighbours
    <2>2. CASE r # pages[target.page]
      <3>1. \/ r = None \/ pages[1 - target.page] = None
            \/ r.gen = NextGen(pages[1 - target.page].gen)
        BY <2>2, LeftoverFacts
      <3> QED
        BY <1>2, <1>3, <1>4, <3>1, NeighboursFromTarget DEF Neighbours
    <2> QED
      BY <2>1, <2>2
  <1> QED
    BY <1>3, <1>5 DEF IInv, TypeOK, SparesNewest, SaveOnTrack, EndSave

LEMMA Inductive == IInv /\ [Next]_vars => IInv'
  <1> SUFFICES ASSUME IInv, [Next]_vars PROVE IInv'
    OBVIOUS
  <1>0. pages \in [Pages -> Records \cup {None}]
    BY DEF IInv, TypeOK
  <1>1. ASSUME NEW c \in Configs, BeginSave(c) PROVE IInv'
    <2>1. target' \in Targets /\ target' = SaveTarget(c)
      BY <1>1, TargetFacts DEF BeginSave
    <2>2. target' # None
      BY <2>1, NoneAssumption
    <2> QED
      BY <1>1, <2>1, <2>2, TargetFacts
      DEF BeginSave, IInv, TypeOK, Neighbours, SparesNewest, SaveOnTrack
  <1>2. CASE RefuseSave
    BY <1>2 DEF RefuseSave, IInv, TypeOK, Neighbours, SparesNewest, SaveOnTrack
  <1>3. CASE Erase
    <2>1. target \in Targets /\ target # None
      BY <1>3, NoneAssumption DEF Erase, IInv, TypeOK
    <2>2. target.page \in Pages /\ 1 - target.page \in Pages /\ 1 - target.page # target.page
      BY <2>1 DEF Targets, Pages
    <2>3. /\ pages' \in [Pages -> Records \cup {None}]
          /\ pages'[target.page] = None /\ pages'[1 - target.page] = pages[1 - target.page]
      BY <1>0, <1>3, <2>2 DEF Erase
    <2>4. target.page # LatestPage(pages)
      BY <1>3 DEF Erase, IInv, SparesNewest
    <2>5. target.page # LatestPage(pages')
      BY <1>0, <1>3, <2>2, <2>4, BlankKeepsLatest DEF Erase
    <2>6. Neighbours'
      BY <2>2, <2>3, NeighboursFromTarget DEF Neighbours
    <2> QED
      BY <1>3, <2>1, <2>3, <2>5, <2>6 DEF Erase, IInv, TypeOK, SparesNewest, SaveOnTrack
  <1>4. CASE Write
    <2>1. target \in Targets /\ target # None
      BY <1>4, NoneAssumption DEF Write, IInv, TypeOK
    <2>2. target.page \in Pages /\ 1 - target.page \in Pages /\ 1 - target.page # target.page
      BY <2>1 DEF Targets, Pages
    <2>3. PICK r \in {None, Written} : pages' = [pages EXCEPT ![target.page] = r]
      BY <1>4 DEF Write
    <2>4. r \in Leftovers /\ step # "idle"
      BY <1>4 DEF Write, Leftovers
    <2>5. /\ pages' \in [Pages -> Records \cup {None}]
          /\ pages'[target.page] = r /\ pages'[1 - target.page] = pages[1 - target.page]
      BY <1>0, <2>2, <2>3, <2>4, LeftoverFacts
    <2>6. pages[target.page] = None
      BY <1>4 DEF Write, IInv, SaveOnTrack
    <2>7. Neighbours'
      BY <2>2, <2>4, <2>5, <2>6, LeftoverFacts, NeighboursFromTarget DEF Neighbours
    <2>8. Written' = Written
      BY <1>4 DEF Write, Written
    <2> QED
      BY <1>4, <2>1, <2>5, <2>7, <2>8 DEF Write, IInv, TypeOK, SparesNewest, SaveOnTrack
  <1>5. CASE Verify
    <2>1. step # "idle" /\ pages[target.page] \in Leftovers
      BY <1>5 DEF Verify, Leftovers
    <2>2. pages' = [pages EXCEPT ![target.page] = pages[target.page]]
      BY <1>0, <1>5 DEF Verify
    <2>3. PICK res \in {"none", "ok", "err"} : EndSave(res)
      BY <1>5 DEF Verify
    <2> QED
      BY <2>1, <2>2, <2>3, EndKeepsIInv
  <1>6. CASE FlashError
    BY <1>6, EndKeepsIInv DEF FlashError
  <1>7. CASE PowerFail
    <2>1. CASE step = "idle"
      BY <1>7, <2>1 DEF PowerFail, EndSave, IInv, TypeOK, Neighbours, SparesNewest, SaveOnTrack
    <2>2. CASE step # "idle"
      BY <1>7, <2>2, EndKeepsIInv DEF PowerFail
    <2> QED
      BY <2>1, <2>2
  <1>8. CASE UNCHANGED vars
    BY <1>8 DEF vars, IInv, TypeOK, Neighbours, SparesNewest, SaveOnTrack, Written
  <1> QED
    BY <1>1, <1>2, <1>3, <1>4, <1>5, <1>6, <1>7, <1>8 DEF Next

(* Spec => []IInv, from which every safety theorem below follows. *)
LEMMA Invariant == Spec => []IInv
  BY Initial, Inductive, PTL DEF Spec

-----------------------------------------------------------------------------
(* The state of the journal is always of its type: what save() computes as *)
(* the next generation stays a u32 and the page it chooses is 0 or 1.      *)
THEOREM TypeCorrect == Spec => []TypeOK
  <1>1. IInv => TypeOK
    BY DEF IInv
  <1> QED
    BY <1>1, Invariant, PTL

(* The generations of the two records are always neighbours, so latest()   *)
(* ranks them correctly also after 2^32 saves and any number of failures.  *)
THEOREM AlwaysNeighbours == Spec => []Neighbours
  <1>1. IInv => Neighbours
    BY DEF IInv
  <1> QED
    BY <1>1, Invariant, PTL

(* save() never erases or writes the page that holds the newest record.    *)
THEOREM NewestIsSpared == Spec => []SparesNewest
  <1>1. IInv => SparesNewest
    BY DEF IInv
  <1> QED
    BY <1>1, Invariant, PTL

-----------------------------------------------------------------------------
(* What verify() finds: a record that reads back equal is the newest one.  *)
LEMMA ReadBackIsLatest ==
  ASSUME IInv, step = "verify", ReadsBack
  PROVE  Load(pages) = Decoded[target.cfg]
  <1>1. target \in Targets /\ pages \in [Pages -> Records \cup {None}]
    BY DEF IInv, TypeOK
  <1>2. target.page \in Pages /\ 1 - target.page \in Pages
    BY <1>1 DEF Targets, Pages
  <1>3. pages[target.page] # None /\ pages[target.page].cfg = Decoded[target.cfg]
    BY DEF ReadsBack
  <1>4. pages[target.page] = Written /\ Written # None
    BY <1>3 DEF IInv, SaveOnTrack
  <1>5. pages[target.page].gen = target.gen
    BY <1>4 DEF Written
  <1>6. pages[1 - target.page] # None => pages[target.page].gen = NextGen(pages[1 - target.page].gen)
    BY <1>5 DEF IInv, SaveOnTrack
  <1>7. LatestPage(pages) = target.page
    BY <1>1, <1>2, <1>3, <1>6, NewestIsNext
  <1> QED
    BY <1>2, <1>3, <1>7, NoneAssumption DEF Load

(* A save that reports success is the one a load returns.                  *)
THEOREM SuccessIsDurable == Spec => SavedIsLoaded
  <1>1. IInv /\ [Next]_vars =>
          [step = "verify" /\ result' = "ok" => Load(pages)' = Decoded[target.cfg]]_vars
    <2> SUFFICES ASSUME IInv, Next, step = "verify", result' = "ok"
                 PROVE  Load(pages)' = Decoded[target.cfg]
      OBVIOUS
    <2>1. Verify
      BY DEF Next, BeginSave, RefuseSave, Erase, Write, FlashError, PowerFail, EndSave
    <2>2. ReadsBack /\ pages' = pages
      BY <2>1 DEF Verify, EndSave
    <2> QED
      BY <2>2, ReadBackIsLatest DEF Load, LatestPage
  <1> QED
    BY <1>1, Invariant, PTL DEF Spec, SavedIsLoaded

(* Loads depend on the pages alone. *)
LEMMA LoadPrimed == Load(pages)' = Load(pages')
  BY DEF Load, LatestPage

(* No step, and no failure at any step, makes load() return anything but   *)
(* the old configuration or the new one.                                   *)
LEMMA StepKeepsLoad ==
  ASSUME IInv, [Next]_vars
  PROVE  \/ Load(pages') = Load(pages)
         \/ /\ step = "write" /\ Decoded[target.cfg] # None
            /\ Load(pages') = Decoded[target.cfg]
  <1>0. pages \in [Pages -> Records \cup {None}]
    BY DEF IInv, TypeOK
  <1>1. CASE Erase
    <2>1. None \in Leftovers /\ step # "idle"
      BY <1>1 DEF Erase, Leftovers
    <2> QED
      BY <1>1, <2>1, LeftoverFacts DEF Erase
  <1>2. CASE Write
    <2>1. {None, Written} = Leftovers /\ step # "idle"
      BY <1>2 DEF Write, Leftovers
    <2> QED
      BY <1>2, <2>1, LeftoverFacts DEF Write
  <1>3. CASE FlashError
    BY <1>3, LeftoverFacts DEF FlashError
  <1>4. CASE PowerFail
    BY <1>4, LeftoverFacts DEF PowerFail
  <1>5. CASE UNCHANGED pages
    BY <1>5
  <1> QED
    BY <1>1, <1>2, <1>3, <1>4, <1>5 DEF Next, BeginSave, RefuseSave, Verify, vars

(* Whatever fails and whenever the power goes, the configuration that a    *)
(* load returns is the old one or the one being saved.                     *)
THEOREM IdentitySurvives == Spec => LoadIsOldOrNew
  <1>1. IInv /\ [Next]_vars =>
          [Load(pages)' = Load(pages) \/ (step = "write" /\ Load(pages)' = Decoded[target.cfg])]_vars
    BY StepKeepsLoad, LoadPrimed
  <1> QED
    BY <1>1, Invariant, PTL DEF Spec, LoadIsOldOrNew

-----------------------------------------------------------------------------
(* Refinement: the abstract store's variables are what load() returns, the *)
(* configuration of the save under way and how the last save ended.        *)
SavingNow == IF target = None THEN None ELSE target.cfg

LEMMA InitRefines == Init => Store!StoreInit
  <1> SUFFICES ASSUME Init PROVE Store!StoreInit
    OBVIOUS
  <1>1. IInv /\ pages \in [Pages -> Records \cup {None}]
    BY Initial DEF IInv, TypeOK
  <1>2. pages[0] = None
    BY DEF Init, Pages
  <1>3. Load(pages) \in {Decoded[c] : c \in Configs} \cup {None}
    <2>1. CASE pages[1] = None
      BY <1>1, <1>2, <2>1, LatestHasRecord DEF Load
    <2>2. CASE pages[1] # None
      <3>1. LatestPage(pages) = 1 /\ 1 # None
        BY <1>2, <2>2, NoneAssumption DEF LatestPage, Pages
      <3>2. Load(pages) = pages[1].cfg
        BY <3>1 DEF Load
      <3> QED
        BY <2>2, <3>2 DEF Init
    <2> QED
      BY <2>1, <2>2
  <1> QED
    BY <1>3 DEF Init, Store!StoreInit

LEMMA StepRefines == IInv /\ [Next]_vars => [Store!StoreNext]_(Store!storeVars)
  <1> SUFFICES ASSUME IInv, [Next]_vars PROVE [Store!StoreNext]_(Store!storeVars)
    OBVIOUS
  <1> USE DEF Store!storeVars
  <1>0. /\ Load(pages)' = Load(pages')
        /\ step = "idle" <=> target = None
        /\ target \in Targets \cup {None} /\ None \notin Targets \cup Configs
    BY LoadPrimed, NoneAssumption DEF IInv, TypeOK
  <1>a. ASSUME step # "idle"
        PROVE  SavingNow = target.cfg /\ SavingNow # None
    BY <1>0, <1>a DEF SavingNow, Targets
  <1>b. ASSUME EndSave("none") \/ EndSave("err") \/ EndSave("ok")
        PROVE  SavingNow' = None
    BY <1>b DEF SavingNow, EndSave
  <1>1. ASSUME NEW c \in Configs, BeginSave(c) PROVE Store!Begin(c)
    <2>1. target' \in Targets /\ target'.cfg = c /\ target = None
      BY <1>0, <1>1, TargetFacts DEF BeginSave
    <2> QED
      BY <1>0, <1>1, <2>1 DEF BeginSave, Store!Begin
  <1>2. ASSUME RefuseSave PROVE Store!Refuse
    BY <1>0, <1>2 DEF RefuseSave, Store!Refuse
  <1>3. ASSUME Erase PROVE UNCHANGED Store!storeVars
    <2>1. Load(pages') = Load(pages)
      BY <1>3, StepKeepsLoad DEF Erase
    <2> QED
      BY <1>0, <1>3, <2>1 DEF Erase
  <1>4. ASSUME Write PROVE Store!Commit \/ UNCHANGED Store!storeVars
    <2>1. step # "idle" /\ target' = target /\ result' = result
      BY <1>4 DEF Write
    <2>2. CASE Load(pages') = Load(pages)
      BY <1>0, <2>1, <2>2
    <2>3. CASE Decoded[target.cfg] # None /\ Load(pages') = Decoded[target.cfg]
      BY <1>0, <1>a, <2>1, <2>3 DEF Store!Commit, SavingNow
    <2> QED
      BY <2>2, <2>3, StepKeepsLoad
  <1>5. ASSUME Verify PROVE Store!Return("ok") \/ Store!Return("err")
    <2>1. step # "idle" /\ Load(pages)' = Load(pages)
      BY <1>0, <1>5 DEF Verify
    <2>2. CASE ReadsBack
      <3>1. Load(pages) = Decoded[target.cfg] /\ EndSave("ok")
        BY <1>5, <2>2, ReadBackIsLatest DEF Verify
      <3> QED
        BY <1>a, <1>b, <2>1, <3>1 DEF Store!Return, SavingNow, EndSave
    <2>3. CASE ~ReadsBack
      <3>1. EndSave("err")
        BY <1>5, <2>3 DEF Verify
      <3> QED
        BY <1>a, <1>b, <2>1, <3>1 DEF Store!Return, SavingNow, EndSave
    <2> QED
      BY <2>2, <2>3
  <1>6. ASSUME FlashError PROVE Store!Return("err") \/ Store!CommitAndFail("err")
    <2>1. step # "idle" /\ EndSave("err")
      BY <1>6 DEF FlashError
    <2>2. CASE Load(pages') = Load(pages)
      BY <1>0, <1>a, <1>b, <2>1, <2>2 DEF Store!Return, SavingNow, EndSave
    <2>3. CASE Decoded[target.cfg] # None /\ Load(pages') = Decoded[target.cfg]
      BY <1>0, <1>a, <1>b, <2>1, <2>3 DEF Store!CommitAndFail, SavingNow, EndSave
    <2> QED
      BY <2>2, <2>3, StepKeepsLoad
  <1>7. ASSUME PowerFail PROVE Store!Crash \/ Store!CommitAndFail("none")
    <2>1. EndSave("none")
      BY <1>7 DEF PowerFail
    <2>2. CASE Load(pages') = Load(pages)
      BY <1>0, <1>b, <2>1, <2>2 DEF Store!Crash, SavingNow, EndSave
    <2>3. CASE step = "write" /\ Decoded[target.cfg] # None /\ Load(pages') = Decoded[target.cfg]
      BY <1>0, <1>a, <1>b, <2>1, <2>3 DEF Store!CommitAndFail, SavingNow, EndSave
    <2> QED
      BY <2>2, <2>3, StepKeepsLoad
  <1>8. ASSUME UNCHANGED vars PROVE UNCHANGED Store!storeVars
    BY <1>8, <1>0 DEF vars
  <1> QED
    BY <1>1, <1>2, <1>3, <1>4, <1>5, <1>6, <1>7, <1>8 DEF Next, Store!StoreNext

(* The journal of two pages implements the store in which a save is one    *)
(* atomic step: for every set of configurations and every generation count.*)
THEOREM JournalIsAtomic == Spec => StoreSpec
  BY InitRefines, StepRefines, Invariant, PTL DEF Spec, StoreSpec, Store!StoreSpec
=============================================================================
