----------------------------- MODULE ConfigStore -----------------------------
(***************************************************************************)
(* What the configuration store promises: one durable configuration that   *)
(* a save replaces in a single step or not at all, whatever fails and      *)
(* whenever the power goes.  ConfigJournal implements it.                  *)
(***************************************************************************)
CONSTANTS Configs, Decoded, None

VARIABLES
  stored,  \* the configuration a load returns, None before the first save
  saving,  \* the configuration being saved, or None
  result   \* how the last save ended: "ok", "err", or "none" if it did not

storeVars == <<stored, saving, result>>

StoreInit ==
  /\ stored \in {Decoded[c] : c \in Configs} \cup {None}
  /\ saving = None
  /\ result = "none"

Begin(c) ==
  /\ saving = None
  /\ saving' = c
  /\ result' = "none"
  /\ UNCHANGED stored

(* A save that fails before it begins. *)
Refuse ==
  /\ saving = None
  /\ result' = "err"
  /\ UNCHANGED <<stored, saving>>

(* The one step that changes the durable configuration. *)
Commit ==
  /\ saving # None
  /\ Decoded[saving] # None
  /\ stored' = Decoded[saving]
  /\ UNCHANGED <<saving, result>>

(* A failed save may fail after its commit. *)
Return(res) ==
  /\ saving # None
  /\ res = "ok" => stored = Decoded[saving]
  /\ saving' = None
  /\ result' = res
  /\ UNCHANGED stored

(* A failure that is noticed in the same step as the commit. *)
CommitAndFail(res) ==
  /\ saving # None
  /\ Decoded[saving] # None
  /\ stored' = Decoded[saving]
  /\ saving' = None
  /\ result' = res

Crash ==
  /\ saving' = None
  /\ result' = "none"
  /\ UNCHANGED stored

StoreNext ==
  \/ \E c \in Configs : Begin(c)
  \/ Refuse
  \/ Commit
  \/ Return("ok") \/ Return("err")
  \/ CommitAndFail("err") \/ CommitAndFail("none")
  \/ Crash

StoreSpec == StoreInit /\ [][StoreNext]_storeVars
=============================================================================
