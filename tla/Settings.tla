------------------------------ MODULE Settings ------------------------------
(***************************************************************************)
(* The settings and the copy of them each process keeps (settings): read   *)
(* from the table when there is no copy, dropped when a save has committed, *)
(* and consulted by every other module, the emergency stop of payouts      *)
(* among them.  The table is read and the copy made on two sides of an     *)
(* await.  One process; a restart loses the copy and the calls.            *)
(***************************************************************************)
EXTENDS Calls, Naturals, FiniteSets
CONSTANTS Defaults,            \* key -> its compiled-in value: the registry
          Legal,               \* key -> the values its type and limits admit
          Junk,                \* a value that is none of them
          Savers, MaxSaves     \* calls at a time; MaxSaves bounds the run
SaveStages == {"reading", "read", "upserting", "upserted"}
ASSUME SettingsAssumption ==
  /\ "payouts.frozen" \in DOMAIN Defaults /\ DOMAIN Legal = DOMAIN Defaults /\ Free \notin SaveStages
  /\ \A k \in DOMAIN Defaults : Defaults[k] \in Legal[k] /\ Junk \notin Legal[k] /\ Free \notin Legal[k]
  /\ MaxSaves \in Nat
VARIABLES table,               \* key -> stored value; Free where there is no row
          cache,               \* the snapshot, Free when there is none
          retention,           \* the copy of one setting that the activity log holds
          save,                \* calls in progress
          saves, crossed       \* history: saves begun; the snapshot kept was read before a save it outlived
settingsVars == <<table, cache, retention, save, saves, crossed>>

SettingKeys == DOMAIN Defaults
Kept == "activity.retentionDays"
Nothing == [k \in SettingKeys |-> Free]
Patches == {p \in [SettingKeys -> (UNION {Legal[k] : k \in SettingKeys}) \cup {Free, Junk}] :
              \A k \in SettingKeys : p[k] \in Legal[k] \cup {Free, Junk}}
NoSave == [at |-> Free, patch |-> Nothing, rows |-> Nothing, late |-> FALSE]
SettingsTypeOK ==
  /\ table \in Patches /\ cache \in Patches \cup {Free} /\ crossed \in BOOLEAN /\ saves \in 0..MaxSaves
  /\ \A c \in Savers : save[c].at \in SaveStages \cup {Free} /\ save[c].patch \in Patches

\* getAll: rows that do not validate are passed over.
Resolve(rows) == [k \in SettingKeys |-> IF rows[k] \in Legal[k] THEN rows[k] ELSE Defaults[k]]
Applied(snapshot) == IF Kept \in SettingKeys THEN snapshot[Kept] ELSE retention
SettingsInit ==
  /\ table \in {Nothing, [k \in SettingKeys |-> Junk]} /\ cache = Free /\ retention = Applied(Defaults)
  /\ save = [c \in Savers |-> NoSave] /\ saves = 0 /\ crossed = FALSE

-----------------------------------------------------------------------------
\* What a call does once it has a snapshot: a save goes on to write the keys that differ from it, if any; a
\* reader, or a save that has written, answers.
Changed(patch, before) == [k \in SettingKeys |-> IF patch[k] = before[k] THEN Free ELSE patch[k]]
With(call, snapshot) == LET changed == Changed(call.patch, snapshot) IN
  IF call.patch = Nothing \/ changed = Nothing THEN NoSave ELSE [NoSave EXCEPT !.at = "upserting", !.patch = changed]
GetAll(c, call) ==
  save' = [save EXCEPT ![c] = IF cache = Free THEN [call EXCEPT !.at = "reading"] ELSE With(call, cache)]

\* isPayoutsFrozen, getNumber, getGrouped; with a copy at hand they change nothing.
ReadSettings(c) ==
  /\ save[c].at = Free /\ cache = Free /\ GetAll(c, NoSave)
  /\ UNCHANGED <<table, cache, retention, saves, crossed>>
\* One bad value and nothing is saved.
Accepted(patch) == patch # Nothing /\ \A k \in SettingKeys : patch[k] # Junk
UpdateSettings(c) == \E patch \in Patches :
  /\ save[c].at = Free /\ saves < MaxSaves /\ Accepted(patch)
  /\ saves' = saves + 1 /\ GetAll(c, [NoSave EXCEPT !.patch = patch])
  /\ UNCHANGED <<table, cache, retention, crossed>>
FindAll(c) ==
  /\ save[c].at = "reading"
  /\ save' = [save EXCEPT ![c].at = "read", ![c].rows = table]
  /\ UNCHANGED <<table, cache, retention, saves, crossed>>
KeepSnapshot(c) == LET snapshot == Resolve(save[c].rows) IN
  /\ save[c].at = "read"
  /\ cache' = snapshot /\ retention' = Applied(snapshot) /\ crossed' = save[c].late
  /\ save' = [save EXCEPT ![c] = With(@, snapshot)]
  /\ UNCHANGED <<table, saves>>
\* All of the rows in one transaction.
UpsertMany(c) ==
  /\ save[c].at = "upserting"
  /\ table' = [k \in SettingKeys |-> IF save[c].patch[k] = Free THEN table[k] ELSE save[c].patch[k]]
  /\ save' = [d \in Savers |-> IF d = c THEN [NoSave EXCEPT !.at = "upserted"]
                               ELSE IF save[d].at = "read" THEN [save[d] EXCEPT !.late = TRUE] ELSE save[d]]
  /\ UNCHANGED <<cache, retention, saves, crossed>>
\* Mutation: the copy stays.
InvalidateKeepsCopy(c) ==
  /\ save[c].at = "upserted" /\ crossed' = FALSE /\ UNCHANGED cache
  /\ save' = [save EXCEPT ![c] = [NoSave EXCEPT !.at = IF cache = Free THEN "reading" ELSE Free]]
  /\ UNCHANGED <<table, retention, saves>>
\* The copy is dropped and, for the answer, read anew.
Invalidate(c) ==
  /\ save[c].at = "upserted" /\ cache' = Free /\ crossed' = FALSE
  /\ save' = [save EXCEPT ![c] = [NoSave EXCEPT !.at = "reading"]]
  /\ UNCHANGED <<table, retention, saves>>
\* A query fails; an update that has committed is answered with an error all the same.
QueryFails(c) ==
  /\ save[c].at \in {"reading", "upserting"} /\ save' = [save EXCEPT ![c] = NoSave]
  /\ UNCHANGED <<table, cache, retention, saves, crossed>>
\* onModuleInit runs before any request; if it fails the process starts without a copy.
StartAgain == \E loaded \in BOOLEAN :
  /\ save' = [c \in Savers |-> NoSave] /\ crossed' = FALSE
  /\ cache' = IF loaded THEN Resolve(table) ELSE Free
  /\ retention' = Applied(IF loaded THEN Resolve(table) ELSE Defaults)
  /\ UNCHANGED <<table, saves>>

SettingsNext == StartAgain \/ \E c \in Savers :
  ReadSettings(c) \/ UpdateSettings(c) \/ FindAll(c) \/ KeepSnapshot(c) \/ UpsertMany(c) \/ Invalidate(c) \/ QueryFails(c)

SettingsSpec == SettingsInit /\ [][SettingsNext]_settingsVars

-----------------------------------------------------------------------------
(* Properties. *)
Answered == \A c \in Savers : save[c].at # "upserted"

\* "The cache is dropped on write ... so a save is visible on the next request": once the saves that have
\* committed are past invalidate, the settings served and the retention applied are those stored, unless
\* the copy kept was read before a save that committed while it was on its way.
SaveIsSeen == SettingsTypeOK
  /\ (cache # Free /\ Answered /\ ~crossed => cache = Resolve(table) /\ retention = Applied(cache))

\* "An emergency stop that takes effect on the next restart is not an emergency stop": what
\* isPayoutsFrozen answers from the copy is what the last answered save stored.
FreezeIsSeen == cache # Free /\ Answered => cache["payouts.frozen"] = Resolve(table)["payouts.frozen"]
=============================================================================
