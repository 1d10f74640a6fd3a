----------------------------- MODULE Desk_proofs -----------------------------
(***************************************************************************)
(* Proofs about what administrators do at their desk: the settings and     *)
(* their copies; the pictures rows show and the files that hold them; a    *)
(* player's payout accounts; the ledger they adjust and backfill; the      *)
(* variants of the catalogue; and the orders of players they ship, fulfil  *)
(* and cancel.  Each component's steps are its own, so each has an         *)
(* invariant of its own; the six share no variable.                        *)
(***************************************************************************)
EXTENDS Orders, Settings, Images, PayoutMethods, Ledger, Catalogue, SequenceTheorems, FunctionTheorems, Sums_proofs

(* Settings: a record is a call in progress.                                 *)
SaveCalls == [at : SaveStages \cup {Free}, patch : Patches, rows : Patches, late : BOOLEAN]

(* What a call has read is the table, unless a save committed since; the     *)
(* copy is the table, unless it was read before such a save, or the save is  *)
(* still to drop it.                                                         *)
ReadsAreCurrent ==
    \A c \in Savers :
        /\ save[c].at = "reading" => ~save[c].late
        /\ save[c].at = "read" /\ ~save[c].late => save[c].rows = table

CopyIsCurrent ==
    cache # Free /\ Answered /\ ~crossed => cache = Resolve(table) /\ retention = Applied(cache)

SettingsInv ==
    /\ table \in Patches /\ cache \in Patches \cup {Free}
    /\ crossed \in BOOLEAN /\ saves \in 0 .. MaxSaves
    /\ save \in [Savers -> SaveCalls]
    /\ ReadsAreCurrent
    /\ CopyIsCurrent

(* A patch or a row set is a function on the keys, legal, absent or junk.     *)
LEMMA PatchTyped ==
    ASSUME NEW p, p = [k \in SettingKeys |-> p[k]],
           \A k \in SettingKeys : p[k] \in Legal[k] \cup {Free, Junk}
    PROVE  p \in Patches
<1>1. \A k \in SettingKeys : p[k] \in (UNION {Legal[j] : j \in SettingKeys}) \cup {Free, Junk}
  <2> SUFFICES ASSUME NEW k \in SettingKeys
               PROVE  p[k] \in (UNION {Legal[j] : j \in SettingKeys}) \cup {Free, Junk}
    OBVIOUS
  <2>1. Legal[k] \in {Legal[j] : j \in SettingKeys}
    OBVIOUS
  <2>2. Legal[k] \subseteq UNION {Legal[j] : j \in SettingKeys}
    BY <2>1
  <2> QED BY <2>2
<1>2. p \in [SettingKeys -> (UNION {Legal[j] : j \in SettingKeys}) \cup {Free, Junk}]
  BY <1>1
<1> QED BY <1>2 DEF Patches

LEMMA PatchHas ==
    ASSUME NEW p \in Patches
    PROVE  p = [k \in SettingKeys |-> p[k]] /\ \A k \in SettingKeys : p[k] \in Legal[k] \cup {Free, Junk}
  BY DEF Patches

(* An idle call is at no stage.                                              *)
LEMMA FreeIsNoStage ==
    /\ Free # "reading" /\ Free # "read" /\ Free # "upserting" /\ Free # "upserted"
    /\ SaveStages = {"reading", "read", "upserting", "upserted"}
  BY SettingsAssumption DEF SaveStages

(* Whatever the rows hold, what is served is legal.                          *)
LEMMA ResolveIsLegal ==
    ASSUME NEW stored
    PROVE  Resolve(stored) \in Patches
<1>1. \A k \in SettingKeys : Resolve(stored)[k] \in Legal[k] \cup {Free, Junk}
  BY SettingsAssumption DEF Resolve, SettingKeys
<1>2. Resolve(stored) = [k \in SettingKeys |-> Resolve(stored)[k]]
  BY DEF Resolve
<1> QED BY <1>1, <1>2, PatchTyped

(* The keys a save would change are a patch, and so is none of them.         *)
LEMMA ChangedIsPatch ==
    ASSUME NEW patch \in Patches, NEW before
    PROVE  Changed(patch, before) \in Patches
<1>1. \A k \in SettingKeys : Changed(patch, before)[k] \in Legal[k] \cup {Free, Junk}
  BY PatchHas DEF Changed
<1>2. Changed(patch, before) = [k \in SettingKeys |-> Changed(patch, before)[k]]
  BY DEF Changed
<1> QED BY <1>1, <1>2, PatchTyped

LEMMA NothingIsPatch == Nothing \in Patches /\ [k \in SettingKeys |-> Junk] \in Patches
<1>1. Nothing \in Patches
  BY PatchTyped DEF Nothing
<1>2. \A k \in SettingKeys : [j \in SettingKeys |-> Junk][k] \in Legal[k] \cup {Free, Junk}
  OBVIOUS
<1>3. [j \in SettingKeys |-> Junk] = [k \in SettingKeys |-> [j \in SettingKeys |-> Junk][k]]
  OBVIOUS
<1>4. [k \in SettingKeys |-> Junk] \in Patches
  BY <1>2, <1>3, PatchTyped
<1> QED BY <1>1, <1>4

LEMMA NoSaveIsCall == NoSave \in SaveCalls /\ ~NoSave.late /\ NoSave.at = Free
  BY NothingIsPatch DEF NoSave, SaveCalls

(* A call goes on with a snapshot to write, or is over.                      *)
LEMMA WithIsCall ==
    ASSUME NEW call \in SaveCalls, NEW snapshot
    PROVE  /\ With(call, snapshot) \in SaveCalls
           /\ With(call, snapshot).at \in {Free, "upserting"}
           /\ NoSave \in SaveCalls
<1>1. Changed(call.patch, snapshot) \in Patches /\ Nothing \in Patches
  BY ChangedIsPatch, NothingIsPatch DEF SaveCalls
<1>2. NoSave \in SaveCalls
  BY <1>1 DEF NoSave, SaveCalls
<1>3. /\ [NoSave EXCEPT !.at = "upserting", !.patch = Changed(call.patch, snapshot)] \in SaveCalls
      /\ [NoSave EXCEPT !.at = "upserting", !.patch = Changed(call.patch, snapshot)].at = "upserting"
  BY <1>1, <1>2, FreeIsNoStage DEF SaveCalls
<1> QED BY <1>1, <1>2, <1>3, NoSaveIsCall DEF With

(* Nothing has been read or copied at the start.                             *)
LEMMA SettingsInvInit == SettingsInit => SettingsInv
<1> SUFFICES ASSUME SettingsInit PROVE SettingsInv
  OBVIOUS
<1>1. Nothing \in Patches /\ [k \in SettingKeys |-> Junk] \in Patches
  BY NothingIsPatch
<1>2. NoSave \in SaveCalls /\ NoSave.at = Free
  BY NoSaveIsCall, FreeIsNoStage
<1>3. /\ table \in Patches /\ cache = Free /\ crossed \in BOOLEAN
      /\ saves \in 0 .. MaxSaves
  <2>1. 0 \in 0 .. MaxSaves
    BY SettingsAssumption
  <2> QED BY <1>1, <2>1 DEF SettingsInit
<1>4. /\ save \in [Savers -> SaveCalls]
      /\ \A c \in Savers : save[c].at = Free
  BY <1>2 DEF SettingsInit
<1>5. ReadsAreCurrent
  BY <1>4, FreeIsNoStage DEF ReadsAreCurrent
<1> QED BY <1>3, <1>4, <1>5 DEF SettingsInv, CopyIsCurrent

(* A call that has a copy at hand goes on with it, and one that has none     *)
(* goes to read.                                                             *)
LEMMA GetAllKeeps ==
    ASSUME SettingsInv, NEW c \in Savers, NEW call \in SaveCalls, ~call.late, save[c].at = Free,
           GetAll(c, call), UNCHANGED <<table, cache, retention, crossed>>, saves' \in 0 .. MaxSaves
    PROVE  SettingsInv'
<1> DEFINE next == IF cache = Free THEN [call EXCEPT !.at = "reading"] ELSE With(call, cache)
<1>1. /\ next \in SaveCalls
      /\ next.at \in {Free, "upserting", "reading"}
      /\ next.at = "reading" => ~next.late
  <2>1. CASE cache = Free
    BY <2>1, FreeIsNoStage DEF SaveCalls
  <2>2. CASE cache # Free
    BY <2>2, WithIsCall, FreeIsNoStage
  <2> QED BY <2>1, <2>2
<1>2. save' = [save EXCEPT ![c] = next]
  BY DEF GetAll
<1> HIDE DEF next
<1>3. /\ save' \in [Savers -> SaveCalls]
      /\ \A d \in Savers : save'[d] = IF d = c THEN next ELSE save[d]
  BY <1>1, <1>2 DEF SettingsInv
<1>4. ReadsAreCurrent'
  BY <1>1, <1>3, FreeIsNoStage DEF SettingsInv, ReadsAreCurrent
<1>5. Answered' => Answered
  BY <1>1, <1>3, FreeIsNoStage DEF Answered
<1>6. CopyIsCurrent'
  BY <1>5 DEF SettingsInv, CopyIsCurrent, Resolve, Applied
<1> QED BY <1>3, <1>4, <1>6 DEF SettingsInv

(* Every step keeps the invariant.                                           *)
LEMMA SettingsStep == SettingsInv /\ [SettingsNext]_settingsVars => SettingsInv'
<1> SUFFICES ASSUME SettingsInv, [SettingsNext]_settingsVars PROVE SettingsInv'
  OBVIOUS
<1> USE FreeIsNoStage
<1>1. NoSave \in SaveCalls /\ ~NoSave.late /\ NoSave.at = Free
  BY NoSaveIsCall
<1>2. ASSUME NEW c \in Savers, ReadSettings(c) PROVE SettingsInv'
  BY <1>1, <1>2, GetAllKeeps DEF ReadSettings, SettingsInv
<1>3. ASSUME NEW c \in Savers, UpdateSettings(c) PROVE SettingsInv'
  <2>1. PICK patch \in Patches : /\ save[c].at = Free /\ saves < MaxSaves /\ saves' = saves + 1
                                 /\ GetAll(c, [NoSave EXCEPT !.patch = patch])
                                 /\ UNCHANGED <<table, cache, retention, crossed>>
    BY <1>3 DEF UpdateSettings
  <2>2. [NoSave EXCEPT !.patch = patch] \in SaveCalls /\ ~[NoSave EXCEPT !.patch = patch].late
    BY <1>1 DEF NoSave, SaveCalls
  <2>3. saves' \in 0 .. MaxSaves
    BY <2>1, SettingsAssumption DEF SettingsInv
  <2> QED BY <2>1, <2>2, <2>3, GetAllKeeps
<1>4. ASSUME NEW c \in Savers, FindAll(c) PROVE SettingsInv'
  <2>1. save' \in [Savers -> SaveCalls]
    BY <1>4 DEF SettingsInv, SaveCalls, FindAll
  <2>2. ReadsAreCurrent' /\ (Answered' => Answered)
    BY <1>4 DEF SettingsInv, SaveCalls, ReadsAreCurrent, Answered, FindAll
  <2> QED BY <1>4, <2>1, <2>2 DEF SettingsInv, CopyIsCurrent, FindAll, Resolve, Applied
<1>5. ASSUME NEW c \in Savers, KeepSnapshot(c) PROVE SettingsInv'
  <2> DEFINE snapshot == Resolve(save[c].rows)
  <2>1. snapshot \in Patches
    BY ResolveIsLegal
  <2>2. With(save[c], snapshot) \in SaveCalls /\ With(save[c], snapshot).at \in {Free, "upserting"}
    BY WithIsCall DEF SettingsInv
  <2>3. /\ cache' = snapshot /\ retention' = Applied(snapshot) /\ crossed' = save[c].late
        /\ save[c].at = "read" /\ save' = [save EXCEPT ![c] = With(save[c], snapshot)]
        /\ UNCHANGED <<table, saves>>
    BY <1>5 DEF KeepSnapshot
  <2> HIDE DEF snapshot
  <2>4. save' \in [Savers -> SaveCalls] /\ crossed' \in BOOLEAN
    BY <2>2, <2>3 DEF SettingsInv, SaveCalls
  <2>5. ReadsAreCurrent'
    BY <2>2, <2>3 DEF SettingsInv, SaveCalls, ReadsAreCurrent
  <2>6. ~crossed' => snapshot = Resolve(table)
    BY <2>3 DEF SettingsInv, ReadsAreCurrent, snapshot
  <2>7. Applied(cache') = Applied(snapshot) /\ Resolve(table)' = Resolve(table)
    BY <2>3 DEF Resolve
  <2>8. ASSUME ~crossed' PROVE cache' = Resolve(table)' /\ retention' = Applied(cache')
    BY <2>3, <2>6, <2>7, <2>8
  <2>9. CopyIsCurrent'
    BY <2>8 DEF CopyIsCurrent, Applied
  <2> QED BY <2>1, <2>3, <2>4, <2>5, <2>9 DEF SettingsInv
<1>6. ASSUME NEW c \in Savers, UpsertMany(c) PROVE SettingsInv'
  <2>1. table' \in Patches
    <3>1. save[c].patch \in Patches /\ table \in Patches
      BY <1>6 DEF SettingsInv, SaveCalls
    <3>2. \A k \in SettingKeys : table'[k] \in Legal[k] \cup {Free, Junk}
      BY <3>1, <1>6, PatchHas DEF UpsertMany
    <3>3. table' = [k \in SettingKeys |-> table'[k]]
      BY <1>6 DEF UpsertMany
    <3> QED BY <3>2, <3>3, PatchTyped
  <2>2. save' \in [Savers -> SaveCalls]
    BY <1>1, <1>6 DEF SettingsInv, SaveCalls, UpsertMany
  <2>3. ~Answered'
    BY <1>1, <1>6 DEF SettingsInv, SaveCalls, UpsertMany, Answered
  <2>4. ReadsAreCurrent'
    BY <1>1, <1>6 DEF SettingsInv, SaveCalls, UpsertMany, ReadsAreCurrent
  <2> QED BY <1>6, <2>1, <2>2, <2>3, <2>4 DEF SettingsInv, CopyIsCurrent, UpsertMany
<1>7. ASSUME NEW c \in Savers, Invalidate(c) PROVE SettingsInv'
  <2>1. save' \in [Savers -> SaveCalls] /\ ReadsAreCurrent'
    BY <1>1, <1>7 DEF SettingsInv, SaveCalls, Invalidate, ReadsAreCurrent
  <2> QED BY <1>7, <2>1 DEF SettingsInv, CopyIsCurrent, Invalidate
<1>8. ASSUME NEW c \in Savers, QueryFails(c) PROVE SettingsInv'
  <2>1. save' \in [Savers -> SaveCalls] /\ ReadsAreCurrent' /\ (Answered' => Answered)
    BY <1>1, <1>8 DEF SettingsInv, SaveCalls, QueryFails, ReadsAreCurrent, Answered
  <2> QED BY <1>8, <2>1 DEF SettingsInv, CopyIsCurrent, QueryFails, Resolve, Applied
<1>9. CASE StartAgain
  <2>1. save' \in [Savers -> SaveCalls] /\ ReadsAreCurrent'
    BY <1>1, <1>9 DEF SettingsInv, SaveCalls, StartAgain, ReadsAreCurrent
  <2>2. cache' \in Patches \cup {Free} /\ UNCHANGED <<table, saves>> /\ crossed' \in BOOLEAN
    BY <1>9, ResolveIsLegal DEF StartAgain
  <2>3. CopyIsCurrent'
    BY <1>9 DEF CopyIsCurrent, StartAgain, Resolve, Applied, SettingKeys
  <2> QED BY <2>1, <2>2, <2>3 DEF SettingsInv
<1>10. CASE UNCHANGED settingsVars
  BY <1>10 DEF SettingsInv, ReadsAreCurrent, CopyIsCurrent, Answered, Resolve, Applied, settingsVars
<1> QED BY <1>2, <1>3, <1>4, <1>5, <1>6, <1>7, <1>8, <1>9, <1>10 DEF SettingsNext

(* "A save is visible on the next request", for any settings, any number of  *)
(* overlapping saves and reads, failures and restarts: once the saves that   *)
(* have committed are past invalidate, what is served is what is stored,     *)
(* unless the copy kept was read before a save that committed meanwhile.     *)
THEOREM SavesAreSeen == SettingsSpec => []SaveIsSeen
<1>1. SettingsInv => SaveIsSeen
  BY DEF SettingsInv, SaveCalls, CopyIsCurrent, SaveIsSeen, SettingsTypeOK
<1> QED BY <1>1, SettingsInvInit, SettingsStep, PTL DEF SettingsSpec

-----------------------------------------------------------------------------
-----------------------------------------------------------------------------
(* A handler's record: what it is about, the asset it replaces, its own.     *)
Goals == {"create", "update", "delete", "avatar", "drawn", Free}
Works == [at : WorkStages \cup {Free}, on : Shown \cup {Free}, goal : Goals,
          old : Assets \cup {Free}, new : Assets \cup {Free}]
Pictured == {s \in Shown : Kind[s] # "tax"}
Guarded  == {s \in Shown : Kind[s] \in Counted}
Uploading == {"registering", "reading", "writing"}
Replacing == {"storing", "registering", "writing"}

(* No two rows show the same picture, apart from tax documents.              *)
ShownOnce == \A s, t \in Pictured : ref[s] = ref[t] /\ ref[s] # Free => s = t

(* A picture in the making is its handler's alone: no other call replaces,   *)
(* sweeps or undoes it, no row shows it, and the sweep takes it for young.   *)
OwnPicture == \A h \in Handlers :
    work[h].at \in Uploading /\ work[h].new # Free =>
        /\ \A g \in Handlers \ {h} : work[g].old # work[h].new /\ work[g].new # work[h].new
        /\ work[h].old # work[h].new
        /\ \A s \in Pictured : ref[s] # work[h].new
        /\ IF work[h].at = "registering" THEN work[h].new \in file \ asset
           ELSE work[h].new \in asset => work[h].new \in young

(* The picture a call is going to delete is one that no row shows (any       *)
(* longer), except the row the call is about until it has been written, and  *)
(* a row whose call failed after its commit.                                 *)
OldPicture == \A h \in Handlers : \A s \in Pictured :
    /\ work[h].at \in Replacing /\ work[h].old # Free /\ ref[s] = work[h].old => s = work[h].on
    /\ work[h].at = "cleaning" /\ work[h].old # Free => ref[s] # work[h].old
    /\ work[h].at = "cleaning" /\ work[h].new # Free /\ ref[s] = work[h].new => s = work[h].on
    /\ work[h].at = "undoing" /\ work[h].new # Free /\ ref[s] = work[h].new => s \in undone
    /\ work[h].at = "sweeping" /\ s \in Guarded => ref[s] # work[h].old

(* Who deletes a file has deleted its row.                                   *)
RowGoesFirst == \A h \in Handlers :
    /\ work[h].at = "unlinking" => work[h].old \notin asset
    /\ work[h].at = "storing" => work[h].new = Free
    /\ work[h].at = "registering" => work[h].new # Free
    /\ work[h].at = "sweeping" => work[h].old # Free
    /\ work[h].at \in Uploading \cup {"storing", "cleaning"} => work[h].on \in Pictured

ImageTables ==
    /\ ImagesTypeOK /\ work \in [Handlers -> Works]
    /\ chosen \in [Shown -> Assets \cup {Free}] /\ undone \subseteq Shown
    /\ fault \in Nat

ImagesInv ==
    /\ ImageTables
    /\ ShownOnce
    /\ OwnPicture
    /\ OldPicture
    /\ RowGoesFirst
    /\ PictureKept

-----------------------------------------------------------------------------
LEMMA StagesApart == Free \notin WorkStages /\ Free \notin Assets /\ Free \notin Shown
  BY ImagesAssumption

LEMMA NoWorkIs == /\ NoWork \in Works
                  /\ NoWork.at = Free /\ NoWork.on = Free /\ NoWork.goal = Free
                  /\ NoWork.old = Free /\ NoWork.new = Free
  BY DEF NoWork, Works, Goals

LEMMA ImagesInitially == (\E there \in SUBSET Shown : ImagesInit(there)) => ImagesInv
<1> SUFFICES ASSUME NEW there \in SUBSET Shown, ImagesInit(there) PROVE ImagesInv
  OBVIOUS
<1>1. /\ work \in [Handlers -> Works]
      /\ \A h \in Handlers : work[h].at = Free /\ work[h].new = Free
  BY NoWorkIs DEF ImagesInit
<1>2. ImageTables
  BY <1>1 DEF ImagesInit, ImageTables, ImagesTypeOK
<1>3. \A s \in Shown : ref[s] = Free /\ chosen[s] = Free
  BY DEF ImagesInit
<1>4. ShownOnce /\ PictureKept
  BY <1>2, <1>3 DEF ShownOnce, PictureKept, AssetHasFile, Pictured, ImageTables, ImagesInit
<1>5. OwnPicture /\ OldPicture /\ RowGoesFirst
  BY <1>1, StagesApart DEF OwnPicture, OldPicture, RowGoesFirst, Uploading, Replacing, WorkStages
<1> QED  BY <1>2, <1>4, <1>5 DEF ImagesInv

(* A call begins, or goes on, without touching a row, an asset or a file.    *)
LEMMA CallMoves ==
    ASSUME ImagesInv, NEW h \in Handlers, NEW w \in Works,
           work' = [work EXCEPT ![h] = w],
           UNCHANGED <<ref, row, asset, file, young, chosen, undone>>, fault' \in Nat,
           w.at \in Uploading /\ w.new # Free =>
               /\ work[h].at \in Uploading /\ work[h].new = w.new /\ work[h].at # "registering"
               /\ w.old # w.new,
           \A g \in Handlers \ {h} : work[g].at \in Uploading /\ work[g].new # Free
               => w.old # work[g].new /\ w.new # work[g].new,
           \A s \in Pictured :
               /\ w.at \in Replacing /\ w.old # Free /\ ref[s] = w.old => s = w.on
               /\ w.at = "undoing" /\ w.new # Free /\ ref[s] = w.new => s \in undone
               /\ w.at = "sweeping" /\ s \in Guarded => ref[s] # w.old,
           w.at # "cleaning", w.at # "registering",
           w.at = "unlinking" => w.old \notin asset,
           w.at = "storing" => w.new = Free,
           w.at = "sweeping" => w.old # Free,
           w.at \in Uploading \cup {"storing", "cleaning"} => w.on \in Pictured
    PROVE  ImagesInv'
<1>1. /\ work' \in [Handlers -> Works]
      /\ \A g \in Handlers : work'[g] = IF g = h THEN w ELSE work[g]
  BY DEF ImagesInv, ImageTables
<1>2. ImageTables'
  BY <1>1 DEF ImagesInv, ImageTables, ImagesTypeOK
<1>3. ShownOnce' /\ PictureKept'
  BY <1>2 DEF ImagesInv, ShownOnce, PictureKept, AssetHasFile, ImageTables
<1>4. OwnPicture'
  <2> SUFFICES ASSUME NEW g \in Handlers, work'[g].at \in Uploading, work'[g].new # Free
               PROVE  /\ \A k \in Handlers \ {g} : work'[k].old # work'[g].new /\ work'[k].new # work'[g].new
                      /\ work'[g].old # work'[g].new
                      /\ \A s \in Pictured : ref[s] # work'[g].new
                      /\ IF work'[g].at = "registering" THEN work'[g].new \in file \ asset
                         ELSE work'[g].new \in asset => work'[g].new \in young
    BY DEF OwnPicture
  <2>1. CASE g = h
    <3>1. work'[g] = w
      BY <1>1, <2>1
    <3>2. \A k \in Handlers \ {g} : work'[k] = work[k]
      BY <1>1, <2>1
    <3> QED  BY <2>1, <3>1, <3>2 DEF ImagesInv, OwnPicture
  <2>2. CASE g # h
    <3>1. work'[g] = work[g]
      BY <1>1, <2>2
    <3> QED  BY <1>1, <2>2, <3>1 DEF ImagesInv, OwnPicture
  <2> QED  BY <2>1, <2>2
<1>5. OldPicture'
  BY <1>1 DEF ImagesInv, OldPicture
<1>6. RowGoesFirst'
  BY <1>1 DEF ImagesInv, RowGoesFirst
<1> QED  BY <1>2, <1>3, <1>4, <1>5, <1>6 DEF ImagesInv

(* A call about a row that is shown: it uploads, or writes, or reads first.  *)
LEMMA CallBegins ==
    ASSUME ImagesInv, NEW h \in Handlers, NEW s \in Pictured, NEW w \in Works,
           w.at \in {"storing", "writing", "reading"}, w.on = s, w.new = Free,
           w.old \in {ref[s], Free},
           Takes(h, w), UNCHANGED <<ref, row, asset, file, young, fault, chosen, undone>>
    PROVE  ImagesInv'
<1>1. w.old \in Assets \cup {Free} /\ fault' \in Nat
  BY DEF ImagesInv, ImageTables, ImagesTypeOK, Pictured
<1>2. work' = [work EXCEPT ![h] = w]
  BY DEF Takes
<1>3. \A g \in Handlers \ {h} : work[g].at \in Uploading /\ work[g].new # Free
               => w.old # work[g].new
  BY DEF ImagesInv, OwnPicture
<1>4. \A t \in Pictured : w.old # Free /\ ref[t] = w.old => t = s
  BY DEF ImagesInv, ShownOnce
<1> QED  BY <1>1, <1>2, <1>3, <1>4, CallMoves DEF Uploading, Replacing

LEMMA BeginStep ==
    ASSUME ImagesInv, NEW h \in Handlers,
           \/ CreateTournament(h) \/ CreateReward(h) \/ CreateMerchandise(h)
           \/ UpdateTournament(h) \/ UpdateReward(h) \/ UpdateMerchandise(h)
           \/ UpdateProfile(h) \/ RemoveTournament(h) \/ UploadAvatar(h) \/ DrawnAvatar(h)
    PROVE  ImagesInv'
<1>1. ASSUME NEW s \in Pictured
      PROVE  s \in Shown /\ ref[s] \in Assets \cup {Free}
  BY <1>1 DEF ImagesInv, ImageTables, ImagesTypeOK, Pictured
<1>2. ASSUME NEW s \in Pictured, NEW aim \in Goals, Uploads(h, s, aim)
      PROVE  ImagesInv'
  <2> DEFINE w == [NoWork EXCEPT !.at = "storing", !.on = s, !.goal = aim, !.old = ref[s]]
  <2>1. w \in Works /\ w.at = "storing" /\ w.on = s /\ w.old = ref[s] /\ w.new = Free
    BY <1>1, NoWorkIs DEF Works, WorkStages
  <2>2. Takes(h, w) /\ UNCHANGED <<ref, row, asset, file, young, fault, chosen, undone>>
    BY <1>2 DEF Uploads
  <2> HIDE DEF w
  <2> QED  BY <2>1, <2>2, CallBegins
<1>3. CASE \/ CreateTournament(h) \/ CreateReward(h) \/ CreateMerchandise(h)
           \/ UpdateTournament(h) \/ UpdateReward(h) \/ UpdateMerchandise(h)
  <2>1. \E s \in Pictured, aim \in Goals : Uploads(h, s, aim)
    BY <1>3 DEF CreateTournament, CreateReward, CreateMerchandise, UpdateTournament,
                UpdateReward, UpdateMerchandise, Pictured, Goals
  <2> QED  BY <1>2, <2>1
<1>4. ASSUME NEW s \in Pictured, NEW aim \in Goals,
             Takes(h, [NoWork EXCEPT !.at = "writing", !.on = s, !.goal = aim, !.old = ref[s]]),
             UNCHANGED <<ref, row, asset, file, young, fault, chosen, undone>>
      PROVE  ImagesInv'
  <2> DEFINE w == [NoWork EXCEPT !.at = "writing", !.on = s, !.goal = aim, !.old = ref[s]]
  <2>1. w \in Works /\ w.at = "writing" /\ w.on = s /\ w.old = ref[s] /\ w.new = Free
    BY <1>1, NoWorkIs DEF Works, WorkStages
  <2>2. Takes(h, w) /\ UNCHANGED <<ref, row, asset, file, young, fault, chosen, undone>>
    BY <1>4
  <2> HIDE DEF w
  <2> QED  BY <2>1, <2>2, CallBegins
<1>5. CASE UpdateProfile(h) \/ RemoveTournament(h)
  <2> {"update", "delete"} \subseteq Goals /\ \A s \in Shown : Kind[s] \in {"admin", "tournament"} => s \in Pictured
    BY DEF Goals, Pictured
  <2> QED  BY <1>2, <1>4, <1>5 DEF UpdateProfile, RemoveTournament
<1>6. ASSUME NEW s \in Pictured, NEW aim \in Goals, NEW at \in {"storing", "reading"},
             Takes(h, [NoWork EXCEPT !.at = at, !.on = s, !.goal = aim]),
             UNCHANGED <<ref, row, asset, file, young, fault, chosen, undone>>
      PROVE  ImagesInv'
  <2> DEFINE w == [NoWork EXCEPT !.at = at, !.on = s, !.goal = aim]
  <2>1. w \in Works /\ w.at = at /\ w.on = s /\ w.old = Free /\ w.new = Free
    BY <1>1, NoWorkIs DEF Works, WorkStages
  <2>2. Takes(h, w) /\ UNCHANGED <<ref, row, asset, file, young, fault, chosen, undone>>
    BY <1>6
  <2> HIDE DEF w
  <2> QED  BY <2>1, <2>2, CallBegins
<1>7. CASE UploadAvatar(h) \/ DrawnAvatar(h)
  <2> {"avatar", "drawn"} \subseteq Goals /\ \A s \in Shown : Kind[s] = "player" => s \in Pictured
    BY DEF Goals, Pictured
  <2> QED  BY <1>6, <1>7 DEF UploadAvatar, DrawnAvatar
<1> QED  BY <1>3, <1>5, <1>7

(* uploadImage: a file under a name that nothing else has.                   *)
LEMMA StoreStep ==
    ASSUME ImagesInv, NEW h \in Handlers, Store(h)
    PROVE  ImagesInv'
<1> PICK a \in Assets :
      /\ work[h].at = "storing" /\ NewName(a)
      /\ file' = file \cup {a} /\ work' = [work EXCEPT ![h].at = "registering", ![h].new = a]
      /\ UNCHANGED <<ref, row, asset, young, fault, chosen, undone>>
  BY DEF Store
<1> DEFINE w == [work[h] EXCEPT !.at = "registering", !.new = a]
<1>0. work[h] \in Works /\ work \in [Handlers -> Works]
  BY DEF ImagesInv, ImageTables
<1>1. /\ w \in Works /\ w.at = "registering" /\ w.new = a /\ w.on = work[h].on /\ w.old = work[h].old
      /\ work' = [work EXCEPT ![h] = w]
  BY <1>0 DEF Works, WorkStages
<1> HIDE DEF w
<1>2. /\ work' \in [Handlers -> Works]
      /\ \A g \in Handlers : work'[g] = IF g = h THEN w ELSE work[g]
  BY <1>0, <1>1
<1>3. ImageTables'
  BY <1>2 DEF ImagesInv, ImageTables, ImagesTypeOK
<1>4. ShownOnce' /\ PictureKept'
  BY <1>3 DEF ImagesInv, ShownOnce, PictureKept, AssetHasFile, ImageTables
<1>5. OwnPicture'
  <2> SUFFICES ASSUME NEW g \in Handlers, work'[g].at \in Uploading, work'[g].new # Free
               PROVE  /\ \A k \in Handlers \ {g} : work'[k].old # work'[g].new /\ work'[k].new # work'[g].new
                      /\ work'[g].old # work'[g].new
                      /\ \A s \in Pictured : ref[s] # work'[g].new
                      /\ IF work'[g].at = "registering" THEN work'[g].new \in file' \ asset
                         ELSE work'[g].new \in asset => work'[g].new \in young
    BY DEF OwnPicture
  <2>1. CASE g = h
    <3>1. work'[g] = w
      BY <1>2, <2>1
    <3>2. \A k \in Handlers \ {g} : work'[k] = work[k]
      BY <1>2, <2>1
    <3> QED  BY <1>1, <2>1, <3>1, <3>2 DEF NewName, Pictured
  <2>2. CASE g # h
    <3>1. work'[g] = work[g]
      BY <1>2, <2>2
    <3>2. \A k \in Handlers \ {g} : work'[k].old # work[g].new /\ work'[k].new # work[g].new
      <4>1. a # work[g].new
        BY DEF NewName
      <4>2. \A k \in Handlers \ {g} : work[k].old # work[g].new /\ work[k].new # work[g].new
        BY <3>1 DEF ImagesInv, OwnPicture
      <4>3. h \in Handlers \ {g} /\ work[h].old # work[g].new
        BY <2>2, <4>2
      <4>4. w.old # work[g].new /\ w.new # work[g].new
        BY <1>1, <4>1, <4>3
      <4> QED  BY <1>2, <4>2, <4>4
    <3>3. /\ work[g].old # work[g].new /\ \A s \in Pictured : ref[s] # work[g].new
          /\ IF work[g].at = "registering" THEN work[g].new \in file \ asset
             ELSE work[g].new \in asset => work[g].new \in young
      BY <3>1 DEF ImagesInv, OwnPicture
    <3>4. file \subseteq file'
      OBVIOUS
    <3> HIDE DEF w
    <3> QED  BY <3>1, <3>2, <3>3, <3>4
  <2> QED  BY <2>1, <2>2
<1>6. OldPicture'
  <2> SUFFICES ASSUME NEW g \in Handlers, NEW s \in Pictured
               PROVE  /\ work'[g].at \in Replacing /\ work'[g].old # Free /\ ref[s] = work'[g].old => s = work'[g].on
                      /\ work'[g].at = "cleaning" /\ work'[g].old # Free => ref[s] # work'[g].old
                      /\ work'[g].at = "cleaning" /\ work'[g].new # Free /\ ref[s] = work'[g].new => s = work'[g].on
                      /\ work'[g].at = "undoing" /\ work'[g].new # Free /\ ref[s] = work'[g].new => s \in undone
                      /\ work'[g].at = "sweeping" /\ s \in Guarded => ref[s] # work'[g].old
    BY DEF OldPicture
  <2>1. CASE g = h
    BY <1>1, <1>2, <2>1 DEF ImagesInv, OldPicture, Replacing
  <2>2. CASE g # h
    BY <1>2, <2>2 DEF ImagesInv, OldPicture
  <2> QED  BY <2>1, <2>2
<1>7. RowGoesFirst'
  BY <1>1, <1>2, StagesApart DEF ImagesInv, RowGoesFirst, Uploading
<1> QED  BY <1>3, <1>4, <1>5, <1>6, <1>7 DEF ImagesInv

(* ... then its row.                                                         *)
LEMMA RegisterStep ==
    ASSUME ImagesInv, NEW h \in Handlers, Register(h)
    PROVE  ImagesInv'
<1> DEFINE a == work[h].new
<1>0. work[h] \in Works /\ work \in [Handlers -> Works] /\ fault \in Nat /\ Faults \in Nat
  BY ImagesAssumption DEF ImagesInv, ImageTables
<1>1. work[h].at = "registering" /\ UNCHANGED <<ref, row, file, chosen, undone>>
  BY DEF Register
<1>2. CASE Fails /\ Leaves(h) /\ UNCHANGED <<asset, young>>
  <2>1. work' = [work EXCEPT ![h] = NoWork] /\ fault' \in Nat
    BY <1>0, <1>2 DEF Leaves, Fails
  <2> QED  BY <1>1, <1>2, <2>1, NoWorkIs, StagesApart, CallMoves DEF Uploading, Replacing, WorkStages
<1>3. CASE /\ asset' = asset \cup {a} /\ young' = young \cup {a} /\ UNCHANGED fault
           /\ Goes(h, IF work[h].goal = "avatar" THEN "reading" ELSE "writing")
  <2> DEFINE w == [work[h] EXCEPT !.at = IF work[h].goal = "avatar" THEN "reading" ELSE "writing"]
  <2>1. /\ w \in Works /\ w.at \in {"reading", "writing"} /\ w.at # "registering"
        /\ w.new = a /\ w.on = work[h].on /\ w.old = work[h].old
        /\ work' = [work EXCEPT ![h] = w]
    BY <1>0, <1>3 DEF Works, WorkStages, Goes
  <2> HIDE DEF w
  <2>2. /\ work' \in [Handlers -> Works]
        /\ \A g \in Handlers : work'[g] = IF g = h THEN w ELSE work[g]
    BY <1>0, <2>1
  <2>3. /\ a \in Assets /\ a # Free /\ a \in file \ asset
        /\ w.at \in Uploading /\ w.at # "storing" /\ w.at # "cleaning" /\ w.at # "undoing"
        /\ w.at # "sweeping" /\ w.at # "unlinking"
        /\ \A g \in Handlers \ {h} : work[g].old # a /\ work[g].new # a
        /\ work[h].old # a /\ \A s \in Pictured : ref[s] # a
    BY <1>0, <1>1, <2>1 DEF ImagesInv, OwnPicture, RowGoesFirst, Uploading, Works
  <2>4. ImageTables'
    BY <1>0, <1>1, <1>3, <2>2, <2>3 DEF ImagesInv, ImageTables, ImagesTypeOK
  <2>5. ShownOnce' /\ PictureKept'
    BY <1>1, <1>3, <2>3, <2>4 DEF ImagesInv, ShownOnce, PictureKept, AssetHasFile, ImageTables
  <2>6. OwnPicture'
    <3> SUFFICES ASSUME NEW g \in Handlers, work'[g].at \in Uploading, work'[g].new # Free
                 PROVE  /\ \A k \in Handlers \ {g} : work'[k].old # work'[g].new /\ work'[k].new # work'[g].new
                        /\ work'[g].old # work'[g].new
                        /\ \A s \in Pictured : ref[s] # work'[g].new
                        /\ IF work'[g].at = "registering" THEN work'[g].new \in file \ asset'
                           ELSE work'[g].new \in asset' => work'[g].new \in young'
      BY <1>1 DEF OwnPicture
    <3>1. CASE g = h
      <4>1. work'[g] = w /\ \A k \in Handlers \ {g} : work'[k] = work[k]
        BY <2>2, <3>1
      <4> QED  BY <1>3, <2>1, <2>3, <3>1, <4>1
    <3>2. CASE g # h
      <4>1. work'[g] = work[g] /\ work[g].new # a
        BY <2>2, <2>3, <3>2
      <4>2. \A k \in Handlers \ {g} : work'[k].old # work[g].new /\ work'[k].new # work[g].new
        BY <2>1, <2>2, <3>2, <4>1 DEF ImagesInv, OwnPicture
      <4> QED  BY <1>3, <3>2, <4>1, <4>2 DEF ImagesInv, OwnPicture
    <3> QED  BY <3>1, <3>2
  <2>7. OldPicture'
    <3>1. \A s \in Pictured : w.old # Free /\ ref[s] = w.old => s = w.on
      BY <1>1, <2>1 DEF ImagesInv, OldPicture, Replacing
    <3> QED  BY <1>1, <2>2, <2>3, <3>1 DEF ImagesInv, OldPicture
  <2>8. RowGoesFirst'
    <3> SUFFICES ASSUME NEW g \in Handlers
                 PROVE  /\ work'[g].at = "unlinking" => work'[g].old \notin asset'
                        /\ work'[g].at = "storing" => work'[g].new = Free
                        /\ work'[g].at = "registering" => work'[g].new # Free
                        /\ work'[g].at = "sweeping" => work'[g].old # Free
                        /\ work'[g].at \in Uploading \cup {"storing", "cleaning"} => work'[g].on \in Pictured
      BY DEF RowGoesFirst
    <3>1. CASE g = h
      BY <1>1, <2>1, <2>2, <2>3, <3>1 DEF ImagesInv, RowGoesFirst, Uploading
    <3>2. CASE g # h
      BY <1>3, <2>2, <2>3, <3>2 DEF ImagesInv, RowGoesFirst
    <3> QED  BY <3>1, <3>2
  <2> QED  BY <2>4, <2>5, <2>6, <2>7, <2>8 DEF ImagesInv
<1> QED  BY <1>2, <1>3 DEF Register

(* A call that goes on without a change to rows and assets, or gives up.     *)
LEMMA OtherStep ==
    ASSUME ImagesInv, NEW h \in Handlers, ReadInTransaction(h) \/ DeleteFails(h) \/ FindOrphan(h)
    PROVE  ImagesInv'
<1>0. /\ work[h] \in Works /\ work \in [Handlers -> Works] /\ fault \in Nat /\ Faults \in Nat
      /\ asset \subseteq Assets /\ ref \in [Shown -> Assets \cup {Free}]
  BY ImagesAssumption DEF ImagesInv, ImageTables, ImagesTypeOK
<1>1. CASE ReadInTransaction(h)
  <2> DEFINE s == work[h].on
             w == [work[h] EXCEPT !.at = "writing", !.old = ref[s]]
  <2>1. s \in Pictured /\ s \in Shown /\ work[h].at = "reading"
    BY <1>1 DEF ImagesInv, RowGoesFirst, ReadInTransaction, Uploading, Pictured
  <2>2. /\ w \in Works /\ w.at = "writing" /\ w.on = s /\ w.old = ref[s] /\ w.new = work[h].new
        /\ work' = [work EXCEPT ![h] = w]
    BY <1>0, <1>1, <2>1 DEF Works, WorkStages, ReadInTransaction
  <2>3. /\ UNCHANGED <<ref, row, asset, file, young, chosen, undone>> /\ fault' \in Nat
    BY <1>0, <1>1 DEF ReadInTransaction
  <2>4. /\ work[h].new # Free => ref[s] # work[h].new
        /\ \A g \in Handlers \ {h} : work[g].at \in Uploading /\ work[g].new # Free
               => ref[s] # work[g].new /\ work[h].new # work[g].new
        /\ \A t \in Pictured : ref[s] # Free /\ ref[t] = ref[s] => t = s
    BY <2>1 DEF ImagesInv, OwnPicture, ShownOnce, Uploading
  <2> HIDE DEF w, s
  <2>5. w.at \in Uploading /\ w.new # Free =>
               /\ work[h].at \in Uploading /\ work[h].new = w.new /\ work[h].at # "registering"
               /\ w.old # w.new
    BY <2>1, <2>2, <2>4 DEF Uploading
  <2>6. \A g \in Handlers \ {h} : work[g].at \in Uploading /\ work[g].new # Free
               => w.old # work[g].new /\ w.new # work[g].new
    BY <2>2, <2>4
  <2>7. \A t \in Pictured : w.old # Free /\ ref[t] = w.old => t = w.on
    BY <2>2, <2>4
  <2> QED  BY <2>1, <2>2, <2>3, <2>5, <2>6, <2>7, CallMoves
<1>2. CASE DeleteFails(h)
  <2>1. /\ work' = [work EXCEPT ![h] = NoWork] /\ fault' \in Nat
        /\ UNCHANGED <<ref, row, asset, file, young, chosen, undone>>
    BY <1>0, <1>2 DEF DeleteFails, Leaves, Fails
  <2> QED  BY <2>1, NoWorkIs, StagesApart, CallMoves DEF Uploading, Replacing, WorkStages
<1>3. CASE FindOrphan(h)
  <2> PICK a \in Orphans :
        /\ Takes(h, [NoWork EXCEPT !.at = "sweeping", !.old = a])
        /\ UNCHANGED <<ref, row, asset, file, young, fault, chosen, undone>>
    BY <1>3 DEF FindOrphan
  <2> DEFINE w == [NoWork EXCEPT !.at = "sweeping", !.old = a]
  <2>1. a \in Assets /\ a \in asset /\ a \notin young /\ \A s \in Guarded : ref[s] # a
    BY <1>0 DEF Orphans, Guarded
  <2>2. w \in Works /\ w.at = "sweeping" /\ w.old = a /\ w.new = Free /\ work' = [work EXCEPT ![h] = w]
    BY <2>1, NoWorkIs DEF Works, WorkStages, Takes
  <2>3. \A g \in Handlers \ {h} : work[g].at \in Uploading /\ work[g].new # Free => a # work[g].new
    BY <2>1 DEF ImagesInv, OwnPicture
  <2> HIDE DEF w
  <2>4. w.at \notin Uploading /\ w.at \notin Replacing /\ w.old # Free
    BY <2>1, <2>2, StagesApart DEF Uploading, Replacing
  <2>5. \A g \in Handlers \ {h} : work[g].at \in Uploading /\ work[g].new # Free
               => w.old # work[g].new /\ w.new # work[g].new
    BY <2>2, <2>3
  <2>6. \A s \in Pictured : s \in Guarded => ref[s] # w.old
    BY <2>1, <2>2
  <2>7. fault' \in Nat /\ UNCHANGED <<ref, row, asset, file, young, chosen, undone>>
    BY <1>0
  <2> QED  BY <2>2, <2>4, <2>5, <2>6, <2>7, CallMoves
<1> QED  BY <1>1, <1>2, <1>3

(* The row takes the new picture, or the new picture is to go.               *)
LEMMA WriteStep ==
    ASSUME ImagesInv, NEW h \in Handlers, Write(h)
    PROVE  ImagesInv'
<1> DEFINE s == work[h].on
           a == work[h].new
<1>0. /\ work[h] \in Works /\ work \in [Handlers -> Works] /\ fault \in Nat /\ Faults \in Nat
      /\ asset \subseteq Assets /\ ref \in [Shown -> Assets \cup {Free}]
      /\ chosen \in [Shown -> Assets \cup {Free}]
      /\ row \in [Shown -> {"absent", "there", "hidden"}]
  BY ImagesAssumption DEF ImagesInv, ImageTables, ImagesTypeOK
<1>1. work[h].at = "writing" /\ UNCHANGED <<asset, file, young>> /\ s \in Pictured /\ s \in Shown
  BY DEF ImagesInv, RowGoesFirst, Write, Uploading, Pictured
<1>2. a # Free =>
        /\ \A g \in Handlers \ {h} : work[g].old # a /\ work[g].new # a
        /\ work[h].old # a
        /\ \A t \in Pictured : ref[t] # a
  BY <1>1 DEF ImagesInv, OwnPicture, Uploading
<1>3. CASE Goes(h, "undoing") /\ UNCHANGED <<ref, row, chosen, undone>>
  <2> DEFINE w == [work[h] EXCEPT !.at = "undoing"]
  <2>1. /\ w \in Works /\ w.at = "undoing" /\ w.on = s /\ w.old = work[h].old /\ w.new = a
        /\ work' = [work EXCEPT ![h] = w]
    BY <1>0, <1>3 DEF Works, WorkStages, Goes
  <2>2. fault' \in Nat
    BY <1>0 DEF Write, Fails
  <2>3. \A g \in Handlers \ {h} : work[g].at \in Uploading /\ work[g].new # Free
               => w.old # work[g].new /\ w.new # work[g].new
    BY <2>1 DEF ImagesInv, OwnPicture
  <2> HIDE DEF w, s, a
  <2> QED  BY <1>1, <1>2, <1>3, <2>1, <2>2, <2>3, CallMoves DEF Uploading, Replacing
<1>4. CASE /\ RowTakes(h) /\ Goes(h, "cleaning") /\ UNCHANGED fault /\ undone' = undone \ {s}
           /\ ref' = [ref EXCEPT ![s] = a] /\ chosen' = [chosen EXCEPT ![s] = a]
           /\ row' = [row EXCEPT ![s] = IF work[h].goal = "create" THEN "there"
                                        ELSE IF work[h].goal = "delete" THEN "absent" ELSE @]
  <2> DEFINE w == [work[h] EXCEPT !.at = "cleaning"]
  <2>1. /\ w \in Works /\ w.at = "cleaning" /\ w.on = s /\ w.old = work[h].old /\ w.new = a
        /\ work' = [work EXCEPT ![h] = w]
    BY <1>0, <1>4 DEF Works, WorkStages, Goes
  <2> HIDE DEF w
  <2>2. /\ work' \in [Handlers -> Works]
        /\ \A g \in Handlers : work'[g] = IF g = h THEN w ELSE work[g]
    BY <1>0, <2>1
  <2>3. /\ a = Free \/ a \in asset
        /\ a \in Assets \cup {Free}
    BY <1>0, <1>4 DEF RowTakes, Works
  <2>4. \A t \in Shown : /\ ref'[t] = IF t = s THEN a ELSE ref[t]
                         /\ chosen'[t] = IF t = s THEN a ELSE chosen[t]
    BY <1>0, <1>1, <1>4
  <2>5. ImageTables'
    <3>1. row' \in [Shown -> {"absent", "there", "hidden"}]
      BY <1>0, <1>4
    <3>2. /\ ref' \in [Shown -> Assets \cup {Free}] /\ chosen' \in [Shown -> Assets \cup {Free}]
      BY <1>0, <1>1, <1>4, <2>3
    <3> QED  BY <1>1, <1>4, <2>2, <3>1, <3>2 DEF ImagesInv, ImageTables, ImagesTypeOK
  <2>6. ShownOnce'
    BY <1>2, <2>4 DEF ImagesInv, ShownOnce, Pictured
  <2>7. PictureKept'
    <3>1. AssetHasFile'
      BY <1>1, <2>3, <2>4 DEF ImagesInv, PictureKept, AssetHasFile
    <3>2. \A t \in Shown \ undone' : Kind[t] \in {"tournament", "reward", "merchandise", "player"} => ref'[t] = chosen'[t]
      BY <1>4, <2>4 DEF ImagesInv, PictureKept
    <3> QED  BY <2>5, <3>1, <3>2 DEF PictureKept, ImageTables
  <2>8. OwnPicture'
    <3> SUFFICES ASSUME NEW g \in Handlers, work'[g].at \in Uploading, work'[g].new # Free
                 PROVE  /\ \A k \in Handlers \ {g} : work'[k].old # work'[g].new /\ work'[k].new # work'[g].new
                        /\ work'[g].old # work'[g].new
                        /\ \A t \in Pictured : ref'[t] # work'[g].new
                        /\ IF work'[g].at = "registering" THEN work'[g].new \in file \ asset
                           ELSE work'[g].new \in asset => work'[g].new \in young
      BY <1>1 DEF OwnPicture
    <3>1. g # h /\ work'[g] = work[g]
      BY <2>1, <2>2 DEF Uploading
    <3>2. \A k \in Handlers \ {g} : work[k].old # work[g].new /\ work[k].new # work[g].new
      BY <3>1 DEF ImagesInv, OwnPicture
    <3>3. h \in Handlers \ {g} /\ work[h].old # work[g].new /\ a # work[g].new
      BY <3>1, <3>2
    <3>4. \A k \in Handlers \ {g} : work'[k].old # work[g].new /\ work'[k].new # work[g].new
      BY <2>1, <2>2, <3>2, <3>3
    <3>5. \A t \in Pictured : ref'[t] # work[g].new
      BY <2>4, <3>1, <3>3 DEF ImagesInv, OwnPicture, Pictured
    <3> QED  BY <3>1, <3>4, <3>5 DEF ImagesInv, OwnPicture
  <2>9. OldPicture'
    <3> SUFFICES ASSUME NEW g \in Handlers, NEW t \in Pictured
                 PROVE  /\ work'[g].at \in Replacing /\ work'[g].old # Free /\ ref'[t] = work'[g].old => t = work'[g].on
                        /\ work'[g].at = "cleaning" /\ work'[g].old # Free => ref'[t] # work'[g].old
                        /\ work'[g].at = "cleaning" /\ work'[g].new # Free /\ ref'[t] = work'[g].new => t = work'[g].on
                        /\ work'[g].at = "undoing" /\ work'[g].new # Free /\ ref'[t] = work'[g].new => t \in undone'
                        /\ work'[g].at = "sweeping" /\ t \in Guarded => ref'[t] # work'[g].old
      BY DEF OldPicture
    <3>0. t \in Shown
      BY DEF Pictured
    <3>1. CASE g = h
      <4>1. work'[g] = w
        BY <2>2, <3>1
      <4>2. work[h].old # Free /\ ref[t] = work[h].old => t = s
        BY <1>1 DEF ImagesInv, OldPicture, Replacing
      <4>3. w.old # Free => ref'[t] # w.old
        BY <1>2, <2>1, <2>4, <3>0, <4>2
      <4>4. w.new # Free /\ ref'[t] = w.new => t = s
        BY <1>2, <2>1, <2>4, <3>0
      <4> QED  BY <2>1, <4>1, <4>3, <4>4 DEF Replacing
    <3>2. CASE g # h
      <4>1. work'[g] = work[g]
        BY <2>2, <3>2
      <4>2. a # Free => work[g].old # a /\ work[g].new # a
        BY <1>2, <3>2
      <4>3. \/ ref'[t] = ref[t] /\ (t \in undone => t \in undone' \/ t = s) /\ t # s
            \/ t = s /\ ref'[t] = a
        BY <1>4, <2>4, <3>0
      <4>4. /\ work[g].at \in Replacing /\ work[g].old # Free /\ ref[t] = work[g].old => t = work[g].on
            /\ work[g].at = "cleaning" /\ work[g].old # Free => ref[t] # work[g].old
            /\ work[g].at = "cleaning" /\ work[g].new # Free /\ ref[t] = work[g].new => t = work[g].on
            /\ work[g].at = "undoing" /\ work[g].new # Free /\ ref[t] = work[g].new => t \in undone
            /\ work[g].at = "sweeping" /\ t \in Guarded => ref[t] # work[g].old
        BY DEF ImagesInv, OldPicture
      <4>5. work[g].at = "sweeping" => work[g].old # Free
        BY DEF ImagesInv, RowGoesFirst
      <4> QED  BY <4>1, <4>2, <4>3, <4>4, <4>5
    <3> QED  BY <3>1, <3>2
  <2>10. RowGoesFirst'
    BY <1>1, <2>1, <2>2 DEF ImagesInv, RowGoesFirst, Uploading
  <2> QED  BY <2>5, <2>6, <2>7, <2>8, <2>9, <2>10 DEF ImagesInv
<1> QED  BY <1>3, <1>4 DEF Write

(* uploadAvatar fails after its commit: the row is one whose call failed.    *)
LEMMA ReadBackStep ==
    ASSUME ImagesInv, NEW h \in Handlers, ReadBack(h)
    PROVE  ImagesInv'
<1> DEFINE w == [work[h] EXCEPT !.at = "undoing"]
<1>0. work[h] \in Works /\ work \in [Handlers -> Works] /\ fault \in Nat
  BY DEF ImagesInv, ImageTables
<1>1. /\ w \in Works /\ w.at = "undoing" /\ w.on = work[h].on /\ w.old = work[h].old /\ w.new = work[h].new
      /\ work' = [work EXCEPT ![h] = w] /\ work[h].at = "cleaning"
      /\ UNCHANGED <<ref, row, asset, file, young, chosen>> /\ fault' \in Nat
      /\ undone' = undone \cup {work[h].on}
  BY <1>0 DEF Works, WorkStages, Goes, ReadBack, Fails
<1> HIDE DEF w
<1>2. work[h].on \in Pictured /\ work[h].on \in Shown
  BY <1>1 DEF ImagesInv, RowGoesFirst, Pictured
<1>3. \A g \in Handlers : work'[g] = IF g = h THEN w ELSE work[g]
  BY <1>0, <1>1
<1>4. ImageTables'
  BY <1>0, <1>1, <1>2 DEF ImagesInv, ImageTables, ImagesTypeOK
<1>5. ShownOnce' /\ PictureKept'
  BY <1>1, <1>4 DEF ImagesInv, ShownOnce, PictureKept, AssetHasFile, ImageTables
<1>6. OwnPicture'
  BY <1>1, <1>3 DEF ImagesInv, OwnPicture, Uploading
<1>7. OldPicture'
  BY <1>1, <1>3 DEF ImagesInv, OldPicture, Replacing
<1>8. RowGoesFirst'
  BY <1>1, <1>3 DEF ImagesInv, RowGoesFirst, Uploading
<1> QED  BY <1>4, <1>5, <1>6, <1>7, <1>8 DEF ImagesInv

(* The row of an asset goes, and with it every reference to it: none that a  *)
(* row needs.                                                                *)
LEMMA DeleteRowStep ==
    ASSUME ImagesInv, NEW h \in Handlers, DeleteRow(h)
    PROVE  ImagesInv'
<1> DEFINE a == Doomed(h)
<1>0. /\ work[h] \in Works /\ work \in [Handlers -> Works] /\ fault \in Nat
      /\ asset \subseteq Assets /\ ref \in [Shown -> Assets \cup {Free}]
  BY DEF ImagesInv, ImageTables, ImagesTypeOK
<1>1. work[h].at \in {"cleaning", "undoing", "sweeping"} /\ UNCHANGED <<row, file, fault, chosen, undone>>
  BY DEF DeleteRow
<1>2. CASE a \notin asset
  <2>1. /\ work' = [work EXCEPT ![h] = NoWork] /\ fault' \in Nat
        /\ UNCHANGED <<ref, row, asset, file, young, chosen, undone>>
    BY <1>0, <1>1, <1>2 DEF DeleteRow, Leaves
  <2> QED  BY <2>1, NoWorkIs, StagesApart, CallMoves DEF Uploading, Replacing, WorkStages
<1>3. CASE a \in asset
  <2> DEFINE w == [work[h] EXCEPT !.at = "unlinking", !.old = a]
  <2>0. a \in Assets /\ a # Free
    BY <1>0, <1>3, StagesApart
  <2>1. /\ w \in Works /\ w.at = "unlinking" /\ w.on = work[h].on /\ w.old = a /\ w.new = work[h].new
        /\ work' = [work EXCEPT ![h] = w]
        /\ asset' = asset \ {a} /\ young' = young \ {a} /\ ref' = Nulled(a)
    BY <1>0, <1>3, <2>0 DEF Works, WorkStages, DeleteRow
  <2>2. a = work[h].old \/ a = work[h].new
    BY DEF Doomed
  <2>3. \A s \in Pictured : ref[s] = a => s \in undone \/ (work[h].at = "sweeping" /\ s \notin Guarded)
    <3> SUFFICES ASSUME NEW s \in Pictured, ref[s] = a
                 PROVE  s \in undone \/ (work[h].at = "sweeping" /\ s \notin Guarded)
      OBVIOUS
    <3>1. /\ work[h].at = "cleaning" /\ work[h].old # Free => ref[s] # work[h].old
          /\ work[h].at = "undoing" /\ work[h].new # Free /\ ref[s] = work[h].new => s \in undone
          /\ work[h].at = "sweeping" /\ s \in Guarded => ref[s] # work[h].old
      BY DEF ImagesInv, OldPicture
    <3>2. a = IF work[h].at = "undoing" THEN work[h].new ELSE work[h].old
      BY DEF Doomed
    <3> HIDE DEF a
    <3> QED  BY <1>1, <2>0, <3>1, <3>2
  <2> HIDE DEF w, a
  <2>4. \A g \in Handlers : work'[g] = IF g = h THEN w ELSE work[g]
    BY <1>0, <2>1
  <2>5. /\ ref' \in [Shown -> Assets \cup {Free}]
        /\ \A s \in Shown : ref'[s] = IF ref[s] = a THEN Free ELSE ref[s]
    BY <1>0, <2>1 DEF Nulled
  <2>6. ImageTables'
    BY <1>0, <1>1, <2>1, <2>4, <2>5 DEF ImagesInv, ImageTables, ImagesTypeOK
  <2>7. ShownOnce'
    BY <2>5 DEF ImagesInv, ShownOnce, Pictured
  <2>8. PictureKept'
    <3>1. AssetHasFile'
      BY <1>1, <2>1, <2>5 DEF ImagesInv, PictureKept, AssetHasFile
    <3>2. ASSUME NEW s \in Shown \ undone, Kind[s] \in {"tournament", "reward", "merchandise", "player"}
          PROVE  ref'[s] = chosen'[s]
      <4>1. s \in Pictured /\ s \in Guarded
        BY <3>2 DEF Pictured, Guarded, Counted
      <4>2. ref[s] # a
        BY <2>3, <4>1
      <4>3. ref[s] = chosen[s]
        BY <3>2 DEF ImagesInv, PictureKept
      <4> QED  BY <1>1, <2>5, <4>2, <4>3
    <3> QED  BY <1>1, <2>6, <3>1, <3>2 DEF PictureKept, ImageTables
  <2>9. OwnPicture'
    <3> SUFFICES ASSUME NEW g \in Handlers, work'[g].at \in Uploading, work'[g].new # Free
                 PROVE  /\ \A k \in Handlers \ {g} : work'[k].old # work'[g].new /\ work'[k].new # work'[g].new
                        /\ work'[g].old # work'[g].new
                        /\ \A t \in Pictured : ref'[t] # work'[g].new
                        /\ IF work'[g].at = "registering" THEN work'[g].new \in file' \ asset'
                           ELSE work'[g].new \in asset' => work'[g].new \in young'
      BY DEF OwnPicture
    <3>1. g # h /\ work'[g] = work[g]
      BY <2>1, <2>4 DEF Uploading
    <3>2. /\ \A k \in Handlers \ {g} : work[k].old # work[g].new /\ work[k].new # work[g].new
          /\ work[g].old # work[g].new /\ \A t \in Pictured : ref[t] # work[g].new
          /\ IF work[g].at = "registering" THEN work[g].new \in file \ asset
             ELSE work[g].new \in asset => work[g].new \in young
      BY <3>1 DEF ImagesInv, OwnPicture
    <3>3. h \in Handlers \ {g} /\ a # work[g].new /\ work[h].new # work[g].new
      BY <2>2, <3>1, <3>2
    <3>4. \A k \in Handlers \ {g} : work'[k].old # work[g].new /\ work'[k].new # work[g].new
      BY <2>1, <2>4, <3>2, <3>3
    <3>5. \A t \in Pictured : ref'[t] # work[g].new
      BY <2>5, <3>1, <3>2 DEF Pictured
    <3> QED  BY <1>1, <2>1, <3>1, <3>2, <3>3, <3>4, <3>5
  <2>10. OldPicture'
    <3> SUFFICES ASSUME NEW g \in Handlers, NEW t \in Pictured
                 PROVE  /\ work'[g].at \in Replacing /\ work'[g].old # Free /\ ref'[t] = work'[g].old => t = work'[g].on
                        /\ work'[g].at = "cleaning" /\ work'[g].old # Free => ref'[t] # work'[g].old
                        /\ work'[g].at = "cleaning" /\ work'[g].new # Free /\ ref'[t] = work'[g].new => t = work'[g].on
                        /\ work'[g].at = "undoing" /\ work'[g].new # Free /\ ref'[t] = work'[g].new => t \in undone
                        /\ work'[g].at = "sweeping" /\ t \in Guarded => ref'[t] # work'[g].old
      BY <1>1 DEF OldPicture
    <3>1. ref'[t] = ref[t] \/ ref'[t] = Free
      BY <2>5 DEF Pictured
    <3>2. CASE g = h
      BY <2>1, <2>4, <3>2 DEF Replacing
    <3>3. CASE g # h
      <4>1. work'[g] = work[g]
        BY <2>4, <3>3
      <4>2. work[g].at = "sweeping" => work[g].old # Free
        BY DEF ImagesInv, RowGoesFirst
      <4> QED  BY <3>1, <4>1, <4>2 DEF ImagesInv, OldPicture
    <3> QED  BY <3>2, <3>3
  <2>11. RowGoesFirst'
    BY <2>1, <2>4 DEF ImagesInv, RowGoesFirst, Uploading
  <2> QED  BY <2>6, <2>7, <2>8, <2>9, <2>10, <2>11 DEF ImagesInv
<1> QED  BY <1>2, <1>3

(* ... then its file, which no asset names any more.                         *)
LEMMA DeleteFileStep ==
    ASSUME ImagesInv, NEW h \in Handlers, DeleteFile(h)
    PROVE  ImagesInv'
<1>0. /\ work[h] \in Works /\ work \in [Handlers -> Works] /\ fault \in Nat /\ Faults \in Nat
      /\ asset \subseteq file
  BY ImagesAssumption DEF ImagesInv, ImageTables, PictureKept, AssetHasFile
<1>1. /\ work[h].at = "unlinking" /\ work' = [work EXCEPT ![h] = NoWork]
      /\ UNCHANGED <<ref, row, asset, young, chosen, undone>> /\ fault' \in Nat
      /\ file' = file \ {work[h].old} \/ file' = file
  BY <1>0 DEF DeleteFile, Leaves, Fails
<1>2. work[h].old \notin asset
  BY <1>1 DEF ImagesInv, RowGoesFirst
<1>3. /\ work' \in [Handlers -> Works]
      /\ \A g \in Handlers : work'[g] = IF g = h THEN NoWork ELSE work[g]
  BY <1>0, <1>1, NoWorkIs
<1>4. ImageTables'
  BY <1>1, <1>3 DEF ImagesInv, ImageTables, ImagesTypeOK
<1>5. ShownOnce' /\ PictureKept'
  <2>1. AssetHasFile'
    BY <1>0, <1>1, <1>2 DEF ImagesInv, PictureKept, AssetHasFile
  <2> QED  BY <1>1, <1>4, <2>1 DEF ImagesInv, ShownOnce, PictureKept, ImageTables
<1>6. OwnPicture'
  <2> SUFFICES ASSUME NEW g \in Handlers, work'[g].at \in Uploading, work'[g].new # Free
               PROVE  /\ \A k \in Handlers \ {g} : work'[k].old # work'[g].new /\ work'[k].new # work'[g].new
                      /\ work'[g].old # work'[g].new
                      /\ \A t \in Pictured : ref[t] # work'[g].new
                      /\ IF work'[g].at = "registering" THEN work'[g].new \in file' \ asset
                         ELSE work'[g].new \in asset => work'[g].new \in young
    BY <1>1 DEF OwnPicture
  <2>1. g # h /\ work'[g] = work[g]
    BY <1>3, NoWorkIs, StagesApart DEF Uploading, WorkStages
  <2>2. /\ \A k \in Handlers \ {g} : work[k].old # work[g].new /\ work[k].new # work[g].new
        /\ work[g].old # work[g].new /\ \A t \in Pictured : ref[t] # work[g].new
        /\ IF work[g].at = "registering" THEN work[g].new \in file \ asset
           ELSE work[g].new \in asset => work[g].new \in young
    BY <2>1 DEF ImagesInv, OwnPicture
  <2>3. work[h].old # work[g].new
    BY <2>1, <2>2
  <2>4. \A k \in Handlers \ {g} : work'[k].old # work[g].new /\ work'[k].new # work[g].new
    BY <1>3, <2>1, <2>2, NoWorkIs
  <2> QED  BY <1>1, <2>1, <2>2, <2>3, <2>4
<1>7. OldPicture'
  BY <1>1, <1>3, NoWorkIs, StagesApart DEF ImagesInv, OldPicture, Replacing, WorkStages
<1>8. RowGoesFirst'
  BY <1>1, <1>3, NoWorkIs, StagesApart DEF ImagesInv, RowGoesFirst, Uploading, WorkStages
<1> QED  BY <1>4, <1>5, <1>6, <1>7, <1>8 DEF ImagesInv

(* Steps outside the calls.                                                  *)
LEMMA DeskMoves ==
    ASSUME ImagesInv,
           RemoveReward \/ RemoveMerchandise \/ RecordTaxDocument \/ DayPasses \/ Crash \/ UNCHANGED imageVars
    PROVE  ImagesInv'
<1>0. ImagesTypeOK /\ work \in [Handlers -> Works] /\ ImageTables
  BY DEF ImagesInv, ImageTables
<1>1. CASE RemoveReward \/ RemoveMerchandise
  <2>1. /\ UNCHANGED <<ref, asset, file, young, work, fault, chosen, undone>>
        /\ row' \in [Shown -> {"absent", "there", "hidden"}]
    BY <1>0, <1>1 DEF RemoveReward, RemoveMerchandise, Hides, ImagesTypeOK
  <2> QED  BY <2>1 DEF ImagesInv, ImageTables, ImagesTypeOK, ShownOnce, OwnPicture, OldPicture,
                       RowGoesFirst, PictureKept, AssetHasFile
<1>2. CASE RecordTaxDocument
  <2> PICK s \in Shown, a \in asset \cup {Free} :
        /\ Kind[s] = "tax" /\ row' = [row EXCEPT ![s] = "there"]
        /\ ref' = [ref EXCEPT ![s] = a] /\ chosen' = [chosen EXCEPT ![s] = a]
        /\ UNCHANGED <<asset, file, young, work, fault, undone>>
    BY <1>2 DEF RecordTaxDocument
  <2>1. a \in Assets \cup {Free}
    BY <1>0 DEF ImagesTypeOK
  <2>2. ImageTables'
    BY <1>0, <2>1 DEF ImageTables, ImagesTypeOK
  <2>3. \A t \in Pictured : ref'[t] = ref[t]
    BY <1>0 DEF ImagesTypeOK, Pictured
  <2>4. ShownOnce' /\ OwnPicture' /\ RowGoesFirst'
    BY <2>3 DEF ImagesInv, ShownOnce, OwnPicture, RowGoesFirst
  <2>5. OldPicture'
    BY <2>3 DEF ImagesInv, OldPicture
  <2>6. PictureKept'
    <3>1. AssetHasFile'
      BY <1>0 DEF ImagesInv, PictureKept, AssetHasFile, ImagesTypeOK
    <3>2. \A t \in Shown \ undone : Kind[t] \in {"tournament", "reward", "merchandise", "player"} => ref'[t] = chosen'[t]
      BY <1>0 DEF ImagesInv, PictureKept, ImageTables, ImagesTypeOK
    <3> QED  BY <2>2, <3>1, <3>2 DEF PictureKept, ImageTables
  <2> QED  BY <2>2, <2>4, <2>5, <2>6 DEF ImagesInv
<1>3. CASE DayPasses
  <2>1. /\ \A h \in Handlers : work[h].at \in {Free, "sweeping"}
        /\ young' = {} /\ UNCHANGED <<ref, row, asset, file, work, fault, chosen, undone>>
    BY <1>3 DEF DayPasses
  <2>2. ImageTables' /\ ShownOnce' /\ OldPicture' /\ RowGoesFirst'
    BY <2>1 DEF ImagesInv, ImageTables, ImagesTypeOK, ShownOnce, OldPicture, RowGoesFirst
  <2>3. PictureKept'
    BY <2>1, <2>2 DEF ImagesInv, PictureKept, AssetHasFile, ImageTables
  <2>4. OwnPicture'
    BY <2>1, StagesApart DEF OwnPicture, Uploading, WorkStages
  <2> QED  BY <2>2, <2>3, <2>4 DEF ImagesInv
<1>4. CASE Crash
  <2>1. /\ UNCHANGED <<ref, row, asset, file, young, chosen, undone>> /\ fault' \in Nat
        /\ work' \in [Handlers -> Works]
        /\ \A h \in Handlers : work'[h] = NoWork
    BY <1>0, <1>4, NoWorkIs, ImagesAssumption DEF Crash, Fails, ImageTables
  <2>2. ImageTables' /\ ShownOnce'
    BY <2>1 DEF ImagesInv, ImageTables, ImagesTypeOK, ShownOnce
  <2>3. PictureKept'
    BY <2>1, <2>2 DEF ImagesInv, PictureKept, AssetHasFile, ImageTables
  <2>4. OwnPicture' /\ OldPicture' /\ RowGoesFirst'
    BY <2>1, NoWorkIs, StagesApart DEF OwnPicture, OldPicture, RowGoesFirst, Uploading, Replacing, WorkStages
  <2> QED  BY <2>2, <2>3, <2>4 DEF ImagesInv
<1>5. CASE UNCHANGED imageVars
  BY <1>5 DEF ImagesInv, ImageTables, ImagesTypeOK, ShownOnce, OwnPicture, OldPicture,
              RowGoesFirst, PictureKept, AssetHasFile, imageVars
<1> QED  BY <1>1, <1>2, <1>3, <1>4, <1>5

(* The inductive invariant of the pictures.                                  *)
THEOREM ImagesInvariance == ImagesSpec => []ImagesInv
<1>1. ImagesInv /\ [ImagesNext]_imageVars => ImagesInv'
  <2> SUFFICES ASSUME ImagesInv, [ImagesNext]_imageVars PROVE ImagesInv'
    OBVIOUS
  <2>1. ASSUME NEW h \in Handlers, HandlerStep(h) PROVE ImagesInv'
    BY <2>1, BeginStep, StoreStep, RegisterStep, OtherStep, WriteStep, ReadBackStep,
       DeleteRowStep, DeleteFileStep DEF HandlerStep
  <2> QED  BY <2>1, DeskMoves DEF ImagesNext
<1> QED  BY <1>1, ImagesInitially, PTL DEF ImagesSpec

(* Whatever updates, failures, restarts and sweeps come between, a row shows *)
(* the picture it was last given and every asset has its file, for any rows, *)
(* assets and number of calls.                                               *)
THEOREM PicturesAreKept == ImagesSpec => []PictureKept
<1>1. ImagesInv => PictureKept
  BY DEF ImagesInv
<1> QED  BY <1>1, ImagesInvariance, PTL

-----------------------------------------------------------------------------
-----------------------------------------------------------------------------
(* A call about payout accounts.                                             *)
StripeStages == {"recording", "refreshing", "matching", "counting", "syncing"}
Errands == [at : ErrandStages \cup {Free}, own : Methods \cup {Free},
            held : SUBSET Methods, todo : SUBSET Methods,
            ref : StripeAccounts \cup {Free}, status : Verdicts \cup {"NOT_CONNECTED", Free},
            first : BOOLEAN, missed : SUBSET Methods, goal : {"player", "admin", Free}]
AccountRows == [reference : StripeAccounts \cup Handles \cup {Free}, verified : BOOLEAN, default : BOOLEAN]

(* What is known of the player's accounts at Stripe: only an account that    *)
(* exists is entered, and none counts as verified of which Stripe has never  *)
(* said so.                                                                  *)
StripeSide ==
    /\ user \in [id : opened \cup {Free}, status : Verdicts \cup {"NOT_CONNECTED"}]
    /\ opened \subseteq StripeAccounts
    /\ mail \subseteq [id : opened, status : Verdicts]
    /\ user.status = "VERIFIED" => user.id \in vouched
    /\ \A e \in mail : e.status = "VERIFIED" => e.id \in vouched

(* Only a connected account is a default; the one last made the default is   *)
(* one; and it is the only one, unless calls raced.                          *)
OneIsPreferred ==
    /\ \A m \in Methods : account[m].default => account[m].reference # Free
    /\ preferred # Free => account[preferred].default
    /\ ~raced => \A m \in Methods : account[m].default => m = preferred

(* A call that clears the other defaults has cleared, will clear, or cannot  *)
(* see every other account that is connected.                                *)
ErrandKnows(k) ==
    /\ k.at \in {"found", "clearing"} => k.own \in Connected \cup {Free}
    /\ k.at = "clearing" => \A n \in Connected : n # k.own => n \in k.todo \cup k.held \cup k.missed
    /\ k.at \in StripeStages => k.ref \in opened

MethodsInv ==
    /\ account \in [Methods -> AccountRows]
    /\ preferred \in Methods \cup {Free} /\ raced \in BOOLEAN
    /\ errand \in [Tellers -> Errands]
    /\ StripeSide
    /\ OneIsPreferred
    /\ \A c \in Tellers : ErrandKnows(errand[c])

-----------------------------------------------------------------------------
LEMMA ErrandStagesApart ==
    /\ Free \notin ErrandStages /\ Free \notin Methods /\ Free \notin StripeAccounts
    /\ Free \notin Handles /\ Stripe \in Methods
  BY MethodsAssumption DEF Stripe

LEMMA NoErrandIs == /\ NoErrand \in Errands
                    /\ NoErrand.at = Free /\ NoErrand.own = Free /\ NoErrand.held = {}
                    /\ NoErrand.todo = {} /\ NoErrand.missed = {} /\ NoErrand.ref = Free
  BY DEF NoErrand, Errands

LEMMA IdleKnows == ErrandKnows(NoErrand)
  BY NoErrandIs, ErrandStagesApart DEF ErrandKnows, ErrandStages, StripeStages

LEMMA MethodsInitially == MethodsInit => MethodsInv
<1> SUFFICES ASSUME MethodsInit PROVE MethodsInv
  OBVIOUS
<1>1. NoAccount \in AccountRows /\ NoAccount.default = FALSE
  BY DEF NoAccount, AccountRows
<1>2. account \in [Methods -> AccountRows] /\ \A m \in Methods : account[m] = NoAccount
  BY <1>1 DEF MethodsInit
<1>3. errand \in [Tellers -> Errands] /\ \A c \in Tellers : errand[c] = NoErrand
  BY NoErrandIs DEF MethodsInit
<1>4. StripeSide
  BY DEF MethodsInit, StripeSide
<1>5. OneIsPreferred /\ preferred \in Methods \cup {Free} /\ raced \in BOOLEAN
  BY <1>1, <1>2 DEF MethodsInit, OneIsPreferred
<1>6. \A c \in Tellers : ErrandKnows(errand[c])
  BY <1>3, IdleKnows
<1> QED  BY <1>2, <1>3, <1>4, <1>5, <1>6 DEF MethodsInv

(* A call that goes on, touching no account of the player's.                 *)
LEMMA ErrandMoves ==
    ASSUME MethodsInv, NEW c \in Tellers, NEW k \in Errands,
           errand' = [errand EXCEPT ![c] = k],
           UNCHANGED <<account, preferred, raced>>, StripeSide', opened \subseteq opened',
           k.at \in {"found", "clearing"} => k.own \in Connected \cup {Free},
           k.at = "clearing" => \A n \in Connected : n # k.own => n \in k.todo \cup k.held \cup k.missed,
           k.at \in StripeStages => k.ref \in opened'
    PROVE  MethodsInv'
<1>1. /\ errand' \in [Tellers -> Errands]
      /\ \A d \in Tellers : errand'[d] = IF d = c THEN k ELSE errand[d]
  BY DEF MethodsInv
<1>2. Connected' = Connected
  BY DEF Connected
<1>3. OneIsPreferred'
  BY DEF MethodsInv, OneIsPreferred
<1>4. ASSUME NEW d \in Tellers PROVE ErrandKnows(errand[d])'
  <2>1. CASE d = c
    BY <1>1, <1>2, <2>1 DEF ErrandKnows
  <2>2. CASE d # c
    BY <1>1, <1>2, <2>2 DEF MethodsInv, ErrandKnows
  <2> QED  BY <2>1, <2>2
<1> QED  BY <1>1, <1>3, <1>4 DEF MethodsInv

(* A step of the accounts that changes which of them are connected, and how  *)
(* the other calls stand to that.                                            *)
LEMMA AccountsMove ==
    ASSUME MethodsInv, account' \in [Methods -> AccountRows],
           preferred' \in Methods \cup {Free}, raced' \in BOOLEAN,
           errand' \in [Tellers -> Errands], OneIsPreferred',
           UNCHANGED <<user, opened, mail, vouched>>,
           \A d \in Tellers : \/ errand'[d] = NoErrand
                             \/ /\ errand'[d].at = errand[d].at /\ errand'[d].ref = errand[d].ref
                                /\ errand'[d].held = errand[d].held
                                /\ errand[d].at \in {"found", "clearing"} =>
                                      /\ errand'[d].own \in Connected' \cup {Free}
                                      /\ errand'[d].own \in {errand[d].own, Free}
                                /\ errand[d].at = "clearing" => \A n \in Connected' :
                                      \/ n = errand'[d].own
                                      \/ n \in errand'[d].missed
                                      \/ /\ n \in Connected /\ n # errand[d].own
                                         /\ n \in errand[d].todo => n \in errand'[d].todo
                                         /\ n \in errand[d].missed => n \in errand'[d].missed
    PROVE  MethodsInv'
<1>1. StripeSide'
  BY DEF MethodsInv, StripeSide
<1>2. ASSUME NEW d \in Tellers PROVE ErrandKnows(errand[d])'
  <2>1. CASE errand'[d] = NoErrand
    BY <2>1, NoErrandIs, ErrandStagesApart DEF ErrandKnows, ErrandStages, StripeStages
  <2>2. CASE errand'[d] # NoErrand
    <3> DEFINE k == errand[d]
               l == errand'[d]
    <3>1. ErrandKnows(k)
      BY DEF MethodsInv
    <3>2. /\ l.at = k.at /\ l.ref = k.ref /\ l.held = k.held
          /\ k.at \in {"found", "clearing"} => l.own \in Connected' \cup {Free}
          /\ k.at = "clearing" => \A n \in Connected' :
                \/ n = l.own
                \/ n \in l.missed
                \/ /\ n \in Connected /\ n # k.own
                   /\ n \in k.todo => n \in l.todo
                   /\ n \in k.missed => n \in l.missed
      BY <2>2
    <3> SUFFICES /\ l.at \in {"found", "clearing"} => l.own \in Connected' \cup {Free}
                 /\ l.at = "clearing" => \A n \in Connected' : n # l.own => n \in l.todo \cup l.held \cup l.missed
                 /\ l.at \in StripeStages => l.ref \in opened'
      BY DEF ErrandKnows
    <3> HIDE DEF k, l
    <3>3. l.at = "clearing" => \A n \in Connected' : n # l.own => n \in l.todo \cup l.held \cup l.missed
      BY <3>1, <3>2 DEF ErrandKnows
    <3> QED  BY <3>1, <3>2, <3>3 DEF ErrandKnows
  <2> QED  BY <2>1, <2>2
<1> QED  BY <1>1, <1>2 DEF MethodsInv

-----------------------------------------------------------------------------
(* A row inserted is missed by the statements that have begun.               *)
LEMMA InsertedIs ==
    ASSUME MethodsInv, NEW m \in Methods
    PROVE  /\ Inserted(m) \in [Tellers -> Errands]
           /\ \A d \in Tellers :
                 /\ Inserted(m)[d].at = errand[d].at /\ Inserted(m)[d].ref = errand[d].ref
                 /\ Inserted(m)[d].own = errand[d].own /\ Inserted(m)[d].held = errand[d].held
                 /\ Inserted(m)[d].todo = errand[d].todo
                 /\ errand[d].missed \subseteq Inserted(m)[d].missed
                 /\ errand[d].at = "clearing" /\ m \notin Connected => m \in Inserted(m)[d].missed
<1>1. ASSUME NEW d \in Tellers
      PROVE  /\ Inserted(m)[d] \in Errands
             /\ Inserted(m)[d].at = errand[d].at /\ Inserted(m)[d].ref = errand[d].ref
             /\ Inserted(m)[d].own = errand[d].own /\ Inserted(m)[d].held = errand[d].held
             /\ Inserted(m)[d].todo = errand[d].todo
             /\ errand[d].missed \subseteq Inserted(m)[d].missed
             /\ errand[d].at = "clearing" /\ m \notin Connected => m \in Inserted(m)[d].missed
  <2>0. errand[d] \in Errands
    BY DEF MethodsInv
  <2>1. CASE errand[d].at = "clearing" /\ m \notin Connected
    <3>1. Inserted(m)[d] = [errand[d] EXCEPT !.missed = @ \cup {m}]
      BY <2>1 DEF Inserted
    <3> QED  BY <2>0, <3>1 DEF Errands
  <2>2. CASE ~ (errand[d].at = "clearing" /\ m \notin Connected)
    <3>1. Inserted(m)[d] = errand[d]
      BY <2>2 DEF Inserted
    <3> QED  BY <2>0, <2>2, <3>1
  <2> QED  BY <2>1, <2>2
<1>2. Inserted(m) = [d \in Tellers |-> Inserted(m)[d]]
  BY DEF Inserted
<1> QED  BY <1>1, <1>2

LEMMA ConnectStep ==
    ASSUME MethodsInv, Connect
    PROVE  MethodsInv'
<1> PICK m \in Methods, r \in StripeAccounts \cup Handles, verified \in BOOLEAN :
      /\ Unlocked(m) /\ account' = [account EXCEPT ![m].reference = r, ![m].verified = verified]
      /\ errand' = Inserted(m) /\ UNCHANGED <<preferred, raced>> /\ RestUnchanged
  BY DEF Connect
<1>0. account \in [Methods -> AccountRows] /\ r # Free
  BY ErrandStagesApart DEF MethodsInv
<1>1. /\ account' \in [Methods -> AccountRows]
      /\ \A n \in Methods : /\ account'[n].default = account[n].default
                            /\ account'[n].reference = IF n = m THEN r ELSE account[n].reference
  BY <1>0 DEF AccountRows
<1>2. Connected' = Connected \cup {m}
  BY <1>0, <1>1 DEF Connected
<1>3. OneIsPreferred'
  BY <1>0, <1>1 DEF MethodsInv, OneIsPreferred
<1>4. /\ errand' \in [Tellers -> Errands]
      /\ \A d \in Tellers :
                 /\ errand'[d].at = errand[d].at /\ errand'[d].ref = errand[d].ref
                 /\ errand'[d].own = errand[d].own /\ errand'[d].held = errand[d].held
                 /\ errand'[d].todo = errand[d].todo
                 /\ errand[d].missed \subseteq errand'[d].missed
                 /\ errand[d].at = "clearing" /\ m \notin Connected => m \in errand'[d].missed
  BY InsertedIs
<1>5. \A d \in Tellers : errand[d].at \in {"found", "clearing"} => errand[d].own \in Connected \cup {Free}
  BY DEF MethodsInv, ErrandKnows
<1>6. /\ preferred' \in Methods \cup {Free} /\ raced' \in BOOLEAN
      /\ UNCHANGED <<user, opened, mail, vouched>>
  BY DEF MethodsInv, RestUnchanged
<1> QED  BY <1>1, <1>2, <1>3, <1>4, <1>5, <1>6, AccountsMove

LEMMA SetVerifiedStep ==
    ASSUME MethodsInv, SetVerified
    PROVE  MethodsInv'
<1> PICK m \in Connected, verified \in BOOLEAN :
      /\ Unlocked(m) /\ account' = [account EXCEPT ![m].verified = verified]
      /\ UNCHANGED <<errand, preferred, raced>> /\ RestUnchanged
  BY DEF SetVerified
<1>0. account \in [Methods -> AccountRows] /\ m \in Methods
  BY DEF MethodsInv, Connected
<1>1. /\ account' \in [Methods -> AccountRows]
      /\ \A n \in Methods : /\ account'[n].default = account[n].default
                            /\ account'[n].reference = account[n].reference
  BY <1>0 DEF AccountRows
<1>2. Connected' = Connected
  BY <1>1 DEF Connected
<1>3. OneIsPreferred' /\ StripeSide'
  BY <1>0, <1>1 DEF MethodsInv, OneIsPreferred, StripeSide, RestUnchanged
<1>4. \A c \in Tellers : ErrandKnows(errand[c])'
  BY <1>2 DEF MethodsInv, ErrandKnows, RestUnchanged
<1> QED  BY <1>1, <1>3, <1>4 DEF MethodsInv

LEMMA DisconnectStep ==
    ASSUME MethodsInv, Disconnect
    PROVE  MethodsInv'
<1> PICK m \in Connected :
      /\ Unlocked(m) /\ account' = [account EXCEPT ![m] = NoAccount]
      /\ preferred' = IF preferred = m THEN Free ELSE preferred
      /\ raced' = (raced /\ \E n \in Methods : account'[n].default)
      /\ errand' = Deleted(m) /\ RestUnchanged
  BY DEF Disconnect
<1>0. account \in [Methods -> AccountRows] /\ m \in Methods /\ NoAccount \in AccountRows
      /\ NoAccount.default = FALSE /\ NoAccount.reference = Free /\ m # Free
  BY ErrandStagesApart DEF MethodsInv, Connected, NoAccount, AccountRows
<1>1. /\ account' \in [Methods -> AccountRows]
      /\ \A n \in Methods : account'[n] = IF n = m THEN NoAccount ELSE account[n]
  BY <1>0
<1>2. Connected' = Connected \ {m}
  BY <1>0, <1>1 DEF Connected
<1>3. preferred' \in Methods \cup {Free} /\ raced' \in BOOLEAN
  BY DEF MethodsInv
<1>4. OneIsPreferred'
  <2>1. \A n \in Methods : account'[n].default => account'[n].reference # Free
    BY <1>0, <1>1 DEF MethodsInv, OneIsPreferred
  <2>2. preferred' # Free => account'[preferred'].default
    BY <1>0, <1>1 DEF MethodsInv, OneIsPreferred
  <2>3. ~raced' => \A n \in Methods : account'[n].default => n = preferred'
    <3> SUFFICES ASSUME ~raced', NEW n \in Methods, account'[n].default PROVE n = preferred'
      OBVIOUS
    <3>1. ~raced
      OBVIOUS
    <3>2. n # m /\ account[n].default
      BY <1>0, <1>1
    <3>3. n = preferred
      BY <3>1, <3>2 DEF MethodsInv, OneIsPreferred
    <3> QED  BY <3>2, <3>3
  <2> QED  BY <2>1, <2>2, <2>3 DEF OneIsPreferred
<1>5. ASSUME NEW d \in Tellers
      PROVE  /\ errand'[d] \in Errands
             /\ errand'[d].at = errand[d].at /\ errand'[d].ref = errand[d].ref
             /\ errand'[d].held = errand[d].held
             /\ errand'[d].own = IF errand[d].own = m THEN Free ELSE errand[d].own
             /\ errand'[d].todo = errand[d].todo \ {m}
             /\ errand'[d].missed = errand[d].missed \ {m}
  <2>1. errand[d] \in Errands
    BY DEF MethodsInv
  <2>2. errand'[d] = [errand[d] EXCEPT !.todo = @ \ {m}, !.missed = @ \ {m}, !.own = IF @ = m THEN Free ELSE @]
    BY DEF Deleted
  <2> QED  BY <2>1, <2>2 DEF Errands
<1>6. errand' \in [Tellers -> Errands]
  <2>1. errand' = [d \in Tellers |-> errand'[d]]
    BY DEF Deleted
  <2> QED  BY <1>5, <2>1
<1>7. \A d \in Tellers : errand[d].at \in {"found", "clearing"} => errand[d].own \in Connected \cup {Free}
  BY DEF MethodsInv, ErrandKnows
<1>8. UNCHANGED <<user, opened, mail, vouched>>
  BY DEF RestUnchanged
<1>9. \A d \in Tellers :
        /\ errand[d].at \in {"found", "clearing"} =>
               /\ errand'[d].own \in Connected' \cup {Free}
               /\ errand'[d].own \in {errand[d].own, Free}
        /\ \A n \in Connected' :
               \/ n = errand'[d].own
               \/ /\ n \in Connected /\ n # errand[d].own
                  /\ n \in errand[d].todo => n \in errand'[d].todo
                  /\ n \in errand[d].missed => n \in errand'[d].missed
  BY <1>2, <1>5, <1>7
<1> QED  BY <1>1, <1>3, <1>4, <1>5, <1>6, <1>8, <1>9, AccountsMove

(* The default account: it is connected, every other default is cleared or    *)
(* could not be seen.                                                        *)
LEMMA MakeDefaultStep ==
    ASSUME MethodsInv, NEW c \in Tellers, MakeDefault(c)
    PROVE  MethodsInv'
<1> DEFINE m == errand[c].own
<1>0. /\ errand[c].at = "clearing" /\ errand[c].todo = {} /\ Unlocked(m)
      /\ errand' = [errand EXCEPT ![c] = NoErrand] /\ RestUnchanged
  BY DEF MakeDefault, Ends
<1>1. CASE m = Free
  <2>1. UNCHANGED <<account, preferred, raced>>
    BY <1>1 DEF MakeDefault
  <2>2. StripeSide' /\ opened \subseteq opened'
    BY <1>0 DEF RestUnchanged, MethodsInv, StripeSide
  <2> QED  BY <1>0, <2>1, <2>2, ErrandMoves, NoErrandIs, ErrandStagesApart DEF ErrandStages, StripeStages
<1>2. CASE m # Free
  <2>1. /\ account' = [n \in Methods |-> IF n = m THEN [account[n] EXCEPT !.default = TRUE]
                                         ELSE IF n \in errand[c].held THEN [account[n] EXCEPT !.default = FALSE]
                                         ELSE account[n]]
        /\ preferred' = m /\ raced' = (\E n \in errand[c].missed : account[n].default)
    BY <1>2 DEF MakeDefault
  <2>2. /\ m \in Connected
        /\ \A n \in Connected : n # m => n \in errand[c].held \cup errand[c].missed
    BY <1>0, <1>2 DEF MethodsInv, ErrandKnows
  <2>3. m \in Methods /\ account[m].reference # Free /\ account \in [Methods -> AccountRows]
    BY <2>2 DEF Connected, MethodsInv
  <2> HIDE DEF m
  <2>4. ASSUME NEW n \in Methods
        PROVE  /\ account'[n] \in AccountRows /\ account'[n].reference = account[n].reference
               /\ account'[n].default <=> \/ n = m
                                          \/ n \notin errand[c].held /\ account[n].default
    <3>1. CASE n = m
      <4>1. account'[n] = [account[n] EXCEPT !.default = TRUE]
        BY <2>1, <3>1
      <4> QED  BY <2>3, <3>1, <4>1 DEF AccountRows
    <3>2. CASE n # m /\ n \in errand[c].held
      <4>1. account'[n] = [account[n] EXCEPT !.default = FALSE]
        BY <2>1, <3>2
      <4> QED  BY <2>3, <3>2, <4>1 DEF AccountRows
    <3>3. CASE n # m /\ n \notin errand[c].held
      <4>1. account'[n] = account[n]
        BY <2>1, <3>3
      <4> QED  BY <2>3, <3>3, <4>1
    <3> QED  BY <3>1, <3>2, <3>3
  <2>5. account' \in [Methods -> AccountRows]
    <3>1. account' = [n \in Methods |-> account'[n]]
      BY <2>1
    <3> QED  BY <2>4, <3>1
  <2>6. Connected' = Connected
    BY <2>4 DEF Connected
  <2>7. preferred' \in Methods \cup {Free} /\ raced' \in BOOLEAN
    BY <2>1, <2>3
  <2>8. OneIsPreferred'
    <3>1. \A n \in Methods : account[n].default => n \in Connected
      BY DEF MethodsInv, OneIsPreferred, Connected
    <3>2. \A n \in Methods : account'[n].default => account'[n].reference # Free
      BY <2>3, <2>4, <3>1 DEF Connected
    <3>3. account'[preferred'].default
      BY <2>1, <2>3, <2>4
    <3>4. ASSUME ~raced', NEW n \in Methods, account'[n].default PROVE n = preferred'
      <4> SUFFICES ASSUME n # m PROVE FALSE
        BY <2>1
      <4>1. n \notin errand[c].held /\ account[n].default
        BY <2>4, <3>4
      <4>2. n \in errand[c].missed
        BY <2>2, <3>1, <4>1
      <4> QED  BY <2>1, <3>4, <4>1, <4>2
    <3> QED  BY <3>2, <3>3, <3>4 DEF OneIsPreferred
  <2>9. StripeSide'
    BY <1>0 DEF MethodsInv, StripeSide, RestUnchanged
  <2>10. /\ errand' \in [Tellers -> Errands]
         /\ \A d \in Tellers : errand'[d] = IF d = c THEN NoErrand ELSE errand[d]
    BY <1>0, NoErrandIs DEF MethodsInv
  <2>11. ASSUME NEW d \in Tellers PROVE ErrandKnows(errand[d])'
    <3>1. CASE d = c
      BY <2>10, <3>1, NoErrandIs, ErrandStagesApart DEF ErrandKnows, ErrandStages, StripeStages
    <3>2. CASE d # c
      BY <1>0, <2>6, <2>10, <3>2 DEF MethodsInv, ErrandKnows, RestUnchanged
    <3> QED  BY <3>1, <3>2
  <2> QED  BY <2>5, <2>7, <2>8, <2>9, <2>10, <2>11 DEF MethodsInv
<1> QED  BY <1>1, <1>2

(* The account at Stripe is entered; it is the default if it was the first.   *)
LEMMA SyncStep ==
    ASSUME MethodsInv, NEW c \in Tellers, SyncStripeDestination(c)
    PROVE  MethodsInv'
<1> DEFINE k == errand[c]
           isNew == Stripe \notin Connected
           entry == [reference |-> k.ref, verified |-> k.status = "VERIFIED",
                   default |-> IF isNew THEN k.first ELSE account[Stripe].default]
<1>0. /\ k.at = "syncing" /\ errand' = [Inserted(Stripe) EXCEPT ![c] = NoErrand]
      /\ account' = [account EXCEPT ![Stripe] = entry]
      /\ preferred' = IF isNew /\ k.first THEN Stripe ELSE preferred
      /\ raced' = (raced \/ (isNew /\ k.first /\ Connected # {}))
      /\ UNCHANGED <<user, opened, mail, vouched>>
  BY DEF SyncStripeDestination, RestUnchanged
<1>1. /\ Stripe \in Methods /\ Stripe # Free /\ account \in [Methods -> AccountRows] /\ k \in Errands
      /\ k.ref \in StripeAccounts /\ k.ref # Free
  BY <1>0, ErrandStagesApart DEF MethodsInv, ErrandKnows, StripeSide, StripeStages
<1>2. entry \in AccountRows /\ entry.reference = k.ref /\ entry.default = IF isNew THEN k.first ELSE account[Stripe].default
  BY <1>1 DEF AccountRows, Errands
<1> HIDE DEF entry
<1>3. /\ account' \in [Methods -> AccountRows]
      /\ \A n \in Methods : account'[n] = IF n = Stripe THEN entry ELSE account[n]
  BY <1>0, <1>1, <1>2
<1>4. Connected' = Connected \cup {Stripe}
  BY <1>1, <1>2, <1>3 DEF Connected
<1>5. preferred' \in Methods \cup {Free} /\ raced' \in BOOLEAN
  BY <1>0, <1>1 DEF MethodsInv, Errands
<1>6. \A n \in Methods : account[n].default => n \in Connected
  BY DEF MethodsInv, OneIsPreferred, Connected
<1>7. OneIsPreferred'
  <2>1. \A n \in Methods : account'[n].default => account'[n].reference # Free
    BY <1>1, <1>2, <1>3, <1>6 DEF Connected
  <2>2. preferred' # Free => account'[preferred'].default
    <3>1. CASE isNew /\ k.first
      BY <1>0, <1>1, <1>2, <1>3, <3>1
    <3>2. CASE ~ (isNew /\ k.first)
      <4>1. preferred' = preferred
        BY <1>0, <3>2
      <4>2. preferred # Free => preferred \in Methods /\ account[preferred].default
        BY DEF MethodsInv, OneIsPreferred
      <4> QED  BY <1>2, <1>3, <1>6, <3>2, <4>1, <4>2
    <3> QED  BY <3>1, <3>2
  <2>3. ASSUME ~raced', NEW n \in Methods, account'[n].default PROVE n = preferred'
    <3>1. ~raced /\ (isNew /\ k.first => Connected = {})
      BY <1>0, <2>3
    <3>2. \A p \in Methods : account[p].default => p = preferred
      BY <3>1 DEF MethodsInv, OneIsPreferred
    <3>3. CASE isNew /\ k.first
      BY <1>0, <1>3, <1>6, <2>3, <3>1, <3>3
    <3>4. CASE ~ (isNew /\ k.first)
      <4>1. preferred' = preferred
        BY <1>0, <3>4
      <4>2. account[n].default
        BY <1>2, <1>3, <2>3, <3>4
      <4> QED  BY <3>2, <4>1, <4>2
    <3> QED  BY <3>3, <3>4
  <2> QED  BY <2>1, <2>2, <2>3 DEF OneIsPreferred
<1>8. /\ errand' \in [Tellers -> Errands]
      /\ \A d \in Tellers : errand'[d] = IF d = c THEN NoErrand ELSE Inserted(Stripe)[d]
  BY <1>0, <1>1, InsertedIs, NoErrandIs
<1>9. \A d \in Tellers :
         /\ Inserted(Stripe)[d].at = errand[d].at /\ Inserted(Stripe)[d].ref = errand[d].ref
         /\ Inserted(Stripe)[d].own = errand[d].own /\ Inserted(Stripe)[d].held = errand[d].held
         /\ Inserted(Stripe)[d].todo = errand[d].todo
         /\ errand[d].missed \subseteq Inserted(Stripe)[d].missed
         /\ errand[d].at = "clearing" /\ Stripe \notin Connected => Stripe \in Inserted(Stripe)[d].missed
  BY <1>1, InsertedIs
<1>10. \A d \in Tellers : errand[d].at \in {"found", "clearing"} => errand[d].own \in Connected \cup {Free}
  BY DEF MethodsInv, ErrandKnows
<1>11. ASSUME NEW d \in Tellers
       PROVE  \/ errand'[d] = NoErrand
              \/ /\ errand'[d].at = errand[d].at /\ errand'[d].ref = errand[d].ref
                 /\ errand'[d].held = errand[d].held
                 /\ errand[d].at \in {"found", "clearing"} =>
                       /\ errand'[d].own \in Connected' \cup {Free}
                       /\ errand'[d].own \in {errand[d].own, Free}
                 /\ errand[d].at = "clearing" => \A n \in Connected' :
                       \/ n = errand'[d].own
                       \/ n \in errand'[d].missed
                       \/ /\ n \in Connected /\ n # errand[d].own
                          /\ n \in errand[d].todo => n \in errand'[d].todo
                          /\ n \in errand[d].missed => n \in errand'[d].missed
  <2>1. CASE d = c
    BY <1>8, <2>1
  <2>2. CASE d # c
    <3>1. errand'[d] = Inserted(Stripe)[d]
      BY <1>8, <2>2
    <3> QED  BY <1>4, <1>9, <1>10, <3>1
  <2> QED  BY <2>1, <2>2
<1> QED  BY <1>0, <1>3, <1>5, <1>7, <1>8, <1>11, AccountsMove

-----------------------------------------------------------------------------
(* A verdict of Stripe's.                                                    *)
LEMMA VerdictStep ==
    ASSUME MethodsInv, Verdict
    PROVE  MethodsInv'
<1> PICK a \in opened, s \in Verdicts :
      /\ mail' = mail \cup {[id |-> a, status |-> s]}
      /\ vouched' = IF s = "VERIFIED" THEN vouched \cup {a} ELSE vouched
      /\ UNCHANGED <<account, user, opened, errand, preferred, raced>>
  BY DEF Verdict
<1>1. StripeSide'
  BY DEF MethodsInv, StripeSide
<1>2. Connected' = Connected
  BY DEF Connected
<1>3. \A c \in Tellers : ErrandKnows(errand[c])'
  BY <1>2 DEF MethodsInv, ErrandKnows
<1>4. OneIsPreferred'
  BY DEF MethodsInv, OneIsPreferred
<1> QED  BY <1>1, <1>3, <1>4 DEF MethodsInv

LEMMA DefaultSteps ==
    ASSUME MethodsInv, NEW c \in Tellers, SetDefault(c) \/ BeginClear(c) \/ ClearOne(c) \/ DeadlockAborted(c)
    PROVE  MethodsInv'
<1>0. /\ UNCHANGED <<account, preferred, raced>> /\ RestUnchanged
      /\ errand \in [Tellers -> Errands] /\ ErrandKnows(errand[c])
  BY DEF SetDefault, BeginClear, ClearOne, DeadlockAborted, MethodsInv
<1>1. StripeSide' /\ opened \subseteq opened'
  BY <1>0 DEF RestUnchanged, MethodsInv, StripeSide
<1>2. Connected \subseteq Methods
  BY DEF Connected
<1>3. CASE SetDefault(c)
  <2> PICK m \in Connected : errand' = [errand EXCEPT ![c] = [NoErrand EXCEPT !.at = "found", !.own = m]]
    BY <1>3 DEF SetDefault, Begins
  <2> DEFINE k == [NoErrand EXCEPT !.at = "found", !.own = m]
  <2>1. k \in Errands /\ k.at = "found" /\ k.own = m
    BY <1>2, NoErrandIs DEF Errands, ErrandStages
  <2>2. errand' = [errand EXCEPT ![c] = k]
    OBVIOUS
  <2> HIDE DEF k
  <2> QED  BY <1>0, <1>1, <2>1, <2>2, ErrandMoves DEF StripeStages
<1>4. CASE BeginClear(c)
  <2> DEFINE k == [errand[c] EXCEPT !.at = "clearing", !.todo = Others(errand[c].own)]
  <2>1. errand[c].at = "found" /\ errand' = [errand EXCEPT ![c] = k]
    BY <1>0, <1>4 DEF BeginClear
  <2>2. /\ k \in Errands /\ k.at = "clearing" /\ k.own = errand[c].own
        /\ k.todo = Connected \ {errand[c].own}
    BY <1>0, <1>2 DEF Errands, ErrandStages, Others
  <2> HIDE DEF k
  <2>3. k.own \in Connected \cup {Free}
    BY <1>0, <2>1, <2>2 DEF ErrandKnows
  <2> QED  BY <1>0, <1>1, <2>1, <2>2, <2>3, ErrandMoves DEF StripeStages
<1>5. CASE ClearOne(c)
  <2> PICK n \in errand[c].todo : errand' = [errand EXCEPT ![c].todo = @ \ {n}, ![c].held = @ \cup {n}]
    BY <1>5 DEF ClearOne
  <2> DEFINE k == [errand[c] EXCEPT !.todo = @ \ {n}, !.held = @ \cup {n}]
  <2>1. errand' = [errand EXCEPT ![c] = k]
    BY <1>0
  <2>2. /\ k \in Errands /\ k.at = errand[c].at /\ k.own = errand[c].own /\ k.ref = errand[c].ref
        /\ k.todo = errand[c].todo \ {n} /\ k.held = errand[c].held \cup {n} /\ k.missed = errand[c].missed
    BY <1>0 DEF Errands
  <2> HIDE DEF k
  <2>3. k.at \in {"found", "clearing"} => k.own \in Connected \cup {Free}
    BY <1>0, <2>2 DEF ErrandKnows
  <2>4. k.at = "clearing" => \A p \in Connected : p # k.own => p \in k.todo \cup k.held \cup k.missed
    BY <1>0, <2>2 DEF ErrandKnows
  <2>5. k.at \in StripeStages => k.ref \in opened'
    BY <1>0, <1>1, <2>2 DEF ErrandKnows
  <2>6. k \in Errands
    BY <2>2
  <2> QED  BY <1>0, <1>1, <2>1, <2>3, <2>4, <2>5, <2>6, ErrandMoves
<1>6. CASE DeadlockAborted(c)
  <2>1. errand' = [errand EXCEPT ![c] = NoErrand]
    BY <1>6 DEF DeadlockAborted, Ends
  <2> QED  BY <1>0, <1>1, <2>1, ErrandMoves, NoErrandIs, ErrandStagesApart DEF ErrandStages, StripeStages
<1> QED  BY <1>3, <1>4, <1>5, <1>6

(* A call about the Stripe account.                                          *)
LEMMA StripeSteps ==
    ASSUME MethodsInv, NEW c \in Tellers, NEW k \in Errands, errand' = [errand EXCEPT ![c] = k],
           UNCHANGED <<account, preferred, raced>>, StripeSide', opened \subseteq opened',
           k.at \notin {"found", "clearing"}, k.at \in StripeStages => k.ref \in opened'
    PROVE  MethodsInv'
<1>1. k.at \in {"found", "clearing"} => k.own \in Connected \cup {Free}
  OBVIOUS
<1>2. k.at = "clearing" => \A n \in Connected : n # k.own => n \in k.todo \cup k.held \cup k.missed
  OBVIOUS
<1> QED  BY <1>1, <1>2, ErrandMoves

LEMMA OnboardSteps ==
    ASSUME MethodsInv, NEW c \in Tellers,
           \/ Onboard(c) \/ CreateConnectAccount(c) \/ SetStripeAccount(c) \/ Refresh(c)
           \/ SetStripeStatus(c) \/ FindUserByAccount(c) \/ CountMethods(c) \/ Stops(c)
    PROVE  MethodsInv'
<1>0. /\ UNCHANGED <<account, preferred, raced>>
      /\ errand \in [Tellers -> Errands] /\ errand[c] \in Errands /\ ErrandKnows(errand[c]) /\ StripeSide
  BY DEF Onboard, CreateConnectAccount, SetStripeAccount, Refresh, SetStripeStatus, FindUserByAccount,
         CountMethods, Stops, MethodsInv
<1>1. RestUnchanged => StripeSide' /\ opened \subseteq opened'
  BY <1>0 DEF RestUnchanged, StripeSide
<1>2. CASE Onboard(c)
  <2>1. CASE user.id = Free
    <3> PICK aim \in {"player", "admin"} :
          errand' = [errand EXCEPT ![c] = [NoErrand EXCEPT !.at = "opening", !.goal = aim]]
      BY <1>2, <2>1 DEF Onboard, Begins
    <3> DEFINE k == [NoErrand EXCEPT !.at = "opening", !.goal = aim]
    <3>1. k \in Errands /\ k.at = "opening" /\ errand' = [errand EXCEPT ![c] = k]
      BY NoErrandIs DEF Errands, ErrandStages
    <3>2. RestUnchanged
      BY <1>2 DEF Onboard
    <3> HIDE DEF k
    <3> QED  BY <1>0, <1>1, <3>1, <3>2, StripeSteps DEF StripeStages
  <2>2. CASE user.id # Free
    <3> PICK aim \in {"player", "admin"} :
          errand' = [errand EXCEPT ![c] = [NoErrand EXCEPT !.at = "refreshing", !.ref = user.id, !.goal = aim]]
      BY <1>2, <2>2 DEF Onboard, Begins
    <3> DEFINE k == [NoErrand EXCEPT !.at = "refreshing", !.ref = user.id, !.goal = aim]
    <3>0. user.id \in opened /\ user.id \in StripeAccounts
      BY <1>0, <2>2 DEF StripeSide
    <3>1. k \in Errands /\ k.at = "refreshing" /\ k.ref = user.id /\ errand' = [errand EXCEPT ![c] = k]
      BY <3>0, NoErrandIs DEF Errands, ErrandStages
    <3>2. RestUnchanged
      BY <1>2 DEF Onboard
    <3> HIDE DEF k
    <3>3. k.ref \in opened'
      BY <3>0, <3>1, <3>2 DEF RestUnchanged
    <3>4. k.at \notin {"found", "clearing"}
      BY <3>1
    <3> QED  BY <1>0, <1>1, <3>1, <3>2, <3>3, <3>4, StripeSteps
  <2> QED  BY <2>1, <2>2
<1>3. CASE CreateConnectAccount(c)
  <2> PICK a \in StripeAccounts \ opened :
        /\ opened' = opened \cup {a} /\ errand' = [errand EXCEPT ![c].at = "recording", ![c].ref = a]
        /\ UNCHANGED <<user, mail, vouched>>
    BY <1>3 DEF CreateConnectAccount
  <2> DEFINE k == [errand[c] EXCEPT !.at = "recording", !.ref = a]
  <2>1. k \in Errands /\ k.at = "recording" /\ k.ref = a /\ errand' = [errand EXCEPT ![c] = k]
    BY <1>0 DEF Errands, ErrandStages
  <2>2. StripeSide'
    BY <1>0 DEF StripeSide
  <2> HIDE DEF k
  <2>3. k.ref \in opened' /\ opened \subseteq opened' /\ k.at \notin {"found", "clearing"}
    BY <2>1
  <2> QED  BY <1>0, <2>1, <2>2, <2>3, StripeSteps
<1>4. CASE SetStripeAccount(c)
  <2>0. /\ errand[c].at = "recording" /\ errand[c].ref \in opened
        /\ user' = [id |-> errand[c].ref, status |-> "PENDING"] /\ UNCHANGED <<opened, mail, vouched>>
    BY <1>0, <1>4 DEF SetStripeAccount, ErrandKnows, StripeStages
  <2> DEFINE k == IF errand[c].goal = "admin" THEN NoErrand ELSE [errand[c] EXCEPT !.at = "refreshing"]
  <2>1. errand' = [errand EXCEPT ![c] = k]
    BY <1>0, <1>4 DEF SetStripeAccount
  <2>2. k \in Errands /\ k.at \in {"refreshing", Free} /\ (k.at # Free => k.ref = errand[c].ref)
    BY <1>0, NoErrandIs DEF Errands, ErrandStages
  <2> HIDE DEF k
  <2>3. StripeSide'
    BY <1>0, <2>0 DEF StripeSide, Verdicts
  <2>4. k.at \notin {"found", "clearing"} /\ (k.at \in StripeStages => k.ref \in opened') /\ opened \subseteq opened'
    BY <2>0, <2>2, ErrandStagesApart DEF ErrandStages, StripeStages
  <2> QED  BY <1>0, <2>1, <2>2, <2>3, <2>4, StripeSteps
<1>5. CASE Refresh(c)
  <2>0. /\ errand[c].at = "refreshing" /\ errand[c].ref \in opened /\ RestUnchanged
        /\ user.status \in Verdicts \cup {"NOT_CONNECTED"}
    BY <1>0, <1>5 DEF Refresh, ErrandKnows, StripeStages, StripeSide
  <2> DEFINE k == [errand[c] EXCEPT !.at = "counting", !.status = user.status]
  <2>1. errand' = [errand EXCEPT ![c] = k]
    BY <1>0, <1>5 DEF Refresh
  <2>2. k \in Errands /\ k.at = "counting" /\ k.ref = errand[c].ref
    BY <1>0, <2>0 DEF Errands, ErrandStages
  <2> HIDE DEF k
  <2>3. k.at \notin {"found", "clearing"} /\ (k.at \in StripeStages => k.ref \in opened')
    BY <2>0, <2>2 DEF RestUnchanged
  <2> QED  BY <1>0, <1>1, <2>0, <2>1, <2>2, <2>3, StripeSteps
<1>6. CASE SetStripeStatus(c)
  <2> PICK e \in mail :
        /\ mail' = mail \ {e}
        /\ user' = IF user.id = e.id THEN [user EXCEPT !.status = e.status] ELSE user
        /\ errand' = [errand EXCEPT ![c] = [NoErrand EXCEPT !.at = "matching", !.ref = e.id, !.status = e.status]]
        /\ UNCHANGED <<opened, vouched>>
    BY <1>6 DEF SetStripeStatus, ForThisAccount, Begins
  <2>0. e.id \in opened /\ e.id \in StripeAccounts /\ e.status \in Verdicts
    BY <1>0 DEF StripeSide
  <2> DEFINE k == [NoErrand EXCEPT !.at = "matching", !.ref = e.id, !.status = e.status]
  <2>1. k \in Errands /\ k.at = "matching" /\ k.ref = e.id /\ errand' = [errand EXCEPT ![c] = k]
    BY <2>0, NoErrandIs DEF Errands, ErrandStages
  <2> HIDE DEF k
  <2>2. StripeSide'
    <3>1. CASE user.id = e.id
      <4>1. user' = [user EXCEPT !.status = e.status]
        BY <3>1
      <4> QED  BY <1>0, <2>0, <3>1, <4>1 DEF StripeSide
    <3>2. CASE user.id # e.id
      BY <1>0, <3>2 DEF StripeSide
    <3> QED  BY <3>1, <3>2
  <2>3. k.at \notin {"found", "clearing"} /\ k.ref \in opened' /\ opened \subseteq opened'
    BY <2>0, <2>1
  <2> QED  BY <1>0, <2>1, <2>2, <2>3, StripeSteps
<1>7. CASE FindUserByAccount(c)
  <2>0. errand[c].at = "matching" /\ errand[c].ref \in opened /\ RestUnchanged
    BY <1>0, <1>7 DEF FindUserByAccount, ErrandKnows, StripeStages
  <2> DEFINE k == IF user.id = errand[c].ref THEN [errand[c] EXCEPT !.at = "counting"] ELSE NoErrand
  <2>1. errand' = [errand EXCEPT ![c] = k]
    BY <1>0, <1>7 DEF FindUserByAccount
  <2>2. k \in Errands /\ k.at \in {"counting", Free} /\ (k.at # Free => k.ref = errand[c].ref)
    BY <1>0, NoErrandIs DEF Errands, ErrandStages
  <2> HIDE DEF k
  <2>3. k.at \notin {"found", "clearing"} /\ (k.at \in StripeStages => k.ref \in opened')
    BY <2>0, <2>2, ErrandStagesApart DEF ErrandStages, StripeStages, RestUnchanged
  <2> QED  BY <1>0, <1>1, <2>0, <2>1, <2>2, <2>3, StripeSteps
<1>8. CASE CountMethods(c)
  <2>0. errand[c].at = "counting" /\ errand[c].ref \in opened /\ RestUnchanged
    BY <1>0, <1>8 DEF CountMethods, ErrandKnows, StripeStages
  <2> DEFINE k == [errand[c] EXCEPT !.at = "syncing", !.first = (Connected = {})]
  <2>1. errand' = [errand EXCEPT ![c] = k]
    BY <1>0, <1>8 DEF CountMethods
  <2>2. k \in Errands /\ k.at = "syncing" /\ k.ref = errand[c].ref
    BY <1>0 DEF Errands, ErrandStages
  <2> HIDE DEF k
  <2>3. k.at \notin {"found", "clearing"} /\ (k.at \in StripeStages => k.ref \in opened')
    BY <2>0, <2>2 DEF RestUnchanged
  <2> QED  BY <1>0, <1>1, <2>0, <2>1, <2>2, <2>3, StripeSteps
<1>9. CASE Stops(c)
  <2>1. errand' = [errand EXCEPT ![c] = NoErrand] /\ RestUnchanged
    BY <1>9 DEF Stops, Ends
  <2> QED  BY <1>0, <1>1, <2>1, StripeSteps, NoErrandIs, ErrandStagesApart DEF ErrandStages, StripeStages
<1> QED  BY <1>2, <1>3, <1>4, <1>5, <1>6, <1>7, <1>8, <1>9

LEMMA MethodsUnchanged ==
    ASSUME MethodsInv, UNCHANGED methodVars
    PROVE  MethodsInv'
<1>1. Connected' = Connected
  BY DEF methodVars, Connected
<1>2. StripeSide' /\ OneIsPreferred'
  BY DEF methodVars, MethodsInv, StripeSide, OneIsPreferred
<1>3. \A c \in Tellers : ErrandKnows(errand[c])'
  BY <1>1 DEF methodVars, MethodsInv, ErrandKnows
<1> QED  BY <1>2, <1>3 DEF methodVars, MethodsInv

LEMMA MethodsStep == MethodsInv /\ [MethodsNext]_methodVars => MethodsInv'
<1> SUFFICES ASSUME MethodsInv, [MethodsNext]_methodVars PROVE MethodsInv'
  OBVIOUS
<1>1. CASE Connect \/ SetVerified \/ Disconnect \/ Verdict
  BY <1>1, ConnectStep, SetVerifiedStep, DisconnectStep, VerdictStep
<1>2. ASSUME NEW c \in Tellers, ErrandStep(c) PROVE MethodsInv'
  BY <1>2, DefaultSteps, OnboardSteps, MakeDefaultStep, SyncStep DEF ErrandStep
<1>3. CASE UNCHANGED methodVars
  BY <1>3, MethodsUnchanged
<1> QED  BY <1>1, <1>2, <1>3 DEF MethodsNext

(* What is known of the accounts holds after every step.                     *)
THEOREM MethodsInvariance == MethodsSpec => []MethodsInv
  BY MethodsInitially, MethodsStep, PTL DEF MethodsSpec

(* However calls to setDefault, connections, onboardings and their           *)
(* transactions' row locks interleave, the account last made the default is  *)
(* the only default (payout-methods.repository.ts setDefault).               *)
THEOREM OneDefaultAlways == MethodsSpec => []OneDefault
<1>1. MethodsInv => OneDefault
  <2> SUFFICES ASSUME MethodsInv PROVE OneDefault
    OBVIOUS
  <2>1. MethodsTypeOK
    BY DEF MethodsInv, MethodsTypeOK, AccountRows, StripeSide
  <2>2. ASSUME ~raced PROVE {m \in Methods : account[m].default} = {preferred} \ {Free}
    <3>1. \A m \in Methods : account[m].default => m = preferred /\ m # Free
      BY <2>2, ErrandStagesApart DEF MethodsInv, OneIsPreferred
    <3>2. preferred # Free => preferred \in Methods /\ account[preferred].default
      BY DEF MethodsInv, OneIsPreferred
    <3> QED  BY <3>1, <3>2
  <2> QED  BY <2>1, <2>2 DEF OneDefault
<1> QED  BY <1>1, MethodsInvariance, PTL

(* A withdrawal goes only to an account of which Stripe has said that it may *)
(* be paid, in whatever order onboardings and account.updated webhooks enter *)
(* their accounts and verdicts (payouts.service.ts, webhooks.service.ts).    *)
THEOREM PaidAccountsAreVerified == MethodsSpec => []PaidWhereVerified
<1>1. MethodsInv => PaidWhereVerified
  BY DEF MethodsInv, StripeSide, PaidWhereVerified, Payable
<1> QED  BY <1>1, MethodsInvariance, PTL

-----------------------------------------------------------------------------
(* The ledger: a row, an entry to be written, a transaction in progress and   *)
(* the script, each as a set of records.                                     *)
Refs == {e.ref : e \in BatchEntries} \cup DOMAIN FeeOf \cup {Free, "opening"}
LedgerRows == [user : Holders, ref : Refs, amount : Int, after : Int, before : Int]
TodoEntries == BatchEntries \cup [user : Holders, amount : Int, ref : {Free}]
Balances == UNION {[D -> Int] : D \in SUBSET Holders}
ClerkRecords == [todo : Seq(TodoEntries), view : Balances, wrote : [Holders -> Seq(LedgerRows)],
                 updated : BOOLEAN, on : BOOLEAN]
ScriptRecords == [at : {Free, "next", "examined", "reckoned"}, seen : Balances, left : SUBSET Holders,
                  user : Holders \cup {Free}, fees : Seq(DOMAIN FeeOf)]

(* The rows s lead from one balance to the other without a gap.              *)
Chain(s, from, to) ==
    /\ \A i \in DOMAIN s : /\ s[i].before = IF i = 1 THEN from ELSE s[i - 1].after
                           /\ s[i].after = s[i].before + s[i].amount
    /\ to = IF s = <<>> THEN from ELSE s[Len(s)].after

(* What a transaction has done to a row it has locked and not yet told.      *)
Untold(k, u) == IF k.updated /\ Head(k.todo).user = u THEN Head(k.todo).amount ELSE 0

LedgerTables ==
    /\ wallet \in [Holders -> Int \cup {Free}] /\ adjustments \in 0 .. MaxAdjustments
    /\ rows \in [Holders -> Seq(LedgerRows)] /\ opening \in [Holders -> Int]
    /\ clerk \in [Clerks -> ClerkRecords] /\ script \in ScriptRecords

(* The ledger of every account leads from its opening balance to the column, *)
(* which is never overdrawn; who has no account has no rows.                 *)
BooksInOrder ==
    /\ \A u \in Users : Chain(rows[u], opening[u], wallet[u]) /\ wallet[u] >= 0
    /\ \A u \in Holders \ Users : rows[u] = <<>>

(* A transaction: the rows it locked are accounts, and no other's; what it   *)
(* has written of each leads from the committed balance to the one it sees,  *)
(* but for the entry whose row it is still to insert.                        *)
ClerkFits(k) ==
    /\ \A i \in DOMAIN k.todo : k.todo[i].user \in Users
    /\ k.updated => k.todo # <<>> /\ Head(k.todo).user \in DOMAIN k.view
    /\ \A u \in DOMAIN k.view : /\ u \in Users /\ k.view[u] >= 0
                                /\ Chain(k.wrote[u], wallet[u], k.view[u] - Untold(k, u))
    /\ \A u \in Holders \ DOMAIN k.view : k.wrote[u] = <<>>
ClerksFit ==
    /\ \A c \in Clerks : ClerkFits(clerk[c])
    /\ \A c, d \in Clerks : c # d => DOMAIN clerk[c].view \cap DOMAIN clerk[d].view = {}

(* What the script has read of an account that has no rows is still so.      *)
ScriptKnows ==
    /\ script.at # Free => \A u \in script.left :
           /\ u \in Users /\ u \in DOMAIN script.seen
           /\ rows[u] = <<>> => script.seen[u] = opening[u]
    /\ script.at \in {"examined", "reckoned"} =>
           /\ script.user \in Users \ script.left /\ script.user \in DOMAIN script.seen
           /\ script.seen[script.user] = opening[script.user]

LedgerInv == LedgerTables /\ BooksInOrder /\ ClerksFit /\ ScriptKnows

-----------------------------------------------------------------------------
LEMMA LedgerConstants ==
    /\ Free \notin Int /\ Free # "next" /\ Free # "examined" /\ Free # "reckoned"
    /\ \A e \in TodoEntries : e.user \in Holders /\ e.amount \in Int /\ e.ref \in Refs
    /\ Openings \subseteq Nat /\ MaxAdjustments \in Nat /\ Adjustments \subseteq Int
    /\ Batches \subseteq Seq(TodoEntries)
<1>1. \A e \in BatchEntries : e.user \in Holders /\ e.amount \in Int /\ e.ref \in Refs
  BY LedgerAssumption DEF Refs
<1>2. \A e \in [user : Holders, amount : Int, ref : {Free}] : e.user \in Holders /\ e.amount \in Int /\ e.ref \in Refs
  BY DEF Refs
<1>3. Seq(BatchEntries) \subseteq Seq(TodoEntries)
  BY DEF TodoEntries
<1> QED  BY <1>1, <1>2, <1>3, LedgerAssumption DEF TodoEntries

(* Chains.                                                                   *)
LEMMA ChainOfNone == ASSUME NEW b PROVE Chain(<<>>, b, b)
  BY DEF Chain

LEMMA ChainGrows ==
    ASSUME NEW s \in Seq(LedgerRows), NEW r \in LedgerRows, NEW b, NEW t,
           Chain(s, b, t), r.before = t, r.after = r.before + r.amount
    PROVE  Append(s, r) \in Seq(LedgerRows) /\ Chain(Append(s, r), b, r.after)
<1> DEFINE a == Append(s, r)
<1>1. /\ a \in Seq(LedgerRows) /\ Len(a) = Len(s) + 1 /\ a # <<>> /\ Len(s) \in Nat
      /\ \A i \in 1 .. Len(s) : a[i] = s[i]
      /\ a[Len(s) + 1] = r /\ DOMAIN a = 1 .. Len(s) + 1 /\ DOMAIN s = 1 .. Len(s)
      /\ s = <<>> <=> Len(s) = 0
  OBVIOUS
<1> HIDE DEF a
<1>2. ASSUME NEW i \in DOMAIN a
      PROVE  a[i].before = (IF i = 1 THEN b ELSE a[i - 1].after) /\ a[i].after = a[i].before + a[i].amount
  <2>1. CASE i \in 1 .. Len(s)
    <3>1. a[i] = s[i] /\ (i # 1 => a[i - 1] = s[i - 1])
      BY <1>1, <2>1
    <3> QED  BY <1>1, <2>1, <3>1 DEF Chain
  <2>2. CASE i = Len(s) + 1
    <3>1. a[i] = r
      BY <1>1, <2>2
    <3>2. CASE Len(s) = 0
      <4>1. i = 1 /\ t = b
        BY <1>1, <2>2, <3>2 DEF Chain
      <4> QED  BY <3>1, <4>1
    <3>3. CASE Len(s) # 0
      <4>1. i # 1 /\ a[i - 1] = s[Len(s)] /\ t = s[Len(s)].after
        BY <1>1, <2>2, <3>3 DEF Chain
      <4> QED  BY <3>1, <4>1
    <3> QED  BY <3>2, <3>3
  <2> QED  BY <1>1, <2>1, <2>2
<1>3. r.after = IF a = <<>> THEN b ELSE a[Len(a)].after
  BY <1>1
<1>4. Chain(a, b, r.after)
  BY <1>2, <1>3 DEF Chain
<1> QED  BY <1>1, <1>4 DEF a

LEMMA ChainsJoin ==
    ASSUME NEW s \in Seq(LedgerRows), NEW t \in Seq(LedgerRows), NEW b, NEW m, NEW e,
           Chain(s, b, m), Chain(t, m, e)
    PROVE  s \o t \in Seq(LedgerRows) /\ Chain(s \o t, b, e)
<1> DEFINE a == s \o t
<1>1. /\ a \in Seq(LedgerRows) /\ Len(a) = Len(s) + Len(t) /\ Len(s) \in Nat /\ Len(t) \in Nat
      /\ \A i \in 1 .. Len(s) : a[i] = s[i]
      /\ \A i \in 1 .. Len(t) : a[Len(s) + i] = t[i]
      /\ DOMAIN a = 1 .. Len(s) + Len(t) /\ DOMAIN s = 1 .. Len(s) /\ DOMAIN t = 1 .. Len(t)
      /\ s = <<>> <=> Len(s) = 0
      /\ t = <<>> <=> Len(t) = 0
      /\ a = <<>> <=> Len(s) + Len(t) = 0
  OBVIOUS
<1> HIDE DEF a
<1>2. \A j \in 1 .. Len(s) + Len(t) : j \notin 1 .. Len(s) => j - Len(s) \in 1 .. Len(t) /\ a[j] = t[j - Len(s)]
  <2> SUFFICES ASSUME NEW j \in 1 .. Len(s) + Len(t), j \notin 1 .. Len(s)
               PROVE  j - Len(s) \in 1 .. Len(t) /\ a[j] = t[j - Len(s)]
    OBVIOUS
  <2>1. j - Len(s) \in 1 .. Len(t) /\ j = Len(s) + (j - Len(s))
    BY <1>1
  <2> QED  BY <1>1, <2>1
<1>3. m = IF Len(s) = 0 THEN b ELSE s[Len(s)].after
  BY <1>1 DEF Chain
<1>4. ASSUME NEW i \in DOMAIN a
      PROVE  a[i].before = (IF i = 1 THEN b ELSE a[i - 1].after) /\ a[i].after = a[i].before + a[i].amount
  <2>1. CASE i \in 1 .. Len(s)
    <3>1. a[i] = s[i] /\ (i # 1 => a[i - 1] = s[i - 1])
      BY <1>1, <2>1
    <3> QED  BY <1>1, <2>1, <3>1 DEF Chain
  <2>2. CASE i \notin 1 .. Len(s)
    <3> DEFINE j == i - Len(s)
    <3>1. j \in 1 .. Len(t) /\ a[i] = t[j] /\ i = Len(s) + j
      BY <1>1, <1>2, <2>2
    <3> HIDE DEF j
    <3>2. t[j].before = (IF j = 1 THEN m ELSE t[j - 1].after) /\ t[j].after = t[j].before + t[j].amount
      BY <1>1, <3>1 DEF Chain
    <3>3. CASE j # 1
      <4>1. j - 1 \in 1 .. Len(t) /\ i - 1 = Len(s) + (j - 1) /\ i # 1
        BY <1>1, <3>1, <3>3
      <4>2. a[i - 1] = t[j - 1]
        BY <1>1, <4>1
      <4> QED  BY <3>1, <3>2, <3>3, <4>1, <4>2
    <3>4. CASE j = 1 /\ Len(s) = 0
      BY <1>1, <1>3, <3>1, <3>2, <3>4
    <3>5. CASE j = 1 /\ Len(s) # 0
      <4>1. i # 1 /\ i - 1 = Len(s) /\ i - 1 \in 1 .. Len(s)
        BY <1>1, <3>1, <3>5
      <4>2. a[i - 1] = s[Len(s)]
        BY <1>1, <4>1
      <4> QED  BY <1>3, <3>1, <3>2, <3>5, <4>1, <4>2
    <3> QED  BY <3>3, <3>4, <3>5
  <2> QED  BY <2>1, <2>2
<1>5. e = IF a = <<>> THEN b ELSE a[Len(a)].after
  <2>1. CASE Len(t) = 0
    <3>1. e = m
      BY <1>1, <2>1 DEF Chain
    <3>2. CASE Len(s) = 0
      BY <1>1, <1>3, <2>1, <3>1, <3>2
    <3>3. CASE Len(s) # 0
      <4>1. Len(a) = Len(s) /\ Len(s) \in 1 .. Len(s) /\ a # <<>>
        BY <1>1, <2>1, <3>3
      <4> QED  BY <1>1, <1>3, <3>1, <3>3, <4>1
    <3> QED  BY <3>2, <3>3
  <2>2. CASE Len(t) # 0
    <3>1. e = t[Len(t)].after
      BY <1>1, <2>2 DEF Chain
    <3>2. Len(t) \in 1 .. Len(t) /\ Len(a) = Len(s) + Len(t) /\ a # <<>>
      BY <1>1, <2>2
    <3> QED  BY <1>1, <3>1, <3>2
  <2> QED  BY <2>1, <2>2
<1>6. Chain(a, b, e)
  BY <1>4, <1>5 DEF Chain
<1> QED  BY <1>1, <1>6 DEF a

(* The rows the script writes lead from nothing to what it had read.          *)
LEMMA ReconciledIs ==
    ASSUME NEW u \in Holders, NEW fees \in Seq(DOMAIN FeeOf), NEW amount \in Int
    PROVE  Reconciled(u, fees, amount) \in Seq(LedgerRows) /\ Chain(Reconciled(u, fees, amount), 0, amount)
<1> DEFINE first == amount + Len(fees)
           head == [user |-> u, ref |-> "opening", amount |-> first, before |-> 0, after |-> 0 + first]
           opens == IF first = 0 THEN <<>> ELSE <<head>>
           told == [i \in 1 .. Len(fees) |->
                      [user |-> u, ref |-> fees[i], amount |-> -1, before |-> first + 1 - i, after |-> first + 1 - i + -1]]
<1>0. first \in Int /\ Len(fees) \in Nat /\ first = amount + Len(fees)
  OBVIOUS
<1>1. Reconciled(u, fees, amount) = opens \o told
  BY DEF Reconciled
<1> HIDE DEF first
<1>2. head \in LedgerRows /\ head.before = 0 /\ head.after = first /\ head.amount = first
  BY <1>0 DEF LedgerRows, Refs
<1> HIDE DEF head
<1>3. opens \in Seq(LedgerRows) /\ Chain(opens, 0, first)
  <2>1. CASE first = 0
    BY <2>1, ChainOfNone
  <2>2. CASE first # 0
    <3>1. opens = <<head>> /\ <<head>> \in Seq(LedgerRows)
      BY <1>2, <2>2
    <3>2. Chain(<<head>>, 0, first)
      BY <1>0, <1>2 DEF Chain
    <3> QED  BY <3>1, <3>2
  <2> QED  BY <2>1, <2>2
<1>4. told \in Seq(LedgerRows) /\ Len(told) = Len(fees) /\ DOMAIN told = 1 .. Len(fees)
  <2>1. ASSUME NEW i \in 1 .. Len(fees)
        PROVE  [user |-> u, ref |-> fees[i], amount |-> -1, before |-> first + 1 - i, after |-> first + 1 - i + -1] \in LedgerRows
    BY <1>0 DEF LedgerRows, Refs
  <2>2. told \in [1 .. Len(fees) -> LedgerRows] /\ DOMAIN told = 1 .. Len(fees)
    BY <2>1
  <2> HIDE DEF told
  <2>3. told \in Seq(LedgerRows)
    BY <1>0, <2>2, SeqDef
  <2> QED  BY <1>0, <2>2, <2>3, LenProperties
<1>5. \A i \in 1 .. Len(fees) : /\ told[i].before = first + 1 - i /\ told[i].after = first + 1 - i + -1
                               /\ told[i].amount = -1
  OBVIOUS
<1> HIDE DEF told, opens
<1>6. Chain(told, first, amount)
  <2>1. ASSUME NEW i \in DOMAIN told
        PROVE  told[i].before = (IF i = 1 THEN first ELSE told[i - 1].after) /\ told[i].after = told[i].before + told[i].amount
    <3>1. i \in 1 .. Len(fees) /\ (i # 1 => i - 1 \in 1 .. Len(fees))
      BY <1>0, <1>4
    <3>2. i # 1 => told[i - 1].after = first + 1 - (i - 1) + -1
      BY <1>5, <3>1
    <3> QED  BY <1>0, <1>5, <3>1, <3>2
  <2>2. amount = IF told = <<>> THEN first ELSE told[Len(told)].after
    <3>1. CASE Len(fees) = 0
      <4>1. told = <<>>
        BY <1>4, <3>1
      <4> QED  BY <1>0, <3>1, <4>1
    <3>2. CASE Len(fees) # 0
      <4>1. told # <<>> /\ Len(fees) \in 1 .. Len(fees)
        BY <1>0, <1>4, <3>2
      <4> QED  BY <1>0, <1>4, <1>5, <4>1
    <3> QED  BY <3>1, <3>2
  <2> QED  BY <2>1, <2>2 DEF Chain
<1> QED  BY <1>1, <1>3, <1>4, <1>6, ChainsJoin
-----------------------------------------------------------------------------
(* A transaction at rest.                                                    *)
LEMMA IdleIs == /\ Idle \in ClerkRecords /\ ClerkFits(Idle) /\ DOMAIN Idle.view = {}
                /\ ~Idle.updated
<1>1. <<>> \in [{} -> Int] /\ DOMAIN <<>> = {}
  OBVIOUS
<1>2. <<>> \in Balances
  BY <1>1 DEF Balances
<1>3. Idle \in ClerkRecords
  BY <1>2 DEF Idle, ClerkRecords
<1>4. /\ Idle.todo = <<>> /\ Idle.view = <<>> /\ ~Idle.updated
      /\ \A u \in Holders : Idle.wrote[u] = <<>>
  BY DEF Idle
<1> QED  BY <1>1, <1>3, <1>4 DEF ClerkFits

LEMMA RestingIs == /\ Resting \in ScriptRecords /\ Resting.at = Free /\ Resting.left = {}
<1>1. <<>> \in [{} -> Int]
  OBVIOUS
<1>2. <<>> \in Balances
  BY <1>1 DEF Balances
<1> QED  BY <1>2 DEF Resting, ScriptRecords

LEMMA LedgerInitially == LedgerInit => LedgerInv
<1> SUFFICES ASSUME LedgerInit PROVE LedgerInv
  OBVIOUS
<1>1. opening \in [Holders -> Int] /\ \A u \in Holders : opening[u] >= 0
  <2>1. opening \in [Holders -> Openings]
    BY DEF LedgerInit
  <2>2. ASSUME NEW u \in Holders PROVE opening[u] \in Int /\ opening[u] >= 0
    <3>1. opening[u] \in Nat
      BY <2>1, LedgerConstants
    <3> QED  BY <3>1
  <2> QED  BY <2>1, <2>2
<1>2. LedgerTables
  <2>1. clerk \in [Clerks -> ClerkRecords]
    BY IdleIs DEF LedgerInit
  <2>2. wallet \in [Holders -> Int \cup {Free}] /\ rows \in [Holders -> Seq(LedgerRows)]
    BY <1>1 DEF LedgerInit
  <2> QED  BY <1>1, <2>1, <2>2, RestingIs, LedgerConstants DEF LedgerInit, LedgerTables
<1>3. BooksInOrder
  <2>1. \A u \in Users : wallet[u] = opening[u] /\ rows[u] = <<>>
    BY DEF LedgerInit, Users
  <2>2. Users \subseteq Holders
    BY DEF Users
  <2> QED  BY <1>1, <2>1, <2>2, ChainOfNone DEF LedgerInit, BooksInOrder
<1>4. ClerksFit
  BY IdleIs DEF LedgerInit, ClerksFit
<1>5. ScriptKnows
  BY RestingIs, LedgerConstants DEF LedgerInit, ScriptKnows
<1> QED  BY <1>2, <1>3, <1>4, <1>5 DEF LedgerInv

(* One transaction goes on or ends; nothing is committed.                    *)
LEMMA ClerkMoves ==
    ASSUME LedgerInv, NEW c \in Clerks, NEW k \in ClerkRecords, ClerkFits(k),
           clerk' = [clerk EXCEPT ![c] = k],
           \A d \in Clerks \ {c} : DOMAIN k.view \cap DOMAIN clerk[d].view = {},
           UNCHANGED <<wallet, rows, script, opening>>, adjustments' \in 0 .. MaxAdjustments
    PROVE  LedgerInv'
<1>1. /\ clerk' \in [Clerks -> ClerkRecords]
      /\ \A d \in Clerks : clerk'[d] = IF d = c THEN k ELSE clerk[d]
  BY DEF LedgerInv, LedgerTables
<1>2. Users' = Users
  BY DEF Users
<1>3. LedgerTables'
  BY <1>1 DEF LedgerInv, LedgerTables
<1>4. BooksInOrder' /\ ScriptKnows'
  BY <1>2 DEF LedgerInv, BooksInOrder, ScriptKnows, Chain
<1>5. ASSUME NEW d \in Clerks PROVE ClerkFits(clerk[d])'
  <2>1. CASE d = c
    BY <1>1, <1>2, <2>1 DEF ClerkFits, Chain, Untold
  <2>2. CASE d # c
    <3>1. ClerkFits(clerk[d]) /\ clerk'[d] = clerk[d]
      BY <1>1, <2>2 DEF LedgerInv, ClerksFit
    <3> QED  BY <1>2, <3>1 DEF ClerkFits, Chain, Untold
  <2> QED  BY <2>1, <2>2
<1>6. \A d, e \in Clerks : d # e => DOMAIN clerk'[d].view \cap DOMAIN clerk'[e].view = {}
  BY <1>1 DEF LedgerInv, ClerksFit
<1> QED  BY <1>3, <1>4, <1>5, <1>6 DEF LedgerInv, ClerksFit

LEMMA RollbackSteps ==
    ASSUME LedgerInv, NEW c \in Clerks, Insufficient(c) \/ Duplicate(c) \/ Lost(c) \/ BrokenCycle(c)
    PROVE  LedgerInv'
<1>1. Rollback(c)
  BY DEF Insufficient, Duplicate, Lost, BrokenCycle
<1>2. adjustments' \in 0 .. MaxAdjustments
  BY <1>1 DEF Rollback, LedgerInv, LedgerTables
<1> QED  BY <1>1, <1>2, IdleIs, ClerkMoves DEF Rollback

LEMMA BeginsStep ==
    ASSUME LedgerInv, NEW c \in Clerks, RecordMany(c) \/ AdjustBalance(c)
    PROVE  LedgerInv'
<1>1. ASSUME NEW entries \in Seq(TodoEntries), \A i \in DOMAIN entries : entries[i].user \in Users,
             clerk' = [clerk EXCEPT ![c] = [Idle EXCEPT !.on = TRUE, !.todo = entries]],
             UNCHANGED <<wallet, rows, script, opening>>, adjustments' \in 0 .. MaxAdjustments
      PROVE  LedgerInv'
  <2> DEFINE k == [Idle EXCEPT !.on = TRUE, !.todo = entries]
  <2>1. /\ k \in ClerkRecords /\ k.todo = entries /\ k.view = Idle.view /\ k.wrote = Idle.wrote
        /\ k.updated = Idle.updated
    BY IdleIs DEF ClerkRecords
  <2>2. clerk' = [clerk EXCEPT ![c] = k]
    BY <1>1
  <2> HIDE DEF k
  <2>3. ClerkFits(k)
    BY <1>1, <2>1, IdleIs DEF ClerkFits
  <2>4. \A d \in Clerks \ {c} : DOMAIN k.view \cap DOMAIN clerk[d].view = {}
    BY <2>1, IdleIs
  <2> QED  BY <1>1, <2>1, <2>2, <2>3, <2>4, ClerkMoves
<1>2. CASE RecordMany(c)
  <2> PICK batch \in Batches :
        /\ \A i \in DOMAIN batch : batch[i].user \in Users
        /\ clerk' = [clerk EXCEPT ![c] = [Idle EXCEPT !.on = TRUE, !.todo = batch]]
        /\ UNCHANGED <<wallet, rows, script, adjustments, opening>>
    BY <1>2 DEF RecordMany
  <2>1. batch \in Seq(TodoEntries) /\ adjustments' \in 0 .. MaxAdjustments
    BY LedgerConstants DEF LedgerInv, LedgerTables
  <2> QED  BY <1>1, <2>1
<1>3. CASE AdjustBalance(c)
  <2> PICK u \in Users, amount \in Adjustments :
        /\ adjustments < MaxAdjustments
        /\ clerk' = [clerk EXCEPT ![c] = [Idle EXCEPT !.on = TRUE, !.todo = <<[user |-> u, amount |-> amount, ref |-> Free]>>]]
        /\ adjustments' = adjustments + 1 /\ UNCHANGED <<wallet, rows, script, opening>>
    BY <1>3 DEF AdjustBalance
  <2> DEFINE e == [user |-> u, amount |-> amount, ref |-> Free]
  <2>1. e \in TodoEntries /\ e.user = u
    BY LedgerConstants DEF TodoEntries, Users
  <2>2. clerk' = [clerk EXCEPT ![c] = [Idle EXCEPT !.on = TRUE, !.todo = <<e>>]]
    OBVIOUS
  <2> HIDE DEF e
  <2>3. <<e>> \in Seq(TodoEntries) /\ \A i \in DOMAIN <<e>> : <<e>>[i].user \in Users
    BY <2>1
  <2>4. adjustments' \in 0 .. MaxAdjustments
    BY LedgerConstants DEF LedgerInv, LedgerTables
  <2> QED  BY <1>1, <2>2, <2>3, <2>4
<1> QED  BY <1>2, <1>3

(* The entry to be written next.                                             *)
LEMMA NextEntry ==
    ASSUME LedgerInv, NEW c \in Clerks, clerk[c].todo # <<>>
    PROVE  /\ clerk[c] \in ClerkRecords /\ ClerkFits(clerk[c])
           /\ Entry(c) \in TodoEntries /\ Entry(c) = Head(clerk[c].todo)
           /\ Entry(c).user \in Users /\ Entry(c).user \in Holders
           /\ Entry(c).amount \in Int /\ Entry(c).ref \in Refs
<1>1. clerk[c] \in ClerkRecords /\ ClerkFits(clerk[c])
  BY DEF LedgerInv, LedgerTables, ClerksFit
<1>2. clerk[c].todo \in Seq(TodoEntries)
  BY <1>1 DEF ClerkRecords
<1> DEFINE t == clerk[c].todo
<1>3. t \in Seq(TodoEntries) /\ t # <<>>
  BY <1>2
<1>4. \A i \in DOMAIN t : t[i].user \in Users
  BY <1>1 DEF ClerkFits
<1> HIDE DEF t
<1>5. 1 \in DOMAIN t /\ Head(t) = t[1] /\ Head(t) \in TodoEntries
  BY <1>3
<1>6. Head(t).user \in Users
  BY <1>4, <1>5
<1> QED  BY <1>1, <1>5, <1>6, LedgerConstants DEF t, Entry

(* A function on accounts is a function of balances.                         *)
LEMMA BalancesAre ==
    /\ \A f \in Balances : DOMAIN f \subseteq Holders /\ f \in [DOMAIN f -> Int]
    /\ \A D \in SUBSET Holders : [D -> Int] \subseteq Balances
  BY DEF Balances

LEMMA UpdateStep ==
    ASSUME LedgerInv, NEW c \in Clerks, UpdateBalance(c)
    PROVE  LedgerInv'
<1> DEFINE q == clerk[c]
           e == Entry(c)
           D == DOMAIN q.view \cup {e.user}
           seen == [u \in D |-> IF u = e.user THEN Sees(c, u) + e.amount ELSE q.view[u]]
           k == [q EXCEPT !.updated = TRUE, !.view = seen]
<1>1. /\ q.todo # <<>> /\ ~q.updated /\ Locker(c, e.user) = {} /\ Recordable(Sees(c, e.user), e.amount)
      /\ clerk' = [clerk EXCEPT ![c] = k] /\ UNCHANGED <<wallet, rows, script, adjustments, opening>>
  BY DEF UpdateBalance, LedgerInv, LedgerTables
<1>2. /\ q \in ClerkRecords /\ ClerkFits(q) /\ e = Head(q.todo) /\ e.user \in Users /\ e.user \in Holders
      /\ e.amount \in Int
  BY <1>1, NextEntry
<1>3. q.view \in Balances /\ DOMAIN q.view \subseteq Holders /\ \A u \in DOMAIN q.view : q.view[u] \in Int
  BY <1>2, BalancesAre DEF ClerkRecords
<1>4. wallet[e.user] \in Int
  BY <1>2 DEF LedgerInv, LedgerTables, Users
<1>5. Sees(c, e.user) \in Int /\ Sees(c, e.user) + e.amount >= 0
  <2>1. Sees(c, e.user) \in Int
    BY <1>3, <1>4 DEF Sees
  <2> QED  BY <1>1, <1>2, <2>1 DEF Recordable, Floor
<1> HIDE DEF e
<1>6. /\ DOMAIN seen = D /\ seen \in [D -> Int] /\ D \subseteq Holders
      /\ seen[e.user] = Sees(c, e.user) + e.amount
      /\ \A u \in D : u # e.user => seen[u] = q.view[u] /\ u \in DOMAIN q.view
  BY <1>2, <1>3, <1>5
<1>7. seen \in Balances
  BY <1>6, BalancesAre
<1> HIDE DEF seen, D
<1>8. /\ k \in ClerkRecords /\ k.view = seen /\ k.updated = TRUE /\ k.todo = q.todo /\ k.wrote = q.wrote
  BY <1>2, <1>7 DEF ClerkRecords
<1> HIDE DEF k
<1>9. ASSUME NEW u \in D
      PROVE  /\ u \in Users /\ seen[u] >= 0 /\ Chain(q.wrote[u], wallet[u], seen[u] - Untold(k, u))
  <2>1. CASE u = e.user
    <3>1. Untold(k, u) = e.amount /\ seen[u] - e.amount = Sees(c, u)
      BY <1>2, <1>5, <1>6, <1>8, <2>1 DEF Untold
    <3>2. Chain(q.wrote[u], wallet[u], Sees(c, u))
      <4>1. CASE u \in DOMAIN q.view
        <5>1. Untold(q, u) = 0 /\ Sees(c, u) = q.view[u] /\ q.view[u] - 0 = q.view[u]
          BY <1>1, <1>3, <4>1 DEF Untold, Sees
        <5> QED  BY <1>2, <4>1, <5>1 DEF ClerkFits
      <4>2. CASE u \notin DOMAIN q.view
        <5>1. q.wrote[u] = <<>> /\ Sees(c, u) = wallet[u]
          BY <1>2, <2>1, <4>2 DEF ClerkFits, Sees
        <5> QED  BY <5>1, ChainOfNone
      <4> QED  BY <4>1, <4>2
    <3> QED  BY <1>2, <1>5, <1>6, <2>1, <3>1, <3>2
  <2>2. CASE u # e.user
    <3>1. Untold(k, u) = 0 /\ Untold(q, u) = 0
      BY <1>1, <1>2, <1>8, <2>2 DEF Untold
    <3>2. seen[u] = q.view[u] /\ u \in DOMAIN q.view
      BY <1>6, <2>2
    <3> QED  BY <1>2, <3>1, <3>2 DEF ClerkFits
  <2> QED  BY <2>1, <2>2
<1>10. ClerkFits(k)
  <2>1. \A i \in DOMAIN k.todo : k.todo[i].user \in Users
    BY <1>2, <1>8 DEF ClerkFits
  <2>2. k.todo # <<>> /\ Head(k.todo).user \in DOMAIN k.view
    BY <1>1, <1>2, <1>6, <1>8 DEF D
  <2>3. \A u \in Holders \ DOMAIN k.view : k.wrote[u] = <<>>
    BY <1>2, <1>6, <1>8 DEF ClerkFits, D
  <2> QED  BY <1>6, <1>8, <1>9, <2>1, <2>2, <2>3 DEF ClerkFits
<1>11. ASSUME NEW d \in Clerks \ {c} PROVE DOMAIN k.view \cap DOMAIN clerk[d].view = {}
  <2>1. e.user \notin DOMAIN clerk[d].view
    BY <1>1 DEF Locker
  <2>2. DOMAIN q.view \cap DOMAIN clerk[d].view = {}
    BY DEF LedgerInv, ClerksFit
  <2> QED  BY <1>6, <1>8, <2>1, <2>2 DEF D
<1>12. adjustments' \in 0 .. MaxAdjustments
  BY <1>1 DEF LedgerInv, LedgerTables
<1> QED  BY <1>1, <1>8, <1>10, <1>11, <1>12, ClerkMoves

LEMMA InsertStep ==
    ASSUME LedgerInv, NEW c \in Clerks, InsertRow(c)
    PROVE  LedgerInv'
<1> DEFINE q == clerk[c]
           e == Entry(c)
           r == [user |-> e.user, ref |-> e.ref, amount |-> e.amount, after |-> q.view[e.user],
                 before |-> q.view[e.user] - e.amount]
           told == [q.wrote EXCEPT ![e.user] = Append(@, r)]
           k == [q EXCEPT !.updated = FALSE, !.todo = Tail(@), !.wrote = told]
<1>0. q \in ClerkRecords /\ ClerkFits(q)
  BY DEF LedgerInv, LedgerTables, ClerksFit
<1>1. /\ q.updated /\ q.todo # <<>>
      /\ clerk' = [clerk EXCEPT ![c].updated = FALSE, ![c].todo = Tail(@), ![c].wrote[e.user] = Append(@, r)]
      /\ UNCHANGED <<wallet, rows, script, adjustments, opening>>
  BY <1>0 DEF InsertRow, ClerkFits
<1>2. /\ e = Head(q.todo) /\ e.user \in Users /\ e.user \in Holders /\ e.amount \in Int /\ e.ref \in Refs
      /\ e.user \in DOMAIN q.view
  BY <1>0, <1>1, NextEntry DEF ClerkFits
<1>3. q.view \in Balances /\ \A u \in DOMAIN q.view : q.view[u] \in Int
  BY <1>0, BalancesAre DEF ClerkRecords
<1>4. q.wrote \in [Holders -> Seq(LedgerRows)] /\ q.todo \in Seq(TodoEntries)
  BY <1>0 DEF ClerkRecords
<1>5. clerk' = [clerk EXCEPT ![c] = k]
  BY <1>0, <1>1, <1>4 DEF LedgerInv, LedgerTables, ClerkRecords
<1> HIDE DEF e
<1>6. /\ r \in LedgerRows /\ r.before = q.view[e.user] - e.amount /\ r.after = q.view[e.user]
      /\ r.after = r.before + r.amount
  BY <1>2, <1>3 DEF LedgerRows
<1> HIDE DEF r
<1>7. Chain(q.wrote[e.user], wallet[e.user], r.before)
  <2>1. Untold(q, e.user) = e.amount
    BY <1>1, <1>2 DEF Untold
  <2> QED  BY <1>0, <1>2, <1>6, <2>1 DEF ClerkFits
<1>8. /\ Append(q.wrote[e.user], r) \in Seq(LedgerRows)
      /\ Chain(Append(q.wrote[e.user], r), wallet[e.user], q.view[e.user])
  BY <1>2, <1>4, <1>6, <1>7, ChainGrows
<1>9. /\ told \in [Holders -> Seq(LedgerRows)]
      /\ \A u \in Holders : told[u] = IF u = e.user THEN Append(q.wrote[e.user], r) ELSE q.wrote[u]
  BY <1>2, <1>4, <1>8
<1> HIDE DEF told
<1>10. Tail(q.todo) \in Seq(TodoEntries) /\ \A i \in DOMAIN Tail(q.todo) : Tail(q.todo)[i].user \in Users
  <2> DEFINE t == q.todo
  <2>1. t \in Seq(TodoEntries) /\ t # <<>> /\ \A i \in DOMAIN t : t[i].user \in Users
    BY <1>0, <1>1, <1>4 DEF ClerkFits
  <2> HIDE DEF t
  <2>2. /\ Tail(t) \in Seq(TodoEntries)
        /\ \A i \in DOMAIN Tail(t) : i + 1 \in DOMAIN t /\ Tail(t)[i] = t[i + 1]
    BY <2>1
  <2> QED  BY <2>1, <2>2 DEF t
<1>11. /\ k \in ClerkRecords /\ k.view = q.view /\ k.updated = FALSE /\ k.todo = Tail(q.todo) /\ k.wrote = told
  BY <1>0, <1>9, <1>10 DEF ClerkRecords
<1> HIDE DEF k
<1>12. ClerkFits(k)
  <2>1. \A u \in DOMAIN k.view : u \in Users /\ k.view[u] >= 0
    BY <1>0, <1>11 DEF ClerkFits
  <2>2. ASSUME NEW u \in DOMAIN k.view PROVE Chain(k.wrote[u], wallet[u], k.view[u] - Untold(k, u))
    <3>1. Untold(k, u) = 0 /\ k.view[u] - 0 = q.view[u] /\ u \in Holders
      BY <1>3, <1>11, <2>1 DEF Untold, Users
    <3>2. CASE u = e.user
      BY <1>8, <1>9, <1>11, <3>1, <3>2
    <3>3. CASE u # e.user
      <4>1. Untold(q, u) = 0
        BY <1>2, <3>3 DEF Untold
      <4>2. Chain(q.wrote[u], wallet[u], q.view[u] - 0)
        BY <1>0, <1>11, <4>1 DEF ClerkFits
      <4> QED  BY <1>9, <1>11, <3>1, <3>3, <4>2
    <3> QED  BY <3>2, <3>3
  <2>3. \A u \in Holders \ DOMAIN k.view : k.wrote[u] = <<>>
    BY <1>0, <1>2, <1>9, <1>11 DEF ClerkFits
  <2> QED  BY <1>10, <1>11, <2>1, <2>2, <2>3 DEF ClerkFits
<1>13. \A d \in Clerks \ {c} : DOMAIN k.view \cap DOMAIN clerk[d].view = {}
  BY <1>11 DEF LedgerInv, ClerksFit
<1>14. adjustments' \in 0 .. MaxAdjustments
  BY <1>1 DEF LedgerInv, LedgerTables
<1> QED  BY <1>1, <1>5, <1>11, <1>12, <1>13, <1>14, ClerkMoves

(* A commit: what was told of each locked account is joined to its ledger.    *)
LEMMA CommitStep ==
    ASSUME LedgerInv, NEW c \in Clerks, CommitRows(c)
    PROVE  LedgerInv'
<1> DEFINE q == clerk[c]
<1>0. q \in ClerkRecords /\ ClerkFits(q)
  BY DEF LedgerInv, LedgerTables, ClerksFit
<1>1. /\ ~q.updated
      /\ wallet' = [u \in Holders |-> Sees(c, u)]
      /\ rows' = [u \in Holders |-> rows[u] \o q.wrote[u]]
      /\ clerk' = [clerk EXCEPT ![c] = Idle] /\ UNCHANGED <<script, adjustments, opening>>
  BY <1>0 DEF CommitRows, ClerkFits, ClerkRecords
<1>2. DOMAIN q.view \subseteq Holders /\ \A u \in DOMAIN q.view : q.view[u] \in Int
  BY <1>0, BalancesAre DEF ClerkRecords
<1>3. q.wrote \in [Holders -> Seq(LedgerRows)]
  BY <1>0 DEF ClerkRecords
<1>4. \A u \in Holders : wallet'[u] = IF u \in DOMAIN q.view THEN q.view[u] ELSE wallet[u]
  BY <1>1 DEF Sees
<1>5. Users' = Users
  BY <1>0, <1>2, <1>4, LedgerConstants DEF Users, ClerkFits
<1>6. ASSUME NEW u \in Holders
      PROVE  /\ rows'[u] = rows[u] \o q.wrote[u] /\ rows'[u] \in Seq(LedgerRows)
             /\ u \notin DOMAIN q.view => rows'[u] = rows[u]
             /\ rows'[u] = <<>> => rows[u] = <<>>
  <2>1. rows'[u] = rows[u] \o q.wrote[u]
    BY <1>1
  <2>2. rows[u] \in Seq(LedgerRows) /\ q.wrote[u] \in Seq(LedgerRows)
    BY <1>3 DEF LedgerInv, LedgerTables
  <2>3. u \notin DOMAIN q.view => q.wrote[u] = <<>>
    BY <1>0 DEF ClerkFits
  <2> HIDE DEF q
  <2>4. \A s, t \in Seq(LedgerRows) : /\ s \o t \in Seq(LedgerRows) /\ s \o <<>> = s
                                      /\ s \o t = <<>> => s = <<>>
    BY ConcatEmptySeq, ConcatProperties
  <2> QED  BY <2>1, <2>2, <2>3, <2>4
<1>7. LedgerTables'
  <2>1. wallet' \in [Holders -> Int \cup {Free}]
    BY <1>1, <1>2, <1>4 DEF LedgerInv, LedgerTables
  <2>2. rows' \in [Holders -> Seq(LedgerRows)]
    BY <1>1, <1>6
  <2>3. clerk' \in [Clerks -> ClerkRecords]
    BY <1>1, IdleIs DEF LedgerInv, LedgerTables
  <2> QED  BY <1>1, <2>1, <2>2, <2>3 DEF LedgerInv, LedgerTables
<1>8. BooksInOrder'
  <2>1. ASSUME NEW u \in Users' PROVE Chain(rows'[u], opening'[u], wallet'[u]) /\ wallet'[u] >= 0
    <3>0. u \in Users /\ u \in Holders /\ opening' = opening
      BY <1>1, <1>5, <2>1 DEF Users
    <3>1. CASE u \in DOMAIN q.view
      <4>1. Untold(q, u) = 0 /\ q.view[u] - 0 = q.view[u]
        BY <1>1, <1>2, <3>1 DEF Untold
      <4>2. Chain(q.wrote[u], wallet[u], q.view[u]) /\ q.view[u] >= 0
        BY <1>0, <3>1, <4>1 DEF ClerkFits
      <4>3. Chain(rows[u], opening[u], wallet[u])
        BY <3>0 DEF LedgerInv, BooksInOrder
      <4>4. rows[u] \in Seq(LedgerRows) /\ q.wrote[u] \in Seq(LedgerRows)
        BY <1>3, <3>0 DEF LedgerInv, LedgerTables
      <4>5. Chain(rows[u] \o q.wrote[u], opening[u], q.view[u])
        BY <4>2, <4>3, <4>4, ChainsJoin
      <4> QED  BY <1>4, <1>6, <3>0, <3>1, <4>2, <4>5
    <3>2. CASE u \notin DOMAIN q.view
      BY <1>4, <1>6, <3>0, <3>2 DEF LedgerInv, BooksInOrder
    <3> QED  BY <3>1, <3>2
  <2>2. \A u \in Holders \ Users' : rows'[u] = <<>>
    <3> SUFFICES ASSUME NEW u \in Holders \ Users' PROVE rows'[u] = <<>>
      OBVIOUS
    <3>1. u \notin DOMAIN q.view /\ rows[u] = <<>>
      BY <1>0, <1>5 DEF ClerkFits, LedgerInv, BooksInOrder
    <3> QED  BY <1>6, <3>1
  <2> QED  BY <2>1, <2>2 DEF BooksInOrder, Chain
<1>9. ClerksFit'
  <2>1. \A d \in Clerks : clerk'[d] = IF d = c THEN Idle ELSE clerk[d]
    BY <1>1 DEF LedgerInv, LedgerTables
  <2>2. ASSUME NEW d \in Clerks PROVE ClerkFits(clerk[d])'
    <3>1. CASE d = c
      <4>1. clerk'[d] = Idle
        BY <2>1, <3>1
      <4>2. /\ Idle.todo = <<>> /\ DOMAIN Idle.view = {} /\ ~Idle.updated
            /\ \A u \in Holders : Idle.wrote[u] = <<>>
        BY IdleIs DEF Idle
      <4> QED  BY <4>1, <4>2 DEF ClerkFits
    <3>2. CASE d # c
      <4>1. clerk'[d] = clerk[d] /\ ClerkFits(clerk[d])
        BY <2>1, <3>2 DEF LedgerInv, ClerksFit
      <4>2. DOMAIN clerk[d].view \cap DOMAIN q.view = {}
        BY <3>2 DEF LedgerInv, ClerksFit
      <4>3. \A u \in DOMAIN clerk[d].view : u \in Users /\ u \in Holders /\ wallet'[u] = wallet[u]
        BY <1>4, <4>1, <4>2 DEF ClerkFits, Users
      <4> QED  BY <1>5, <4>1, <4>3 DEF ClerkFits, Chain, Untold
    <3> QED  BY <3>1, <3>2
  <2>3. \A d, e \in Clerks : d # e => DOMAIN clerk'[d].view \cap DOMAIN clerk'[e].view = {}
    BY <2>1, IdleIs DEF LedgerInv, ClerksFit
  <2> QED  BY <2>2, <2>3 DEF ClerksFit
<1>10. ScriptKnows'
  <2>1. Users \subseteq Holders
    BY DEF Users
  <2>2. UNCHANGED <<script, opening>>
    BY <1>1
  <2> HIDE DEF q
  <2> QED  BY <1>5, <1>6, <2>1, <2>2 DEF LedgerInv, ScriptKnows
<1> QED  BY <1>7, <1>8, <1>9, <1>10 DEF LedgerInv

-----------------------------------------------------------------------------
LEMMA CreateUserStep ==
    ASSUME LedgerInv, CreateUser
    PROVE  LedgerInv'
<1> PICK u \in Holders \ Users, initial \in Openings :
      /\ wallet' = [wallet EXCEPT ![u] = initial] /\ opening' = [opening EXCEPT ![u] = initial]
      /\ UNCHANGED <<rows, clerk, script, adjustments>>
  BY DEF CreateUser
<1>0. initial \in Nat /\ initial # Free
  BY LedgerConstants
<1>1. /\ wallet' \in [Holders -> Int \cup {Free}] /\ opening' \in [Holders -> Int]
      /\ wallet'[u] = initial /\ opening'[u] = initial
      /\ \A v \in Holders \ {u} : wallet'[v] = wallet[v] /\ opening'[v] = opening[v]
  BY <1>0 DEF LedgerInv, LedgerTables
<1>2. Users' = Users \cup {u} /\ Users \subseteq Holders /\ u \notin Users
  BY <1>0, <1>1 DEF Users
<1>3. LedgerTables'
  BY <1>1 DEF LedgerInv, LedgerTables
<1>4. BooksInOrder'
  <2>1. rows'[u] = <<>>
    BY DEF LedgerInv, BooksInOrder
  <2>2. Chain(rows'[u], opening'[u], wallet'[u]) /\ wallet'[u] >= 0
    BY <1>0, <1>1, <2>1, ChainOfNone
  <2>3. ASSUME NEW v \in Users PROVE Chain(rows'[v], opening'[v], wallet'[v]) /\ wallet'[v] >= 0
    BY <1>1, <1>2 DEF LedgerInv, BooksInOrder
  <2>4. \A v \in Holders \ Users' : rows'[v] = <<>>
    BY <1>2 DEF LedgerInv, BooksInOrder
  <2>5. \A v \in Users' : Chain(rows'[v], opening'[v], wallet'[v]) /\ wallet'[v] >= 0
    BY <1>2, <2>2, <2>3
  <2> QED  BY <2>4, <2>5 DEF BooksInOrder, Chain
<1>5. ClerksFit'
  <2>1. ASSUME NEW c \in Clerks PROVE ClerkFits(clerk[c])'
    <3>1. ClerkFits(clerk[c])
      BY DEF LedgerInv, ClerksFit
    <3>2. \A v \in DOMAIN clerk[c].view : v \in Users /\ wallet'[v] = wallet[v]
      BY <1>1, <1>2, <3>1 DEF ClerkFits
    <3> QED  BY <1>2, <3>1, <3>2 DEF ClerkFits, Chain, Untold
  <2> QED  BY <2>1 DEF LedgerInv, ClerksFit
<1>6. ScriptKnows'
  BY <1>1, <1>2 DEF LedgerInv, ScriptKnows
<1> QED  BY <1>3, <1>4, <1>5, <1>6 DEF LedgerInv

(* The script's steps that write no row.                                     *)
LEMMA ScriptReads ==
    ASSUME LedgerInv, script' \in ScriptRecords, UNCHANGED <<wallet, rows, clerk, adjustments, opening>>, ScriptKnows'
    PROVE  LedgerInv'
<1>1. Users' = Users
  BY DEF Users
<1>2. LedgerTables'
  BY DEF LedgerInv, LedgerTables
<1>3. BooksInOrder'
  BY <1>1 DEF LedgerInv, BooksInOrder, Chain
<1>4. ClerksFit'
  BY <1>1 DEF LedgerInv, ClerksFit, ClerkFits, Chain, Untold
<1> QED  BY <1>2, <1>3, <1>4 DEF LedgerInv

LEMMA ScriptSteps ==
    ASSUME LedgerInv, StartBackfill \/ Examine \/ FindRegistrations \/ EndBackfill
    PROVE  LedgerInv'
<1>0. /\ UNCHANGED <<wallet, rows, clerk, adjustments, opening>>
      /\ script \in ScriptRecords /\ ScriptKnows
  BY DEF StartBackfill, Examine, FindRegistrations, EndBackfill, LedgerInv, LedgerTables
<1>1. Users' = Users /\ Users \subseteq Holders
  BY <1>0 DEF Users
<1>2. CASE StartBackfill
  <2> DEFINE seen == [u \in Users |-> wallet[u]]
             w == [Resting EXCEPT !.at = "next", !.seen = seen, !.left = Users]
  <2>1. script' = w
    BY <1>2 DEF StartBackfill
  <2>2. seen \in [Users -> Int]
    BY DEF LedgerInv, LedgerTables, Users
  <2>3. seen \in Balances /\ DOMAIN seen = Users /\ \A u \in Users : seen[u] = wallet[u]
    BY <1>1, <2>2, BalancesAre
  <2> HIDE DEF seen
  <2>4. w \in ScriptRecords /\ w.at = "next" /\ w.seen = seen /\ w.left = Users
    BY <1>1, <2>3, RestingIs DEF ScriptRecords
  <2> HIDE DEF w
  <2>5. ASSUME NEW u \in Users, rows[u] = <<>> PROVE seen[u] = opening[u]
    BY <2>3, <2>5 DEF LedgerInv, BooksInOrder, Chain
  <2>6. ScriptKnows'
    BY <1>0, <1>1, <2>1, <2>3, <2>4, <2>5 DEF ScriptKnows
  <2> QED  BY <1>0, <2>1, <2>4, <2>6, ScriptReads
<1>3. CASE Examine
  <2> PICK u \in script.left :
        /\ script.at = "next"
        /\ script' = [script EXCEPT !.left = @ \ {u}, !.user = u, !.at = IF rows[u] = <<>> THEN "examined" ELSE "next"]
    BY <1>3 DEF Examine
  <2>1. /\ script' \in ScriptRecords /\ script'.left = script.left \ {u} /\ script'.user = u
        /\ script'.at = (IF rows[u] = <<>> THEN "examined" ELSE "next") /\ script'.seen = script.seen
    BY <1>0 DEF ScriptRecords
  <2>2. /\ \A v \in script.left : /\ v \in Users /\ v \in DOMAIN script.seen
                                  /\ rows[v] = <<>> => script.seen[v] = opening[v]
    BY <1>0, LedgerConstants DEF ScriptKnows
  <2>3. u \in Users \ (script.left \ {u}) /\ u \in DOMAIN script.seen
    BY <2>2
  <2>4. \A v \in script.left \ {u} : /\ v \in Users' /\ v \in DOMAIN script'.seen
                                     /\ rows'[v] = <<>> => script'.seen[v] = opening'[v]
    BY <1>0, <1>1, <2>1, <2>2
  <2>5. script'.at \in {"examined", "reckoned"} => rows[u] = <<>>
    BY <2>1
  <2>6. rows[u] = <<>> => script'.seen[script'.user] = opening'[script'.user]
    BY <1>0, <2>1, <2>2
  <2>7. ScriptKnows'
    BY <1>1, <2>1, <2>3, <2>4, <2>5, <2>6 DEF ScriptKnows
  <2> QED  BY <1>0, <2>1, <2>7, ScriptReads
<1>4. CASE FindRegistrations
  <2> DEFINE fees == FeesOf(script.user)
  <2> PICK order \in [1 .. Cardinality(fees) -> fees] :
        script.at = "examined" /\ script' = [script EXCEPT !.at = "reckoned", !.fees = order]
    BY <1>4 DEF FindRegistrations
  <2>0. fees \subseteq DOMAIN FeeOf
    BY DEF FeesOf
  <2>1. Cardinality(fees) \in Nat
    BY <2>0, LedgerAssumption, FS_Subset, FS_CardinalityType
  <2>2. order \in Seq(DOMAIN FeeOf)
    <3> HIDE DEF fees
    <3>1. order \in [1 .. Cardinality(fees) -> DOMAIN FeeOf]
      BY <2>0
    <3> QED  BY <2>1, <3>1, SeqDef
  <2>3. /\ script' \in ScriptRecords /\ script'.left = script.left /\ script'.user = script.user
        /\ script'.at = "reckoned" /\ script'.seen = script.seen
    BY <1>0, <2>2 DEF ScriptRecords
  <2>4. ScriptKnows'
    BY <1>0, <1>1, <2>3, LedgerConstants DEF ScriptKnows
  <2> QED  BY <1>0, <2>3, <2>4, ScriptReads
<1>5. CASE EndBackfill
  <2>1. script' = Resting
    BY <1>5 DEF EndBackfill
  <2>2. ScriptKnows'
    BY <2>1, RestingIs, LedgerConstants DEF ScriptKnows
  <2> QED  BY <1>0, <2>1, <2>2, RestingIs, ScriptReads
<1> QED  BY <1>2, <1>3, <1>4, <1>5

LEMMA BackfillStep ==
    ASSUME LedgerInv, WriteBackfill
    PROVE  LedgerInv'
<1> DEFINE u == script.user
           told == Reconciled(u, script.fees, script.seen[u])
<1>0. /\ script.at = "reckoned" /\ UNCHANGED <<wallet, clerk, adjustments>>
      /\ script \in ScriptRecords
      /\ u \in Users \ script.left /\ u \in Holders /\ script.seen[u] = opening[u] /\ opening[u] \in Int
  BY DEF WriteBackfill, LedgerInv, LedgerTables, ScriptKnows, Users
<1>1. CASE script' = Resting /\ UNCHANGED <<rows, opening>>
  <2>1. ScriptKnows'
    BY <1>1, RestingIs, LedgerConstants DEF ScriptKnows
  <2> QED  BY <1>0, <1>1, <2>1, RestingIs, ScriptReads
<1>2. CASE /\ rows' = [rows EXCEPT ![u] = told \o @]
           /\ opening' = [opening EXCEPT ![u] = 0] /\ script' = [script EXCEPT !.at = "next", !.fees = <<>>]
  <2>0. script.fees \in Seq(DOMAIN FeeOf)
    BY <1>0 DEF ScriptRecords
  <2>1. told \in Seq(LedgerRows) /\ Chain(told, 0, opening[u])
    BY <1>0, <2>0, ReconciledIs
  <2> HIDE DEF told
  <2>2. rows[u] \in Seq(LedgerRows) /\ Chain(rows[u], opening[u], wallet[u])
    BY <1>0 DEF LedgerInv, LedgerTables, BooksInOrder
  <2>3. told \o rows[u] \in Seq(LedgerRows) /\ Chain(told \o rows[u], 0, wallet[u])
    BY <2>1, <2>2, ChainsJoin
  <2>4. /\ rows' \in [Holders -> Seq(LedgerRows)] /\ rows'[u] = told \o rows[u]
        /\ opening' \in [Holders -> Int] /\ opening'[u] = 0
        /\ \A v \in Holders \ {u} : rows'[v] = rows[v] /\ opening'[v] = opening[v]
    BY <1>0, <1>2, <2>3 DEF LedgerInv, LedgerTables
  <2>5. /\ script' \in ScriptRecords /\ script'.left = script.left /\ script'.at = "next"
        /\ script'.seen = script.seen
    <3>1. <<>> \in Seq(DOMAIN FeeOf)
      OBVIOUS
    <3> HIDE DEF u
    <3> QED  BY <1>0, <1>2, <3>1 DEF ScriptRecords
  <2>6. Users' = Users /\ Users \subseteq Holders
    BY <1>0 DEF Users
  <2>7. LedgerTables'
    BY <1>0, <2>4, <2>5 DEF LedgerInv, LedgerTables
  <2>8. BooksInOrder'
    <3>1. ASSUME NEW v \in Users PROVE Chain(rows'[v], opening'[v], wallet'[v]) /\ wallet'[v] >= 0
      BY <1>0, <2>3, <2>4, <2>6 DEF LedgerInv, BooksInOrder
    <3>2. \A v \in Holders \ Users : rows'[v] = <<>>
      BY <1>0, <2>4 DEF LedgerInv, BooksInOrder
    <3> QED  BY <2>6, <3>1, <3>2 DEF BooksInOrder, Chain
  <2>9. ClerksFit'
    BY <1>0, <2>6 DEF LedgerInv, ClerksFit, ClerkFits, Chain, Untold
  <2>10. ScriptKnows'
    <3>1. \A v \in script.left : /\ v \in Users /\ v # u /\ v \in DOMAIN script.seen
                                 /\ rows[v] = <<>> => script.seen[v] = opening[v]
      BY <1>0, LedgerConstants DEF LedgerInv, ScriptKnows
    <3> QED  BY <2>4, <2>5, <2>6, <3>1 DEF ScriptKnows
  <2> QED  BY <2>7, <2>8, <2>9, <2>10 DEF LedgerInv
<1> QED  BY <1>1, <1>2 DEF WriteBackfill

LEMMA LedgerStep == LedgerInv /\ [LedgerNext]_ledgerVars => LedgerInv'
<1> SUFFICES ASSUME LedgerInv, [LedgerNext]_ledgerVars PROVE LedgerInv'
  OBVIOUS
<1>1. ASSUME NEW c \in Clerks, \/ RecordMany(c) \/ AdjustBalance(c) \/ UpdateBalance(c) \/ Insufficient(c)
                               \/ InsertRow(c) \/ Duplicate(c) \/ CommitRows(c) \/ Lost(c) \/ BrokenCycle(c)
      PROVE  LedgerInv'
  BY <1>1, RollbackSteps, BeginsStep, UpdateStep, InsertStep, CommitStep
<1>2. CASE UNCHANGED ledgerVars
  <2>1. script' \in ScriptRecords /\ ScriptKnows' /\ UNCHANGED <<wallet, rows, clerk, adjustments, opening>>
    BY <1>2 DEF ledgerVars, LedgerInv, LedgerTables, ScriptKnows, Users
  <2> QED  BY <2>1, ScriptReads
<1> QED  BY <1>1, <1>2, CreateUserStep, ScriptSteps, BackfillStep DEF LedgerNext

(* The inductive invariant of the ledger.                                    *)
THEOREM LedgerInvariance == LedgerSpec => []LedgerInv
  BY LedgerInitially, LedgerStep, PTL DEF LedgerSpec

(* Nothing moves a balance that no row tells, whatever batches, adjustments, *)
(* repeats, backfills and ends of processes come between, for any accounts,  *)
(* amounts and number of transactions (recordLedgerEntry, recordMany,        *)
(* backfillTransactions).                                                    *)
THEOREM LedgerIsAChain == LedgerSpec => []LedgerChains
<1>1. LedgerInv => LedgerChains
  <2> SUFFICES ASSUME LedgerInv PROVE LedgerChains
    OBVIOUS
  <2>1. \A u \in Holders : \A i \in DOMAIN rows[u] : rows[u][i].after = rows[u][i].before + rows[u][i].amount
    BY DEF LedgerInv, BooksInOrder, Chain
  <2>2. LedgerTypeOK
    BY <2>1 DEF LedgerInv, LedgerTables, LedgerTypeOK
  <2>3. ASSUME NEW u \in Users
        PROVE  /\ wallet[u] = IF rows[u] = <<>> THEN opening[u] ELSE rows[u][Len(rows[u])].after
               /\ \A i \in DOMAIN rows[u] : rows[u][i].before = IF i = 1 THEN opening[u] ELSE rows[u][i - 1].after
               /\ wallet[u] >= 0
    BY DEF LedgerInv, BooksInOrder, Chain
  <2> QED  BY <2>2, <2>3 DEF LedgerChains
<1> QED  BY <1>1, LedgerInvariance, PTL

-----------------------------------------------------------------------------
(* The catalogue: names, rows, calls in progress.                            *)
Names == Typed \cup UNION {{Generated[p][i] : i \in DOMAIN Generated[p]} : p \in Products}
VariantRows == [of : Products, sku : Names, place : 0 .. MaxPlace + 1]
EditCalls == [at : {Free, "creating", "adding", "placing"}, of : Products \cup {Free}, skus : Seq(Names),
              written : Nat, place : Nat]

CatalogueTables ==
    /\ product \in [Products -> {"absent", "there", "hidden"}] /\ given \in [Products -> Nat]
    /\ edit \in [Editors -> EditCalls]

(* The committed rows: names and places are used once, and every product has *)
(* as many as were answered for.                                             *)
RowsStand ==
    /\ variant \subseteq VariantRows /\ IsFiniteSet(variant)
    /\ \A v, w \in variant : v.sku = w.sku \/ (v.of = w.of /\ v.place = w.place) => v = w
    /\ \A v \in variant : product[v.of] # "absent"
    /\ \A p \in Products : given[p] = Cardinality(Of(p))

(* A call: what it has inserted and not committed no committed row has, and   *)
(* the place it read under the lock is still behind all others.              *)
EditFits(k) ==
    /\ k.at = Free => k.of = Free
    /\ k.at # "creating" => k.written = 0
    /\ k.at = "creating" => /\ k.of \in Products /\ product[k.of] = "absent"
                            /\ Len(k.skus) = 2 /\ k.skus[1] # k.skus[2] /\ k.written <= 2
    /\ \A i \in 1 .. k.written : ~SkuTaken(k.skus[i])
    /\ k.at \in {"adding", "placing"} => k.of \in Products /\ product[k.of] # "absent" /\ Len(k.skus) = 1
    /\ k.at = "placing" => k.place <= MaxPlace /\ \A v \in Of(k.of) : v.place < k.place

(* Two calls: a product is created by one and locked by one, and no two have *)
(* inserted the same name.                                                   *)
Apart(k, l) ==
    /\ k.at = "creating" \/ l.at = "creating" => k.of # l.of
    /\ k.at = "placing" /\ l.at = "placing" => k.of # l.of
    /\ \A i \in 1 .. k.written, j \in 1 .. l.written : k.skus[i] # l.skus[j]

EditsFit ==
    /\ \A e \in Editors : EditFits(edit[e])
    /\ \A e, f \in Editors : e # f => Apart(edit[e], edit[f])

CatalogueInv == CatalogueTables /\ RowsStand /\ EditsFit
-----------------------------------------------------------------------------
LEMMA CatalogueConstants ==
    /\ Free \notin Products /\ Free # "creating" /\ Free # "adding" /\ Free # "placing" /\ MaxPlace \in Nat
    /\ \A p \in Products : \A taken : ResolveVariant(p, taken) \subseteq Names
<1>1. ASSUME NEW p \in Products, NEW taken PROVE ResolveVariant(p, taken) \subseteq Names
  BY DEF ResolveVariant, Names
<1> QED  BY <1>1, CatalogueAssumption DEF Products

LEMMA NoEditIs ==
    /\ NoEdit \in EditCalls /\ NoEdit.at = Free /\ NoEdit.of = Free /\ NoEdit.written = 0 /\ NoEdit.skus = <<>>
    /\ NoEdit.place = 0 /\ EditFits(NoEdit)
<1>1. <<>> \in Seq(Names)
  OBVIOUS
<1>2. /\ NoEdit \in EditCalls /\ NoEdit.at = Free /\ NoEdit.of = Free /\ NoEdit.written = 0 /\ NoEdit.skus = <<>>
      /\ NoEdit.place = 0
  BY <1>1 DEF NoEdit, EditCalls
<1> QED  BY <1>2, CatalogueConstants DEF EditFits

LEMMA CatalogueInitially == CatalogueInit => CatalogueInv
<1> SUFFICES ASSUME CatalogueInit PROVE CatalogueInv
  OBVIOUS
<1>1. CatalogueTables
  BY NoEditIs DEF CatalogueInit, CatalogueTables
<1>2. RowsStand
  <2>1. \A p \in Products : Of(p) = {}
    BY DEF CatalogueInit, Of
  <2> QED  BY <2>1, FS_EmptySet DEF CatalogueInit, RowsStand
<1>3. EditsFit
  <2>1. \A e \in Editors : edit[e] = NoEdit
    BY DEF CatalogueInit
  <2>2. Apart(NoEdit, NoEdit)
    BY NoEditIs, CatalogueConstants DEF Apart
  <2> QED  BY <2>1, <2>2, NoEditIs DEF EditsFit
<1> QED  BY <1>1, <1>2, <1>3 DEF CatalogueInv

(* One call goes on; no row changes.                                         *)
LEMMA EditMoves ==
    ASSUME CatalogueInv, NEW e \in Editors, NEW k \in EditCalls, EditFits(k),
           edit' = [edit EXCEPT ![e] = k], \A f \in Editors \ {e} : Apart(k, edit[f]),
           UNCHANGED <<product, variant, given>>
    PROVE  CatalogueInv'
<1>1. /\ edit' \in [Editors -> EditCalls] /\ edit'[e] = k
      /\ \A f \in Editors \ {e} : edit'[f] = edit[f]
  BY DEF CatalogueInv, CatalogueTables
<1>2. CatalogueTables' /\ RowsStand'
  BY <1>1 DEF CatalogueInv, CatalogueTables, RowsStand, Of
<1>3. \A f \in Editors : EditFits(edit'[f])
  BY <1>1 DEF CatalogueInv, EditsFit
<1>4. \A f \in Editors : EditFits(edit[f])'
  BY <1>3 DEF EditFits, SkuTaken, Of
<1>5. \A f, g \in Editors : f # g => Apart(edit'[f], edit'[g])
  <2> SUFFICES ASSUME NEW f \in Editors, NEW g \in Editors, f # g PROVE Apart(edit'[f], edit'[g])
    OBVIOUS
  <2>1. CASE f = e
    BY <1>1, <2>1
  <2>2. CASE g = e
    <3>1. edit'[g] = k /\ edit'[f] = edit[f] /\ Apart(k, edit[f])
      BY <1>1, <2>2
    <3>2. Apart(edit[f], k)
      BY <3>1 DEF Apart
    <3> QED  BY <3>1, <3>2
  <2>3. CASE f # e /\ g # e
    BY <1>1, <2>3 DEF CatalogueInv, EditsFit
  <2> QED  BY <2>1, <2>2, <2>3
<1>6. EditsFit'
  BY <1>4, <1>5 DEF EditsFit
<1> QED  BY <1>2, <1>6 DEF CatalogueInv

(* Rows change; the calls go on as they were, but for those that end.        *)
LEMMA CallsRest ==
    ASSUME CatalogueInv, edit' = edit \/ \E e \in Editors : edit' = [edit EXCEPT ![e] = NoEdit],
           \A f \in Editors : edit'[f] = edit[f] => EditFits(edit[f])'
    PROVE  edit' \in [Editors -> EditCalls] /\ EditsFit'
<1>1. edit' \in [Editors -> EditCalls] /\ \A f \in Editors : edit'[f] = edit[f] \/ edit'[f] = NoEdit
  BY NoEditIs DEF CatalogueInv, CatalogueTables
<1>2. ASSUME NEW f \in Editors PROVE EditFits(edit[f])'
  <2>1. CASE edit'[f] = edit[f]
    BY <2>1
  <2>2. CASE edit'[f] = NoEdit
    BY <2>2, NoEditIs, CatalogueConstants DEF EditFits
  <2> QED  BY <1>1, <2>1, <2>2
<1>3. ASSUME NEW f \in Editors, NEW g \in Editors, f # g PROVE Apart(edit'[f], edit'[g])
  <2>1. Apart(edit[f], edit[g]) /\ edit[f] \in EditCalls /\ edit[g] \in EditCalls
    BY <1>3 DEF CatalogueInv, EditsFit, CatalogueTables
  <2>2. EditFits(edit[f]) /\ EditFits(edit[g])
    BY DEF CatalogueInv, EditsFit
  <2>3. ASSUME NEW l \in EditCalls, EditFits(l) PROVE Apart(NoEdit, l) /\ Apart(l, NoEdit) /\ Apart(NoEdit, NoEdit)
    BY <2>3, NoEditIs, CatalogueConstants DEF Apart, EditFits
  <2> QED  BY <1>1, <2>1, <2>2, <2>3
<1> QED  BY <1>1, <1>2, <1>3 DEF EditsFit

(* What keeps a call in order when rows change around it.                    *)
LEMMA StillFits ==
    ASSUME NEW f \in Editors, EditFits(edit[f]), edit'[f] = edit[f],
           edit[f].of \in Products => (product'[edit[f].of] = "absent" <=> product[edit[f].of] = "absent"),
           \A i \in 1 .. edit[f].written : \A v \in variant' : v.sku # edit[f].skus[i],
           edit[f].at = "placing" => \A v \in variant' : v.of = edit[f].of => v.place < edit[f].place
    PROVE  EditFits(edit[f])'
  BY DEF EditFits, SkuTaken, Of

LEMMA RollsBackStep ==
    ASSUME CatalogueInv, NEW e \in Editors, RollsBack(e)
    PROVE  CatalogueInv'
<1>1. edit' = [edit EXCEPT ![e] = NoEdit] /\ UNCHANGED <<product, variant, given>>
  BY DEF RollsBack, Answers
<1>2. ASSUME NEW f \in Editors \ {e} PROVE Apart(NoEdit, edit[f])
  <2>1. EditFits(edit[f])
    BY DEF CatalogueInv, EditsFit
  <2> QED  BY <2>1, NoEditIs, CatalogueConstants DEF Apart, EditFits
<1> QED  BY <1>1, <1>2, NoEditIs, EditMoves

(* A creation begins, inserts the next of its names, or an addition begins.  *)
LEMMA CreateStep ==
    ASSUME CatalogueInv, NEW e \in Editors, CreateProduct(e)
    PROVE  CatalogueInv'
<1>1. PICK p \in Products :
        /\ product[p] = "absent" /\ \A f \in Editors : edit[f].of # p
        /\ \E s1 \in ResolveVariant(p, {}) : \E s2 \in ResolveVariant(p, {s1}) :
             Submits(e, [NoEdit EXCEPT !.at = "creating", !.of = p, !.skus = <<s1, s2>>])
        /\ UNCHANGED <<product, variant, given>>
  BY DEF CreateProduct
<1>2. PICK s1 \in ResolveVariant(p, {}) : \E s2 \in ResolveVariant(p, {s1}) :
        Submits(e, [NoEdit EXCEPT !.at = "creating", !.of = p, !.skus = <<s1, s2>>])
  BY <1>1
<1>3. PICK s2 \in ResolveVariant(p, {s1}) :
        Submits(e, [NoEdit EXCEPT !.at = "creating", !.of = p, !.skus = <<s1, s2>>])
  BY <1>2
<1> DEFINE k == [NoEdit EXCEPT !.at = "creating", !.of = p, !.skus = <<s1, s2>>]
<1>4. edit' = [edit EXCEPT ![e] = k] /\ edit[e].at = Free
  BY <1>3 DEF Submits
<1>5. s1 \in Names /\ s2 \in Names /\ s2 # s1
  <2>1. s1 \in Names /\ s2 \in Names
    BY CatalogueConstants
  <2>2. s2 # s1
    BY <1>3 DEF ResolveVariant
  <2> QED  BY <2>1, <2>2
<1>6. /\ k \in EditCalls /\ k.at = "creating" /\ k.of = p /\ k.written = 0
      /\ k.skus = <<s1, s2>> /\ Len(k.skus) = 2 /\ k.skus[1] = s1 /\ k.skus[2] = s2
  <2>1. <<s1, s2>> \in Seq(Names)
    BY <1>5
  <2> QED  BY <2>1, NoEditIs DEF EditCalls
<1> HIDE DEF k
<1>7. EditFits(k)
  BY <1>1, <1>5, <1>6, CatalogueConstants DEF EditFits
<1>8. ASSUME NEW f \in Editors \ {e} PROVE Apart(k, edit[f])
  BY <1>1, <1>6 DEF Apart
<1> QED  BY <1>1, <1>4, <1>6, <1>7, <1>8, EditMoves

LEMMA InsertVariantStep ==
    ASSUME CatalogueInv, NEW e \in Editors, InsertVariant(e)
    PROVE  CatalogueInv'
<1> DEFINE q == edit[e]
           n == q.written + 1
           k == [q EXCEPT !.written = n]
<1>1. /\ q \in EditCalls /\ EditFits(q) /\ q.at = "creating" /\ q.written \in Nat /\ q.written < Len(q.skus)
      /\ Held(q.skus[n]) = {} /\ ~SkuTaken(q.skus[n])
      /\ edit' = [edit EXCEPT ![e] = k] /\ UNCHANGED <<product, variant, given>>
  <2>1. q \in EditCalls /\ EditFits(q)
    BY DEF CatalogueInv, CatalogueTables, EditsFit
  <2>2. edit' = [edit EXCEPT ![e] = k]
    BY DEF InsertVariant
  <2> HIDE DEF k
  <2> QED  BY <2>1, <2>2 DEF InsertVariant, Unwritten, NextSku, EditCalls
<1>2. /\ k \in EditCalls /\ k.at = "creating" /\ k.of = q.of /\ k.skus = q.skus /\ k.written = n
      /\ n \in 1 .. 2
  BY <1>1 DEF EditCalls, EditFits
<1>3. \A i \in 1 .. n : i \in 1 .. q.written \/ i = n
  BY <1>1
<1> HIDE DEF k, n
<1>4. EditFits(k)
  <2>1. /\ q.of \in Products /\ product[q.of] = "absent"
        /\ Len(q.skus) = 2 /\ q.skus[1] # q.skus[2]
        /\ \A i \in 1 .. q.written : ~SkuTaken(q.skus[i])
    BY <1>1 DEF EditFits
  <2>2. \A i \in 1 .. k.written : ~SkuTaken(k.skus[i])
    BY <1>1, <1>2, <1>3, <2>1
  <2> QED  BY <1>2, <2>1, <2>2, CatalogueConstants DEF EditFits
<1>5. ASSUME NEW f \in Editors \ {e} PROVE Apart(k, edit[f])
  <2>1. Apart(q, edit[f])
    BY DEF CatalogueInv, EditsFit
  <2>2. \A j \in 1 .. edit[f].written : q.skus[n] # edit[f].skus[j]
    BY <1>1 DEF Held
  <2>3. \A i \in 1 .. k.written, j \in 1 .. edit[f].written : k.skus[i] # edit[f].skus[j]
    BY <1>2, <1>3, <2>1, <2>2 DEF Apart
  <2> HIDE DEF q
  <2> QED  BY <1>1, <1>2, <2>1, <2>3 DEF Apart
<1> QED  BY <1>1, <1>2, <1>4, <1>5, EditMoves

LEMMA AddStep ==
    ASSUME CatalogueInv, NEW e \in Editors, AddVariant(e)
    PROVE  CatalogueInv'
<1>1. PICK p \in Products : \E s \in ResolveVariant(p, {v.sku : v \in Of(p)}) :
        /\ product[p] = "there"
        /\ Submits(e, [NoEdit EXCEPT !.at = "adding", !.of = p, !.skus = <<s>>])
        /\ UNCHANGED <<product, variant, given>>
  BY DEF AddVariant
<1>2. PICK s \in ResolveVariant(p, {v.sku : v \in Of(p)}) :
        /\ product[p] = "there"
        /\ Submits(e, [NoEdit EXCEPT !.at = "adding", !.of = p, !.skus = <<s>>])
        /\ UNCHANGED <<product, variant, given>>
  BY <1>1
<1> DEFINE k == [NoEdit EXCEPT !.at = "adding", !.of = p, !.skus = <<s>>]
<1>3. edit' = [edit EXCEPT ![e] = k]
  BY <1>2 DEF Submits
<1>4. /\ k \in EditCalls /\ k.at = "adding" /\ k.of = p /\ k.written = 0 /\ Len(k.skus) = 1
  <2>1. <<s>> \in Seq(Names)
    BY CatalogueConstants
  <2> QED  BY <2>1, NoEditIs DEF EditCalls
<1> HIDE DEF k
<1>5. EditFits(k)
  BY <1>2, <1>4, CatalogueConstants DEF EditFits
<1>6. ASSUME NEW f \in Editors \ {e} PROVE Apart(k, edit[f])
  <2>1. EditFits(edit[f])
    BY DEF CatalogueInv, EditsFit
  <2> QED  BY <1>2, <1>4, <2>1, CatalogueConstants DEF Apart, EditFits
<1> QED  BY <1>2, <1>3, <1>4, <1>5, <1>6, EditMoves

(* The position after the last is behind every place.                        *)
LEMMA NextPlaceIs ==
    ASSUME CatalogueInv, NEW p \in Products
    PROVE  NextPlace(p) \in Nat /\ \A v \in Of(p) : v.place < NextPlace(p)
<1>1. \A v \in Of(p) : v.place \in 0 .. MaxPlace + 1
  BY DEF CatalogueInv, RowsStand, VariantRows, Of
<1>2. CASE Of(p) = {}
  BY <1>2 DEF NextPlace
<1>3. CASE Of(p) # {}
  <2> DEFINE above == {m \in Nat : \A v \in Of(p) : v.place <= m}
             places == {v.place : v \in Of(p)}
  <2>1. MaxPlace + 1 \in above
    BY <1>1, CatalogueConstants
  <2>2. PICK n \in above : \A m \in above : n <= m
    <3> HIDE DEF above
    <3>1. above \in SUBSET Nat
      BY DEF above
    <3> QED  BY <2>1, <3>1, SmallestNumber
  <2>3. n \in places
    <3> SUFFICES ASSUME n \notin places PROVE FALSE
      OBVIOUS
    <3>1. \A v \in Of(p) : v.place < n
      BY <1>1, <2>2
    <3>2. n \in Nat /\ n # 0
      BY <1>1, <1>3, <2>2, <3>1
    <3>3. n - 1 \in above
      BY <1>1, <3>1, <3>2
    <3> QED  BY <2>2, <3>2, <3>3
  <2> DEFINE last == CHOOSE m \in places : \A v \in Of(p) : v.place <= m
  <2>4. last \in places /\ \A v \in Of(p) : v.place <= last
    BY <2>2, <2>3
  <2>5. NextPlace(p) = 1 + last
    BY <1>3 DEF NextPlace
  <2>6. last \in Nat
    <3> HIDE DEF last
    <3>1. PICK v \in Of(p) : last = v.place
      BY <2>4
    <3> QED  BY <1>1, <3>1
  <2> HIDE DEF last
  <2> QED  BY <1>1, <2>4, <2>5, <2>6
<1> QED  BY <1>2, <1>3

LEMMA LockStep ==
    ASSUME CatalogueInv, NEW e \in Editors, LockProduct(e)
    PROVE  CatalogueInv'
<1> DEFINE q == edit[e]
           n == NextPlace(q.of)
           k == [q EXCEPT !.at = "placing", !.place = n]
<1>1. /\ q \in EditCalls /\ EditFits(q) /\ q.at = "adding" /\ RowLockFree(q.of) /\ n <= MaxPlace
      /\ edit' = [edit EXCEPT ![e] = k] /\ UNCHANGED <<product, variant, given>>
  <2>1. q \in EditCalls /\ EditFits(q)
    BY DEF CatalogueInv, CatalogueTables, EditsFit
  <2>2. edit' = [edit EXCEPT ![e] = k]
    BY DEF LockProduct
  <2> HIDE DEF k
  <2> QED  BY <2>1, <2>2 DEF LockProduct
<1>2. q.of \in Products /\ product[q.of] # "absent" /\ Len(q.skus) = 1 /\ q.written = 0
  BY <1>1, CatalogueConstants DEF EditFits
<1>3. n \in Nat /\ \A v \in Of(q.of) : v.place < n
  BY <1>2, NextPlaceIs
<1> HIDE DEF n
<1>4. /\ k \in EditCalls /\ k.at = "placing" /\ k.of = q.of /\ k.skus = q.skus /\ k.written = 0 /\ k.place = n
  BY <1>1, <1>2, <1>3 DEF EditCalls
<1> HIDE DEF k
<1>5. EditFits(k)
  BY <1>1, <1>2, <1>3, <1>4, CatalogueConstants DEF EditFits
<1>6. ASSUME NEW f \in Editors \ {e} PROVE Apart(k, edit[f])
  <2>1. Apart(q, edit[f]) /\ (edit[f].at = "placing" => edit[f].of # q.of)
    BY <1>1 DEF CatalogueInv, EditsFit, RowLockFree
  <2> QED  BY <1>2, <1>4, <2>1 DEF Apart
<1> QED  BY <1>1, <1>4, <1>5, <1>6, EditMoves
-----------------------------------------------------------------------------
(* Steps that change rows.                                                   *)
LEMMA CommitProductStep ==
    ASSUME CatalogueInv, NEW e \in Editors, CommitProduct(e)
    PROVE  CatalogueInv'
<1> DEFINE q == edit[e]
           p == q.of
           a == [of |-> p, sku |-> q.skus[1], place |-> 0]
           b == [of |-> p, sku |-> q.skus[2], place |-> 1]
<1>1. /\ q \in EditCalls /\ EditFits(q) /\ q.at = "creating" /\ ~Unwritten(e)
      /\ product' = [product EXCEPT ![p] = "there"] /\ variant' = variant \cup Written(e)
      /\ given' = [given EXCEPT ![p] = q.written] /\ edit' = [edit EXCEPT ![e] = NoEdit]
  BY DEF CommitProduct, Answers, CatalogueInv, CatalogueTables, EditsFit
<1>2. /\ p \in Products /\ product[p] = "absent" /\ Len(q.skus) = 2 /\ q.skus[1] # q.skus[2] /\ q.written = 2
      /\ q.skus[1] \in Names /\ q.skus[2] \in Names
      /\ ~SkuTaken(q.skus[1]) /\ ~SkuTaken(q.skus[2])
  <2>1. /\ p \in Products /\ product[p] = "absent" /\ Len(q.skus) = 2 /\ q.skus[1] # q.skus[2] /\ q.written = 2
        /\ q.skus \in Seq(Names)
    BY <1>1 DEF EditFits, EditCalls, Unwritten
  <2>2. \A i \in 1 .. q.written : ~SkuTaken(q.skus[i])
    BY <1>1 DEF EditFits
  <2>3. q.skus[1] \in Names /\ q.skus[2] \in Names
    BY <2>1
  <2> QED  BY <2>1, <2>2, <2>3
<1>3. Written(e) = {a, b}
  <2>1. Written(e) = {[of |-> p, sku |-> q.skus[i], place |-> i - 1] : i \in 1 .. 2}
    BY <1>2 DEF Written
  <2>2. 1 .. 2 = {1, 2} /\ 1 - 1 = 0 /\ 2 - 1 = 1
    OBVIOUS
  <2> HIDE DEF q, p
  <2> QED  BY <2>1, <2>2
<1>4. /\ a \in VariantRows /\ b \in VariantRows /\ a.of = p /\ b.of = p /\ a.sku = q.skus[1] /\ b.sku = q.skus[2]
      /\ a.place = 0 /\ b.place = 1
  BY <1>2, CatalogueConstants DEF VariantRows
<1> HIDE DEF a, b
<1>5. Of(p) = {} /\ \A v \in variant : v.of # p
  BY <1>2 DEF CatalogueInv, RowsStand, Of
<1>6. \A r \in Products : Of(r)' = IF r = p THEN {a, b} ELSE Of(r)
  <2>1. variant' = variant \cup {a, b}
    BY <1>1, <1>3
  <2> HIDE DEF q, p
  <2>2. ASSUME NEW r \in Products PROVE Of(r)' = IF r = p THEN {a, b} ELSE Of(r)
    <3>1. Of(r)' = {v \in variant : v.of = r} \cup {v \in {a, b} : v.of = r}
      BY <2>1 DEF Of
    <3>2. CASE r = p
      <4>1. {v \in variant : v.of = r} = {} /\ {v \in {a, b} : v.of = r} = {a, b}
        BY <1>4, <1>5, <3>2
      <4> QED  BY <3>1, <3>2, <4>1
    <3>3. CASE r # p
      <4>1. {v \in {a, b} : v.of = r} = {}
        BY <1>4, <3>3
      <4> QED  BY <3>1, <3>3, <4>1 DEF Of
    <3> QED  BY <3>2, <3>3
  <2> QED  BY <2>2
<1>7. Cardinality({a, b}) = 2
  <2>1. {a, b} = ({} \cup {a}) \cup {b} /\ b \notin {} \cup {a} /\ a \notin {}
    BY <1>4
  <2>2. IsFiniteSet({}) /\ Cardinality({}) = 0
    BY FS_EmptySet
  <2>3. IsFiniteSet({} \cup {a}) /\ Cardinality({} \cup {a}) = 0 + 1
    BY <2>1, <2>2, FS_AddElement
  <2> QED  BY <2>1, <2>3, FS_AddElement
<1>8. /\ product' \in [Products -> {"absent", "there", "hidden"}] /\ given' \in [Products -> Nat]
      /\ product'[p] = "there" /\ given'[p] = 2
      /\ \A r \in Products \ {p} : product'[r] = product[r] /\ given'[r] = given[r]
  BY <1>1, <1>2 DEF CatalogueInv, CatalogueTables
<1>9. RowsStand'
  <2>0. variant' = (variant \cup {a}) \cup {b}
    BY <1>1, <1>3
  <2>1. variant' \subseteq VariantRows /\ IsFiniteSet(variant')
    <3>1. IsFiniteSet(variant) /\ variant \subseteq VariantRows
      BY DEF CatalogueInv, RowsStand
    <3>2. IsFiniteSet(variant \cup {a})
      BY <3>1, FS_AddElement
    <3>3. IsFiniteSet((variant \cup {a}) \cup {b})
      BY <3>2, FS_AddElement
    <3> QED  BY <1>4, <2>0, <3>1, <3>3
  <2>2. \A v, w \in variant' : v.sku = w.sku \/ (v.of = w.of /\ v.place = w.place) => v = w
    <3>1. \A v, w \in variant : v.sku = w.sku \/ (v.of = w.of /\ v.place = w.place) => v = w
      BY DEF CatalogueInv, RowsStand
    <3>2. \A v \in variant : v.sku # a.sku /\ v.sku # b.sku
      BY <1>2, <1>4 DEF SkuTaken
    <3>3. a.sku # b.sku /\ a.place # b.place
      BY <1>2, <1>4
    <3> HIDE DEF p, q
    <3> QED  BY <1>4, <1>5, <2>0, <3>1, <3>2, <3>3
  <2>3. \A v \in variant' : product'[v.of] # "absent"
    <3>1. \A v \in variant : v.of \in Products /\ product[v.of] # "absent"
      BY DEF CatalogueInv, RowsStand, VariantRows
    <3> HIDE DEF p
    <3> QED  BY <1>4, <1>8, <2>0, <3>1
  <2>4. ASSUME NEW r \in Products PROVE given'[r] = Cardinality(Of(r)')
    <3>1. given[r] = Cardinality(Of(r))
      BY DEF CatalogueInv, RowsStand
    <3> HIDE DEF p
    <3>2. CASE r = p
      BY <1>6, <1>7, <1>8, <3>2
    <3>3. CASE r # p
      BY <1>6, <1>8, <3>1, <3>3
    <3> QED  BY <3>2, <3>3
  <2> QED  BY <2>1, <2>2, <2>3, <2>4 DEF RowsStand
<1>10. ASSUME NEW f \in Editors, edit'[f] = edit[f] PROVE EditFits(edit[f])'
  <2>1. f # e
    <3>1. edit'[e] = NoEdit
      BY <1>1 DEF CatalogueInv, CatalogueTables
    <3> QED  BY <1>1, <1>10, <3>1, NoEditIs, CatalogueConstants
  <2>2. EditFits(edit[f]) /\ Apart(q, edit[f])
    BY <2>1 DEF CatalogueInv, EditsFit
  <2>3. edit[f].of # p
    BY <1>1, <2>2 DEF Apart
  <2>4. \A j \in 1 .. edit[f].written : edit[f].skus[j] # a.sku /\ edit[f].skus[j] # b.sku
    <3>1. 1 \in 1 .. q.written /\ 2 \in 1 .. q.written
      BY <1>2
    <3> HIDE DEF q
    <3> QED  BY <1>4, <2>2, <3>1 DEF Apart
  <2>5. variant' = variant \cup {a, b}
    BY <1>1, <1>3
  <2>6. \A i \in 1 .. edit[f].written : \A v \in variant' : v.sku # edit[f].skus[i]
    BY <2>2, <2>4, <2>5 DEF EditFits, SkuTaken
  <2>7. edit[f].at = "placing" => \A v \in variant' : v.of = edit[f].of => v.place < edit[f].place
    <3> HIDE DEF p
    <3> QED  BY <1>4, <2>2, <2>3, <2>5 DEF EditFits, Of
  <2>8. edit[f].of \in Products => (product'[edit[f].of] = "absent" <=> product[edit[f].of] = "absent")
    BY <1>8, <2>3
  <2> QED  BY <1>10, <2>2, <2>6, <2>7, <2>8, StillFits
<1>11. edit' \in [Editors -> EditCalls] /\ EditsFit'
  BY <1>1, <1>10, CallsRest
<1> QED  BY <1>8, <1>9, <1>11 DEF CatalogueInv, CatalogueTables

(* One row is added behind the others, by the call that holds its product.   *)
LEMMA CreateVariantStep ==
    ASSUME CatalogueInv, NEW e \in Editors, CreateVariant(e)
    PROVE  CatalogueInv'
<1> DEFINE q == edit[e]
           p == q.of
           s == q.skus[1]
           x == [of |-> p, sku |-> s, place |-> q.place]
<1>1. /\ q \in EditCalls /\ EditFits(q) /\ q.at = "placing" /\ Held(s) = {} /\ UNCHANGED product
      /\ edit' = [edit EXCEPT ![e] = NoEdit]
      /\ IF SkuTaken(s) THEN UNCHANGED <<variant, given>>
         ELSE variant' = variant \cup {x} /\ given' = [given EXCEPT ![p] = @ + 1]
  BY DEF CreateVariant, Answers, CatalogueInv, CatalogueTables, EditsFit
<1>2. CASE SkuTaken(s)
  <2>1. RollsBack(e)
    BY <1>1, <1>2 DEF RollsBack, Answers
  <2> QED  BY <2>1, RollsBackStep
<1>3. CASE ~SkuTaken(s)
  <2>1. /\ p \in Products /\ product[p] # "absent" /\ q.place \in 0 .. MaxPlace
        /\ \A v \in Of(p) : v.place < q.place
        /\ s \in Names
    <3>1. /\ p \in Products /\ product[p] # "absent" /\ Len(q.skus) = 1 /\ q.skus \in Seq(Names)
          /\ q.place \in Nat /\ q.place <= MaxPlace /\ \A v \in Of(p) : v.place < q.place
      BY <1>1 DEF EditFits, EditCalls
    <3>2. q.place \in 0 .. MaxPlace /\ q.skus[1] \in Names
      BY <3>1, CatalogueConstants
    <3> QED  BY <3>1, <3>2
  <2>2. x \in VariantRows /\ x.of = p /\ x.sku = s /\ x.place = q.place
    BY <2>1, CatalogueConstants DEF VariantRows
  <2> HIDE DEF x
  <2>3. variant' = variant \cup {x} /\ given' = [given EXCEPT ![p] = @ + 1]
    BY <1>1, <1>3
  <2>4. /\ \A v \in variant : v.sku # x.sku /\ v # x
        /\ \A v \in variant : v.of = x.of => v.place < x.place
    BY <1>3, <2>1, <2>2 DEF SkuTaken, Of
  <2>5. \A r \in Products : Of(r)' = (IF r = p THEN Of(r) \cup {x} ELSE Of(r)) /\ x \notin Of(r)
    <3> HIDE DEF p
    <3>1. ASSUME NEW r \in Products PROVE Of(r)' = (IF r = p THEN Of(r) \cup {x} ELSE Of(r)) /\ x \notin Of(r)
      <4>1. Of(r)' = {v \in variant : v.of = r} \cup {v \in {x} : v.of = r}
        BY <2>3 DEF Of
      <4>2. {v \in {x} : v.of = r} = IF r = p THEN {x} ELSE {}
        BY <2>2
      <4> QED  BY <2>4, <4>1, <4>2 DEF Of
    <3> QED  BY <3>1
  <2>6. /\ variant \subseteq VariantRows /\ IsFiniteSet(variant) /\ IsFiniteSet(Of(p))
        /\ \A r \in Products : given[r] = Cardinality(Of(r)) /\ given[r] \in Nat
    <3>1. IsFiniteSet(variant) /\ Of(p) \subseteq variant
      BY DEF CatalogueInv, RowsStand, Of
    <3>2. IsFiniteSet(Of(p))
      BY <3>1, FS_Subset
    <3> QED  BY <3>1, <3>2 DEF CatalogueInv, CatalogueTables, RowsStand
  <2>7. /\ given' \in [Products -> Nat] /\ given'[p] = given[p] + 1
        /\ \A r \in Products \ {p} : given'[r] = given[r]
    BY <2>1, <2>3, <2>6 DEF CatalogueInv, CatalogueTables
  <2>8. RowsStand'
    <3>1. IsFiniteSet(variant') /\ variant' \subseteq VariantRows
      BY <2>2, <2>3, <2>6, FS_AddElement
    <3>2. \A v, w \in variant' : v.sku = w.sku \/ (v.of = w.of /\ v.place = w.place) => v = w
      <4>1. \A v, w \in variant : v.sku = w.sku \/ (v.of = w.of /\ v.place = w.place) => v = w
        BY DEF CatalogueInv, RowsStand
      <4>2. x.place \in Int /\ \A v \in variant : v.place \in Int
        BY <2>2, <2>6 DEF VariantRows
      <4> QED  BY <2>3, <2>4, <4>1, <4>2
    <3>3. \A v \in variant' : product'[v.of] # "absent"
      BY <1>1, <2>1, <2>2, <2>3 DEF CatalogueInv, RowsStand
    <3>4. Cardinality(Of(p) \cup {x}) = Cardinality(Of(p)) + 1
      BY <2>1, <2>5, <2>6, FS_AddElement
    <3>5. ASSUME NEW r \in Products PROVE given'[r] = Cardinality(Of(r)')
      <4>1. CASE r = p
        <5>1. Of(r)' = Of(p) \cup {x}
          BY <2>5, <4>1
        <5> HIDE DEF p
        <5> QED  BY <2>1, <2>6, <2>7, <3>4, <4>1, <5>1
      <4>2. CASE r # p
        <5>1. Of(r)' = Of(r)
          BY <2>5, <4>2
        <5> HIDE DEF p
        <5> QED  BY <2>6, <2>7, <4>2, <5>1
      <4> QED  BY <4>1, <4>2
    <3> QED  BY <3>1, <3>2, <3>3, <3>5 DEF RowsStand
  <2>9. ASSUME NEW f \in Editors, edit'[f] = edit[f] PROVE EditFits(edit[f])'
    <3>1. f # e
      <4>1. edit'[e] = NoEdit
        BY <1>1 DEF CatalogueInv, CatalogueTables
      <4> QED  BY <1>1, <2>9, <4>1, NoEditIs, CatalogueConstants
    <3>2. EditFits(edit[f]) /\ Apart(q, edit[f])
      BY <3>1 DEF CatalogueInv, EditsFit
    <3>3. \A i \in 1 .. edit[f].written : \A v \in variant' : v.sku # edit[f].skus[i]
      <4>1. \A i \in 1 .. edit[f].written : edit[f].skus[i] # s
        BY <1>1 DEF Held
      <4> QED  BY <2>2, <2>3, <3>2, <4>1 DEF EditFits, SkuTaken
    <3>4. edit[f].at = "placing" => \A v \in variant' : v.of = edit[f].of => v.place < edit[f].place
      <4>1. edit[f].at = "placing" => edit[f].of # x.of
        BY <1>1, <2>2, <3>2 DEF Apart
      <4> QED  BY <2>3, <3>2, <4>1 DEF EditFits, Of
    <3> QED  BY <1>1, <2>9, <3>2, <3>3, <3>4, StillFits
  <2>10. edit' \in [Editors -> EditCalls] /\ EditsFit'
    BY <1>1, <2>9, CallsRest
  <2> QED  BY <1>1, <2>7, <2>8, <2>10 DEF CatalogueInv, CatalogueTables
<1> QED  BY <1>2, <1>3

(* An edit in place moves a name and nothing else.                           *)
LEMMA UpdateVariantStep == ASSUME CatalogueInv, UpdateVariant PROVE CatalogueInv'
<1> PICK x \in variant, s \in Typed :
      /\ product[x.of] = "there" /\ ~SkuTaken(s) /\ Held(s) = {}
      /\ variant' = (variant \ {x}) \cup {[x EXCEPT !.sku = s]}
      /\ UNCHANGED <<product, edit, given>>
  BY DEF UpdateVariant
<1> DEFINE y == [x EXCEPT !.sku = s]
<1>1. variant' = (variant \ {x}) \cup {y}
  OBVIOUS
<1>2. x \in VariantRows /\ y \in VariantRows /\ y.of = x.of /\ y.place = x.place /\ y.sku = s
  <2>1. x \in VariantRows
    BY DEF CatalogueInv, RowsStand
  <2> QED  BY <2>1 DEF VariantRows, Names
<1> HIDE DEF y
<1>3. /\ variant \subseteq VariantRows /\ IsFiniteSet(variant) /\ \A v \in variant : v.sku # s
      /\ \A v, w \in variant : v.sku = w.sku \/ (v.of = w.of /\ v.place = w.place) => v = w
      /\ \A v \in variant : product[v.of] # "absent"
      /\ \A r \in Products : given[r] = Cardinality(Of(r))
  BY DEF CatalogueInv, RowsStand, SkuTaken
<1>4. RowsStand'
  <2>1. variant' \subseteq VariantRows /\ IsFiniteSet(variant')
    <3>1. IsFiniteSet(variant \ {x})
      BY <1>3, FS_RemoveElement
    <3>2. IsFiniteSet((variant \ {x}) \cup {y})
      BY <3>1, FS_AddElement
    <3> QED  BY <1>1, <1>2, <1>3, <3>2
  <2>2. \A v, w \in variant' : v.sku = w.sku \/ (v.of = w.of /\ v.place = w.place) => v = w
    BY <1>1, <1>2, <1>3
  <2>3. \A v \in variant' : product'[v.of] # "absent"
    BY <1>1, <1>2, <1>3
  <2>4. ASSUME NEW r \in Products PROVE given'[r] = Cardinality(Of(r)')
    <3>1. CASE r = x.of
      <4>1. Of(r)' = (Of(r) \ {x}) \cup {y} /\ x \in Of(r) /\ y \notin Of(r) \ {x}
        BY <1>1, <1>2, <1>3, <3>1 DEF Of
      <4>2. IsFiniteSet(Of(r)) /\ Cardinality(Of(r)) \in Nat
        <5>1. Of(r) \subseteq variant
          BY DEF Of
        <5> QED  BY <1>3, <5>1, FS_Subset, FS_CardinalityType
      <4>3. IsFiniteSet(Of(r) \ {x}) /\ Cardinality(Of(r) \ {x}) = Cardinality(Of(r)) - 1
        BY <4>1, <4>2, FS_RemoveElement
      <4>4. Cardinality((Of(r) \ {x}) \cup {y}) = Cardinality(Of(r) \ {x}) + 1
        BY <4>1, <4>3, FS_AddElement
      <4> QED  BY <1>3, <4>1, <4>2, <4>3, <4>4
    <3>2. CASE r # x.of
      <4>1. Of(r)' = Of(r)
        BY <1>1, <1>2, <3>2 DEF Of
      <4> QED  BY <1>3, <4>1
    <3> QED  BY <3>1, <3>2
  <2> QED  BY <2>1, <2>2, <2>3, <2>4 DEF RowsStand
<1>5. ASSUME NEW f \in Editors, edit'[f] = edit[f] PROVE EditFits(edit[f])'
  <2>1. EditFits(edit[f])
    BY DEF CatalogueInv, EditsFit
  <2>2. \A i \in 1 .. edit[f].written : \A v \in variant' : v.sku # edit[f].skus[i]
    <3>1. \A i \in 1 .. edit[f].written : edit[f].skus[i] # s
      BY DEF Held
    <3> QED  BY <1>1, <1>2, <2>1, <3>1 DEF EditFits, SkuTaken
  <2>3. edit[f].at = "placing" => \A v \in variant' : v.of = edit[f].of => v.place < edit[f].place
    BY <1>1, <1>2, <2>1 DEF EditFits, Of
  <2> QED  BY <1>5, <2>1, <2>2, <2>3, StillFits
<1>6. edit' \in [Editors -> EditCalls] /\ EditsFit'
  BY <1>5, CallsRest
<1> QED  BY <1>4, <1>6 DEF CatalogueInv, CatalogueTables

LEMMA RemoveVariantStep == ASSUME CatalogueInv, RemoveVariant PROVE CatalogueInv'
<1> PICK x \in variant :
      /\ product[x.of] = "there" /\ variant' = variant \ {x}
      /\ given' = [given EXCEPT ![x.of] = @ - 1] /\ UNCHANGED <<product, edit>>
  BY DEF RemoveVariant
<1>1. /\ variant \subseteq VariantRows /\ IsFiniteSet(variant)
      /\ \A v, w \in variant : v.sku = w.sku \/ (v.of = w.of /\ v.place = w.place) => v = w
      /\ \A v \in variant : product[v.of] # "absent"
      /\ \A r \in Products : given[r] = Cardinality(Of(r)) /\ given[r] \in Nat
  BY DEF CatalogueInv, RowsStand, CatalogueTables
<1>2. x.of \in Products
  BY <1>1 DEF VariantRows
<1>3. Of(x.of)' = Of(x.of) \ {x} /\ x \in Of(x.of) /\ \A r \in Products \ {x.of} : Of(r)' = Of(r)
  BY DEF Of
<1>4. /\ IsFiniteSet(Of(x.of) \ {x}) /\ Cardinality(Of(x.of) \ {x}) = Cardinality(Of(x.of)) - 1
      /\ Cardinality(Of(x.of) \ {x}) \in Nat
  <2>1. IsFiniteSet(Of(x.of))
    <3>1. Of(x.of) \subseteq variant
      BY DEF Of
    <3> QED  BY <1>1, <3>1, FS_Subset
  <2>2. IsFiniteSet(Of(x.of) \ {x}) /\ Cardinality(Of(x.of) \ {x}) = Cardinality(Of(x.of)) - 1
    BY <1>3, <2>1, FS_RemoveElement
  <2> QED  BY <2>2, FS_CardinalityType
<1>5. /\ given' \in [Products -> Nat] /\ given'[x.of] = given[x.of] - 1
      /\ \A r \in Products \ {x.of} : given'[r] = given[r]
  <2>1. given[x.of] - 1 \in Nat
    BY <1>1, <1>2, <1>4
  <2> QED  BY <1>2, <2>1 DEF CatalogueInv, CatalogueTables
<1>6. RowsStand'
  <2>1. IsFiniteSet(variant')
    BY <1>1, FS_RemoveElement
  <2>2. ASSUME NEW r \in Products PROVE given'[r] = Cardinality(Of(r)')
    <3>1. CASE r = x.of
      BY <1>1, <1>2, <1>3, <1>4, <1>5, <3>1
    <3>2. CASE r # x.of
      BY <1>1, <1>3, <1>5, <3>2
    <3> QED  BY <3>1, <3>2
  <2> QED  BY <1>1, <2>1, <2>2 DEF RowsStand
<1>7. ASSUME NEW f \in Editors, edit'[f] = edit[f] PROVE EditFits(edit[f])'
  <2>1. EditFits(edit[f])
    BY DEF CatalogueInv, EditsFit
  <2> QED  BY <1>7, <2>1, StillFits DEF EditFits, SkuTaken, Of
<1>8. edit' \in [Editors -> EditCalls] /\ EditsFit'
  BY <1>7, CallsRest
<1> QED  BY <1>5, <1>6, <1>8 DEF CatalogueInv, CatalogueTables

LEMMA RemoveProductStep == ASSUME CatalogueInv, RemoveProduct PROVE CatalogueInv'
<1> PICK p \in Products :
      /\ product[p] = "there" /\ RowLockFree(p) /\ product' = [product EXCEPT ![p] = "hidden"]
      /\ UNCHANGED <<variant, edit, given>>
  BY DEF RemoveProduct
<1>1. /\ product' \in [Products -> {"absent", "there", "hidden"}]
      /\ \A r \in Products : product'[r] = "absent" <=> product[r] = "absent"
  BY DEF CatalogueInv, CatalogueTables
<1>2. RowsStand'
  <2>1. \A v \in variant : v.of \in Products
    BY DEF CatalogueInv, RowsStand, VariantRows
  <2> QED  BY <1>1, <2>1 DEF CatalogueInv, RowsStand, Of
<1>3. ASSUME NEW f \in Editors, edit'[f] = edit[f] PROVE EditFits(edit[f])'
  <2>1. EditFits(edit[f])
    BY DEF CatalogueInv, EditsFit
  <2> QED  BY <1>1, <1>3, <2>1, StillFits DEF EditFits, SkuTaken, Of
<1>4. edit' \in [Editors -> EditCalls] /\ EditsFit'
  BY <1>3, CallsRest
<1> QED  BY <1>1, <1>2, <1>4 DEF CatalogueInv, CatalogueTables

LEMMA CatalogueStep == CatalogueInv /\ [CatalogueNext]_catalogueVars => CatalogueInv'
<1> SUFFICES ASSUME CatalogueInv, [CatalogueNext]_catalogueVars PROVE CatalogueInv'
  OBVIOUS
<1>1. ASSUME NEW e \in Editors, EditStep(e) PROVE CatalogueInv'
  <2>1. SkuConflict(e) \/ DeadlockAborts(e) => CatalogueInv'
    BY RollsBackStep DEF SkuConflict, DeadlockAborts
  <2> QED  BY <1>1, <2>1, CreateStep, InsertVariantStep, CommitProductStep, AddStep, LockStep, CreateVariantStep DEF EditStep
<1>2. CASE UNCHANGED catalogueVars
  BY <1>2
  DEF catalogueVars, CatalogueInv, CatalogueTables, RowsStand, EditsFit, EditFits, Apart, Of, SkuTaken
<1> QED  BY <1>1, <1>2, UpdateVariantStep, RemoveVariantStep, RemoveProductStep DEF CatalogueNext

(* A set of rows that differ in a column has as many values in that column.  *)
LEMMA ColumnCount ==
    ASSUME NEW S, IsFiniteSet(S), NEW f, f = [v \in S |-> f[v]], \A v, w \in S : f[v] = f[w] => v = w
    PROVE  Cardinality({f[v] : v \in S}) = Cardinality(S)
<1> DEFINE T == {f[v] : v \in S}
<1>1. f \in [S -> T]
  OBVIOUS
<1>2. \A t \in T : \E v \in S : f[v] = t
  OBVIOUS
<1> HIDE DEF T
<1>3. f \in Bijection(S, T)
  <2>1. f \in Surjection(S, T)
    BY <1>1, <1>2 DEF Surjection
  <2> QED  BY <1>1, <2>1, Fun_IsBij
<1>4. ExistsBijection(S, T)
  BY <1>3 DEF ExistsBijection
<1> QED  BY <1>4, FS_Bijection DEF T

(* The catalogue's rows are in order in every state.                         *)
THEOREM CatalogueInvariance == CatalogueSpec => []CatalogueInv
  BY CatalogueInitially, CatalogueStep, PTL DEF CatalogueSpec

(* Whatever creations, additions, edits, removals, refusals and aborted      *)
(* transactions overlap, a product has exactly the variants answered for,    *)
(* each at its own place, and no two variants share a SKU.                   *)
THEOREM VariantsAlwaysComplete == CatalogueSpec => []VariantsComplete
<1>1. CatalogueInv => VariantsComplete
  <2> SUFFICES ASSUME CatalogueInv PROVE VariantsComplete
    OBVIOUS
  <2>0. /\ variant \subseteq VariantRows /\ IsFiniteSet(variant)
        /\ \A v, w \in variant : v.sku = w.sku \/ (v.of = w.of /\ v.place = w.place) => v = w
        /\ \A p \in Products : given[p] = Cardinality(Of(p))
    BY DEF CatalogueInv, RowsStand
  <2>1. CatalogueTypeOK
    BY <2>0, CatalogueConstants DEF CatalogueInv, CatalogueTables, CatalogueTypeOK, VariantRows
  <2>2. ASSUME NEW p \in Products PROVE Cardinality({v.place : v \in Of(p)}) = given[p]
    <3> DEFINE f == [v \in Of(p) |-> v.place]
    <3>1. IsFiniteSet(Of(p))
      <4>1. Of(p) \subseteq variant
        BY DEF Of
      <4> QED  BY <2>0, <4>1, FS_Subset
    <3>2. f = [v \in Of(p) |-> f[v]] /\ \A v, w \in Of(p) : f[v] = f[w] => v = w
      BY <2>0 DEF Of
    <3>3. {f[v] : v \in Of(p)} = {v.place : v \in Of(p)}
      OBVIOUS
    <3> HIDE DEF f
    <3>4. Cardinality({f[v] : v \in Of(p)}) = Cardinality(Of(p))
      BY <3>1, <3>2, ColumnCount
    <3> QED  BY <2>0, <3>3, <3>4
  <2>3. Cardinality({v.sku : v \in variant}) = Cardinality(variant)
    <3> DEFINE f == [v \in variant |-> v.sku]
    <3>1. f = [v \in variant |-> f[v]] /\ \A v, w \in variant : f[v] = f[w] => v = w
      BY <2>0
    <3>2. {f[v] : v \in variant} = {v.sku : v \in variant}
      OBVIOUS
    <3> HIDE DEF f
    <3>3. Cardinality({f[v] : v \in variant}) = Cardinality(variant)
      BY <2>0, <3>1, ColumnCount
    <3> QED  BY <3>2, <3>3
  <2> QED  BY <2>1, <2>2, <2>3 DEF VariantsComplete
<1> QED  BY <1>1, CatalogueInvariance, PTL
-----------------------------------------------------------------------------
(* Orders, of any items, prices and stock, by any number of concurrent calls *)
(* of the player and of administrators.                                      *)

(* The orders whose tokens are with the house: charged and not refunded.     *)
Paid == {o \in Bought : charges[o] > refunds[o]}

(* What a call in progress knows, and still may rely on when others act: the *)
(* order was there when it read it, a cancellation it decided on owes the    *)
(* tokens of a claim and of nothing else.                                    *)
CallsKnow ==
    \A c \in Callers \cup Admins :
        /\ pc[c] = "checked" => job[c] \in Bought
        /\ pc[c] = "read" => /\ c \in Admins
                             /\ job[c] \in Shipments \cup Redemptions
                             /\ status[job[c]] # "NONE"
        /\ pc[c] = "read" /\ job[c] \in Shipments =>
              /\ goal[c] \in {"IN_TRANSIT", "DELIVERED", "CANCELLED"}
              /\ owed[c] => job[c] \in Claims
              /\ goal[c] = "CANCELLED" /\ job[c] \in Claims => owed[c]

(* Without overlap what it read is still so.                                 *)
ReadsHold ==
    ~overlap => \A a \in Admins : pc[a] = "read" =>
        /\ \A b \in Admins : pc[b] = "read" => b = a
        /\ job[a] \in Shipments => goal[a] \in Allowed(status[job[a]])
        /\ job[a] \in Redemptions => status[job[a]] = "PENDING_FULFILLMENT"

(* A pending order was not refunded, a cancelled one was; without overlap no *)
(* live order was; and what waits for its fulfilment has no code yet.        *)
RowsAgree ==
    /\ \A o \in Bought :
          /\ status[o] = PendingStatus(o) => refunds[o] = 0
          /\ status[o] = "CANCELLED" => refunds[o] = 1
          /\ ~overlap /\ Live(o) => refunds[o] = 0
    /\ \A o \in Redemptions : status[o] \in {"NONE", "PENDING_FULFILLMENT"} => code[o] = "none"

(* The exact account, overlap or not.                                        *)
WalletIsExact == balance = Opening - debt - CostOf(Paid)

RecordInv ==
    /\ OrdersTypeOK
    /\ OneChargeOneRefund
    /\ CallsKnow
    /\ ReadsHold
    /\ RowsAgree

(* The inductive invariant.                                                  *)
OrdersInv == RecordInv /\ WalletIsExact /\ StockCoversOrders

-----------------------------------------------------------------------------
(* The rows and the calls.                                                   *)

(* StartCreate asks nothing of the rows. *)
LEMMA StartCreateRecord ==
    ASSUME OrdersInv, NEW c \in Callers, NEW o \in Bought, StartCreate(c, o)
    PROVE  RecordInv'
<1> USE KindsAssumption, NoOrderAssumption, ItemAssumption, CostAssumption DEF OrdersInv, RecordInv, Bought, Shipments, Orders
<1>1. OrdersTypeOK'
  BY DEF OrdersTypeOK, Statuses, ShipmentStatus, RedemptionStatus, CallsKnow, StartCreate, Undisturbed, Start, rowVars, moneyVars
<1>2. OneChargeOneRefund'
  BY DEF OrdersTypeOK, OneChargeOneRefund, CallsKnow, RowsAgree, StartCreate, Undisturbed, Start, rowVars, moneyVars
<1>3. CallsKnow'
  BY DEF OrdersTypeOK, CallsKnow, OneChargeOneRefund, RowsAgree, Allowed, StartCreate, Undisturbed, Start, rowVars, moneyVars
<1>4. ReadsHold'
  BY DEF OrdersTypeOK, ReadsHold, CallsKnow, Allowed, StartCreate, Undisturbed, Start, rowVars, moneyVars
<1>5. RowsAgree'
  BY DEF OrdersTypeOK, RowsAgree, PendingStatus, CallsKnow, ReadsHold, OneChargeOneRefund, Allowed, Live, StartCreate, Undisturbed, Start, rowVars, moneyVars
<1> QED BY <1>1, <1>2, <1>3, <1>4, <1>5

(* A created order is charged, and pending. *)
LEMMA CreateRecord ==
    ASSUME OrdersInv, NEW c \in Callers, Create(c)
    PROVE  RecordInv'
<1> USE KindsAssumption, NoOrderAssumption, ItemAssumption, CostAssumption DEF OrdersInv, RecordInv, Bought, Shipments, Orders
<1>1. OrdersTypeOK'
  BY DEF OrdersTypeOK, Statuses, ShipmentStatus, RedemptionStatus, CallsKnow, Create, Undisturbed, Return, Fresh, InStock, AddStock, PendingStatus
<1>2. OneChargeOneRefund'
  BY DEF OrdersTypeOK, OneChargeOneRefund, CallsKnow, RowsAgree, Create, Undisturbed, Return, Fresh, InStock, AddStock, PendingStatus
<1>3. CallsKnow'
  BY DEF OrdersTypeOK, CallsKnow, OneChargeOneRefund, RowsAgree, Allowed, Create, Undisturbed, Return, Fresh, InStock, AddStock, PendingStatus
<1>4. ReadsHold'
  BY DEF OrdersTypeOK, ReadsHold, CallsKnow, Allowed, Create, Undisturbed, Return, Fresh, InStock, AddStock, PendingStatus
<1>5. RowsAgree'
  BY DEF OrdersTypeOK, RowsAgree, PendingStatus, CallsKnow, ReadsHold, OneChargeOneRefund, Allowed, Live, Create, Undisturbed, Return, Fresh, InStock, AddStock
<1> QED BY <1>1, <1>2, <1>3, <1>4, <1>5

(* A refused call only returns. *)
LEMMA CreateRefusedRecord ==
    ASSUME OrdersInv, NEW c \in Callers, CreateRefused(c)
    PROVE  RecordInv'
<1> USE KindsAssumption, NoOrderAssumption, ItemAssumption, CostAssumption DEF OrdersInv, RecordInv, Bought, Shipments, Orders
<1>1. OrdersTypeOK'
  BY DEF OrdersTypeOK, Statuses, ShipmentStatus, RedemptionStatus, CallsKnow, CreateRefused, Undisturbed, Return, rowVars, moneyVars
<1>2. OneChargeOneRefund'
  BY DEF OrdersTypeOK, OneChargeOneRefund, CallsKnow, RowsAgree, CreateRefused, Undisturbed, Return, rowVars, moneyVars
<1>3. CallsKnow'
  BY DEF OrdersTypeOK, CallsKnow, OneChargeOneRefund, RowsAgree, Allowed, CreateRefused, Undisturbed, Return, rowVars, moneyVars
<1>4. ReadsHold'
  BY DEF OrdersTypeOK, ReadsHold, CallsKnow, Allowed, CreateRefused, Undisturbed, Return, rowVars, moneyVars
<1>5. RowsAgree'
  BY DEF OrdersTypeOK, RowsAgree, PendingStatus, CallsKnow, ReadsHold, OneChargeOneRefund, Allowed, Live, CreateRefused, Undisturbed, Return, rowVars, moneyVars
<1> QED BY <1>1, <1>2, <1>3, <1>4, <1>5

(* The player's cancellation refunds what was charged. *)
LEMMA CancelOwnedRecord ==
    ASSUME OrdersInv, NEW o \in Orders, CancelOwned(o)
    PROVE  RecordInv'
<1> USE KindsAssumption, NoOrderAssumption, ItemAssumption, CostAssumption DEF OrdersInv, RecordInv, Bought, Shipments, Orders
<1>1. OrdersTypeOK'
  BY DEF OrdersTypeOK, Statuses, ShipmentStatus, RedemptionStatus, CallsKnow, CancelOwned, Undisturbed, AddStock, Refundable, Refund, NoRefund, PendingStatus, callVars
<1>2. OneChargeOneRefund'
  BY DEF OrdersTypeOK, OneChargeOneRefund, CallsKnow, RowsAgree, CancelOwned, Undisturbed, AddStock, Refundable, Refund, NoRefund, PendingStatus, callVars
<1>3. CallsKnow'
  BY DEF OrdersTypeOK, CallsKnow, OneChargeOneRefund, RowsAgree, Allowed, CancelOwned, Undisturbed, AddStock, Refundable, Refund, NoRefund, PendingStatus, callVars
<1>4. ReadsHold'
  BY DEF OrdersTypeOK, ReadsHold, CallsKnow, Allowed, CancelOwned, Undisturbed, AddStock, Refundable, Refund, NoRefund, PendingStatus, callVars
<1>5. RowsAgree'
  BY DEF OrdersTypeOK, RowsAgree, PendingStatus, CallsKnow, ReadsHold, OneChargeOneRefund, Allowed, Live, CancelOwned, Undisturbed, AddStock, Refundable, Refund, NoRefund, callVars
<1> QED BY <1>1, <1>2, <1>3, <1>4, <1>5

(* Using a code ends the order. *)
LEMMA RedeemRecord ==
    ASSUME OrdersInv, NEW o \in Redemptions, Redeem(o)
    PROVE  RecordInv'
<1> USE KindsAssumption, NoOrderAssumption, ItemAssumption, CostAssumption DEF OrdersInv, RecordInv, Bought, Shipments, Orders
<1>1. OrdersTypeOK'
  BY DEF OrdersTypeOK, Statuses, ShipmentStatus, RedemptionStatus, CallsKnow, Redeem, Undisturbed, moneyVars, callVars
<1>2. OneChargeOneRefund'
  BY DEF OrdersTypeOK, OneChargeOneRefund, CallsKnow, RowsAgree, Redeem, Undisturbed, moneyVars, callVars
<1>3. CallsKnow'
  BY DEF OrdersTypeOK, CallsKnow, OneChargeOneRefund, RowsAgree, Allowed, Redeem, Undisturbed, moneyVars, callVars
<1>4. ReadsHold'
  BY DEF OrdersTypeOK, ReadsHold, CallsKnow, Allowed, Redeem, Undisturbed, moneyVars, callVars
<1>5. RowsAgree'
  BY DEF OrdersTypeOK, RowsAgree, PendingStatus, CallsKnow, ReadsHold, OneChargeOneRefund, Allowed, Live, Redeem, Undisturbed, moneyVars, callVars
<1> QED BY <1>1, <1>2, <1>3, <1>4, <1>5

(* So does its expiry. *)
LEMMA ExpireOwnedRecord ==
    ASSUME OrdersInv, NEW o \in Redemptions, ExpireOwned(o)
    PROVE  RecordInv'
<1> USE KindsAssumption, NoOrderAssumption, ItemAssumption, CostAssumption DEF OrdersInv, RecordInv, Bought, Shipments, Orders
<1>1. OrdersTypeOK'
  BY DEF OrdersTypeOK, Statuses, ShipmentStatus, RedemptionStatus, CallsKnow, ExpireOwned, Undisturbed, moneyVars, callVars
<1>2. OneChargeOneRefund'
  BY DEF OrdersTypeOK, OneChargeOneRefund, CallsKnow, RowsAgree, ExpireOwned, Undisturbed, moneyVars, callVars
<1>3. CallsKnow'
  BY DEF OrdersTypeOK, CallsKnow, OneChargeOneRefund, RowsAgree, Allowed, ExpireOwned, Undisturbed, moneyVars, callVars
<1>4. ReadsHold'
  BY DEF OrdersTypeOK, ReadsHold, CallsKnow, Allowed, ExpireOwned, Undisturbed, moneyVars, callVars
<1>5. RowsAgree'
  BY DEF OrdersTypeOK, RowsAgree, PendingStatus, CallsKnow, ReadsHold, OneChargeOneRefund, Allowed, Live, ExpireOwned, Undisturbed, moneyVars, callVars
<1> QED BY <1>1, <1>2, <1>3, <1>4, <1>5

(* A gift charges nobody. *)
LEMMA CreateGiftRecord ==
    ASSUME OrdersInv, NEW o \in Gifts, CreateGift(o)
    PROVE  RecordInv'
<1> USE KindsAssumption, NoOrderAssumption, ItemAssumption, CostAssumption DEF OrdersInv, RecordInv, Bought, Shipments, Orders
<1>1. OrdersTypeOK'
  BY DEF OrdersTypeOK, Statuses, ShipmentStatus, RedemptionStatus, CallsKnow, CreateGift, Undisturbed, AddStock, InStock, callVars
<1>2. OneChargeOneRefund'
  BY DEF OrdersTypeOK, OneChargeOneRefund, CallsKnow, RowsAgree, CreateGift, Undisturbed, AddStock, InStock, callVars
<1>3. CallsKnow'
  BY DEF OrdersTypeOK, CallsKnow, OneChargeOneRefund, RowsAgree, Allowed, CreateGift, Undisturbed, AddStock, InStock, callVars
<1>4. ReadsHold'
  BY DEF OrdersTypeOK, ReadsHold, CallsKnow, Allowed, CreateGift, Undisturbed, AddStock, InStock, callVars
<1>5. RowsAgree'
  BY DEF OrdersTypeOK, RowsAgree, PendingStatus, CallsKnow, ReadsHold, OneChargeOneRefund, Allowed, Live, CreateGift, Undisturbed, AddStock, InStock, callVars
<1> QED BY <1>1, <1>2, <1>3, <1>4, <1>5

(* An administrator reads a shipment that is there. *)
LEMMA ReadShipmentRecord ==
    ASSUME OrdersInv, NEW a \in Admins, NEW o \in Shipments, NEW to \in ShipmentStatus, ReadShipment(a, o, to)
    PROVE  RecordInv'
<1> USE KindsAssumption, NoOrderAssumption, ItemAssumption, CostAssumption DEF OrdersInv, RecordInv, Bought, Shipments, Orders
<1>1. OrdersTypeOK'
  BY DEF OrdersTypeOK, Statuses, ShipmentStatus, RedemptionStatus, CallsKnow, ReadShipment, Undisturbed, Start, rowVars, moneyVars
<1>2. OneChargeOneRefund'
  BY DEF OrdersTypeOK, OneChargeOneRefund, CallsKnow, RowsAgree, ReadShipment, Undisturbed, Start, rowVars, moneyVars
<1>3. CallsKnow'
  <2>1. /\ to \in {"IN_TRANSIT", "DELIVERED", "CANCELLED"} /\ status[o] # "NONE"
        /\ to = "CANCELLED" => status[o] = "PENDING"
    BY DEF ReadShipment, Allowed
  <2>2. /\ charges[o] > 0 => o \in Claims
        /\ to = "CANCELLED" /\ o \in Claims => charges[o] > 0 /\ refunds[o] = 0
    BY <2>1 DEF OneChargeOneRefund, RowsAgree, PendingStatus
  <2>3. UNCHANGED <<status, charges, refunds>>
    BY DEF ReadShipment, rowVars
  <2>4. ASSUME NEW d \in (Callers \cup Admins) \ {a}
        PROVE  pc'[d] = pc[d] /\ job'[d] = job[d] /\ (d \in Admins => goal'[d] = goal[d] /\ owed'[d] = owed[d])
    BY DEF OrdersTypeOK, ReadShipment, Start
  <2>5. pc'[a] = "read" /\ job'[a] = o /\ goal'[a] = to /\ owed'[a] = (charges[o] > 0 /\ refunds[o] = 0)
    BY DEF OrdersTypeOK, ReadShipment, Start
  <2> QED BY <2>1, <2>2, <2>3, <2>4, <2>5 DEF CallsKnow
<1>4. ReadsHold'
  BY DEF OrdersTypeOK, ReadsHold, CallsKnow, Allowed, ReadShipment, Undisturbed, Start, rowVars, moneyVars
<1>5. RowsAgree'
  BY DEF OrdersTypeOK, RowsAgree, PendingStatus, CallsKnow, ReadsHold, OneChargeOneRefund, Allowed, Live, ReadShipment, Undisturbed, Start, rowVars, moneyVars
<1> QED BY <1>1, <1>2, <1>3, <1>4, <1>5

(* Moving a shipment charges and refunds nothing. *)
LEMMA MoveShipmentRecord ==
    ASSUME OrdersInv, NEW a \in Admins, MoveShipment(a)
    PROVE  RecordInv'
<1> USE KindsAssumption, NoOrderAssumption, ItemAssumption, CostAssumption DEF OrdersInv, RecordInv, Bought, Shipments, Orders
<1>1. OrdersTypeOK'
  BY DEF OrdersTypeOK, Statuses, ShipmentStatus, RedemptionStatus, CallsKnow, MoveShipment, Return, moneyVars
<1>2. OneChargeOneRefund'
  BY DEF OrdersTypeOK, OneChargeOneRefund, CallsKnow, RowsAgree, MoveShipment, Return, moneyVars
<1>3. CallsKnow'
  BY DEF OrdersTypeOK, CallsKnow, OneChargeOneRefund, RowsAgree, Allowed, MoveShipment, Return, moneyVars
<1>4. ReadsHold'
  BY DEF OrdersTypeOK, ReadsHold, CallsKnow, Allowed, MoveShipment, Return, moneyVars
<1>5. RowsAgree'
  BY DEF OrdersTypeOK, RowsAgree, PendingStatus, CallsKnow, ReadsHold, OneChargeOneRefund, Allowed, Live, MoveShipment, Return, moneyVars
<1> QED BY <1>1, <1>2, <1>3, <1>4, <1>5

(* A cancelled shipment is refunded if its tokens are owed. *)
LEMMA CancelShipmentRecord ==
    ASSUME OrdersInv, NEW a \in Admins, CancelShipment(a)
    PROVE  RecordInv'
<1> USE KindsAssumption, NoOrderAssumption, ItemAssumption, CostAssumption DEF OrdersInv, RecordInv, Bought, Shipments, Orders
<1>1. OrdersTypeOK'
  BY DEF OrdersTypeOK, Statuses, ShipmentStatus, RedemptionStatus, CallsKnow, CancelShipment, Return, AddStock, Refundable, Refund, NoRefund
<1>2. OneChargeOneRefund'
  BY DEF OrdersTypeOK, OneChargeOneRefund, CallsKnow, RowsAgree, CancelShipment, Return, AddStock, Refundable, Refund, NoRefund
<1>3. CallsKnow'
  BY DEF OrdersTypeOK, CallsKnow, OneChargeOneRefund, RowsAgree, Allowed, CancelShipment, Return, AddStock, Refundable, Refund, NoRefund
<1>4. ReadsHold'
  BY DEF OrdersTypeOK, ReadsHold, CallsKnow, Allowed, CancelShipment, Return, AddStock, Refundable, Refund, NoRefund
<1>5. RowsAgree'
  BY DEF OrdersTypeOK, RowsAgree, PendingStatus, CallsKnow, ReadsHold, OneChargeOneRefund, Allowed, Live, CancelShipment, Return, AddStock, Refundable, Refund, NoRefund
<1> QED BY <1>1, <1>2, <1>3, <1>4, <1>5

(* A refused cancellation only returns. *)
LEMMA CancelShipmentThrowsRecord ==
    ASSUME OrdersInv, NEW a \in Admins, CancelShipmentThrows(a)
    PROVE  RecordInv'
<1> USE KindsAssumption, NoOrderAssumption, ItemAssumption, CostAssumption DEF OrdersInv, RecordInv, Bought, Shipments, Orders
<1>1. OrdersTypeOK'
  BY DEF OrdersTypeOK, Statuses, ShipmentStatus, RedemptionStatus, CallsKnow, CancelShipmentThrows, Return, rowVars, moneyVars
<1>2. OneChargeOneRefund'
  BY DEF OrdersTypeOK, OneChargeOneRefund, CallsKnow, RowsAgree, CancelShipmentThrows, Return, rowVars, moneyVars
<1>3. CallsKnow'
  BY DEF OrdersTypeOK, CallsKnow, OneChargeOneRefund, RowsAgree, Allowed, CancelShipmentThrows, Return, rowVars, moneyVars
<1>4. ReadsHold'
  BY DEF OrdersTypeOK, ReadsHold, CallsKnow, Allowed, CancelShipmentThrows, Return, rowVars, moneyVars
<1>5. RowsAgree'
  BY DEF OrdersTypeOK, RowsAgree, PendingStatus, CallsKnow, ReadsHold, OneChargeOneRefund, Allowed, Live, CancelShipmentThrows, Return, rowVars, moneyVars
<1> QED BY <1>1, <1>2, <1>3, <1>4, <1>5

(* An administrator reads a redemption that waits. *)
LEMMA ReadRedemptionRecord ==
    ASSUME OrdersInv, NEW a \in Admins, NEW o \in Redemptions, ReadRedemption(a, o)
    PROVE  RecordInv'
<1> USE KindsAssumption, NoOrderAssumption, ItemAssumption, CostAssumption DEF OrdersInv, RecordInv, Bought, Shipments, Orders
<1>1. OrdersTypeOK'
  BY DEF OrdersTypeOK, Statuses, ShipmentStatus, RedemptionStatus, CallsKnow, ReadRedemption, Undisturbed, Fulfillable, Start, rowVars, moneyVars
<1>2. OneChargeOneRefund'
  BY DEF OrdersTypeOK, OneChargeOneRefund, CallsKnow, RowsAgree, ReadRedemption, Undisturbed, Fulfillable, Start, rowVars, moneyVars
<1>3. CallsKnow'
  BY DEF OrdersTypeOK, CallsKnow, OneChargeOneRefund, RowsAgree, Allowed, ReadRedemption, Undisturbed, Fulfillable, Start, rowVars, moneyVars
<1>4. ReadsHold'
  BY DEF OrdersTypeOK, ReadsHold, CallsKnow, Allowed, ReadRedemption, Undisturbed, Fulfillable, Start, rowVars, moneyVars
<1>5. RowsAgree'
  BY DEF OrdersTypeOK, RowsAgree, PendingStatus, CallsKnow, ReadsHold, OneChargeOneRefund, Allowed, Live, ReadRedemption, Undisturbed, Fulfillable, Start, rowVars, moneyVars
<1> QED BY <1>1, <1>2, <1>3, <1>4, <1>5

(* Fulfilling overwrites the code and the status. *)
LEMMA FulfillRecord ==
    ASSUME OrdersInv, NEW a \in Admins, NEW e \in {"none", "running"}, Fulfill(a, e)
    PROVE  RecordInv'
<1> USE KindsAssumption, NoOrderAssumption, ItemAssumption, CostAssumption DEF OrdersInv, RecordInv, Bought, Shipments, Orders
<1>1. OrdersTypeOK'
  BY DEF OrdersTypeOK, Statuses, ShipmentStatus, RedemptionStatus, CallsKnow, Fulfill, Return, moneyVars
<1>2. OneChargeOneRefund'
  BY DEF OrdersTypeOK, OneChargeOneRefund, CallsKnow, RowsAgree, Fulfill, Return, moneyVars
<1>3. CallsKnow'
  BY DEF OrdersTypeOK, CallsKnow, OneChargeOneRefund, RowsAgree, Allowed, Fulfill, Return, moneyVars
<1>4. ReadsHold'
  BY DEF OrdersTypeOK, ReadsHold, CallsKnow, Allowed, Fulfill, Return, moneyVars
<1>5. RowsAgree'
  BY DEF OrdersTypeOK, RowsAgree, PendingStatus, CallsKnow, ReadsHold, OneChargeOneRefund, Allowed, Live, Fulfill, Return, moneyVars
<1> QED BY <1>1, <1>2, <1>3, <1>4, <1>5

(* Time touches the expiry alone. *)
LEMMA TimePassesRecord ==
    ASSUME OrdersInv, NEW o \in Redemptions, TimePasses(o)
    PROVE  RecordInv'
<1> USE KindsAssumption, NoOrderAssumption, ItemAssumption, CostAssumption DEF OrdersInv, RecordInv, Bought, Shipments, Orders
<1>1. OrdersTypeOK'
  BY DEF OrdersTypeOK, Statuses, ShipmentStatus, RedemptionStatus, CallsKnow, TimePasses, moneyVars, callVars
<1>2. OneChargeOneRefund'
  BY DEF OrdersTypeOK, OneChargeOneRefund, CallsKnow, RowsAgree, TimePasses, moneyVars, callVars
<1>3. CallsKnow'
  BY DEF OrdersTypeOK, CallsKnow, OneChargeOneRefund, RowsAgree, Allowed, TimePasses, moneyVars, callVars
<1>4. ReadsHold'
  BY DEF OrdersTypeOK, ReadsHold, CallsKnow, Allowed, TimePasses, moneyVars, callVars
<1>5. RowsAgree'
  BY DEF OrdersTypeOK, RowsAgree, PendingStatus, CallsKnow, ReadsHold, OneChargeOneRefund, Allowed, Live, TimePasses, moneyVars, callVars
<1> QED BY <1>1, <1>2, <1>3, <1>4, <1>5

(* A chargeback touches the wallet alone. *)
LEMMA ChargebackRecord ==
    ASSUME OrdersInv, Chargeback
    PROVE  RecordInv'
<1> USE KindsAssumption, NoOrderAssumption, ItemAssumption, CostAssumption DEF OrdersInv, RecordInv, Bought, Shipments, Orders
<1>1. OrdersTypeOK'
  BY BalanceAssumption DEF OrdersTypeOK, Chargeback, rowVars, callVars
<1>2. OneChargeOneRefund'
  BY DEF OrdersTypeOK, OneChargeOneRefund, CallsKnow, RowsAgree, Chargeback, rowVars, callVars
<1>3. CallsKnow'
  BY DEF OrdersTypeOK, CallsKnow, OneChargeOneRefund, RowsAgree, Allowed, Chargeback, rowVars, callVars
<1>4. ReadsHold'
  BY DEF OrdersTypeOK, ReadsHold, CallsKnow, Allowed, Chargeback, rowVars, callVars
<1>5. RowsAgree'
  BY DEF OrdersTypeOK, RowsAgree, PendingStatus, CallsKnow, ReadsHold, OneChargeOneRefund, Allowed, Live, Chargeback, rowVars, callVars
<1> QED BY <1>1, <1>2, <1>3, <1>4, <1>5

-----------------------------------------------------------------------------
(* The wallet.                                                               *)

(* What a set of orders costs.                                               *)
LEMMA CostsAdd ==
    ASSUME NEW S \in SUBSET Orders
    PROVE  /\ CostOf(S) \in Int
           /\ \A o \in Orders \ S : CostOf(S \cup {o}) = CostOf(S) + Cost[o]
           /\ \A T \in SUBSET S : CostOf(T) <= CostOf(S)
<1>1. Cost \in [Orders -> Int] /\ Cost \in [Orders -> Nat]
  BY CostAssumption
<1> QED BY <1>1, OrdersFinite, SumIsInt, SumPut, SumGrows DEF CostOf

(* A step that neither charges nor refunds leaves the account as it is.      *)
LEMMA WalletUntouched ==
    ASSUME WalletIsExact, UNCHANGED <<charges, refunds, balance, debt>>
    PROVE  WalletIsExact'
<1>1. Paid' = Paid
  BY DEF Paid
<1> QED BY <1>1 DEF WalletIsExact

(* A created order is paid for.                                              *)
LEMMA CreatePays ==
    ASSUME OrdersInv, NEW c \in Callers, Create(c)
    PROVE  WalletIsExact'
<1> DEFINE o == job[c]
<1>1. o \in Bought /\ status[o] = "NONE" /\ charges[o] = 0 /\ refunds[o] = 0
  BY DEF OrdersInv, RecordInv, OrdersTypeOK, CallsKnow, OneChargeOneRefund, Orders, Create, Return, Fresh
<1>2. Paid' = Paid \cup {o} /\ o \notin Paid /\ Paid \in SUBSET Orders /\ o \in Orders
  BY <1>1 DEF OrdersInv, RecordInv, OrdersTypeOK, Paid, Orders, Create
<1>3. balance' = balance - Cost[o] /\ debt' = debt /\ Cost[o] \in Int
  BY <1>1, CostAssumption DEF Create, Orders
<1>4. balance \in Int /\ debt \in Int /\ Opening \in Int
  BY BalanceAssumption DEF OrdersInv, RecordInv, OrdersTypeOK
<1> HIDE DEF o
<1>5. CostOf(Paid') = CostOf(Paid) + Cost[o] /\ CostOf(Paid) \in Int
  BY <1>2, CostsAdd
<1> QED BY <1>3, <1>4, <1>5 DEF OrdersInv, WalletIsExact

(* A refund gives back what the order cost.                                  *)
LEMMA RefundReturns ==
    ASSUME OrdersInv, NEW o \in Bought, charges[o] > 0, refunds[o] = 0, Refund(o),
           UNCHANGED <<charges, debt>>
    PROVE  WalletIsExact'
<1>1. Paid = Paid' \cup {o} /\ o \notin Paid' /\ Paid' \in SUBSET Orders /\ o \in Orders
  BY DEF OrdersInv, RecordInv, OrdersTypeOK, OneChargeOneRefund, Paid, Orders, Refund
<1>2. balance' = balance + Cost[o] /\ Cost[o] \in Int
  BY CostAssumption DEF Refund, Orders
<1>3. balance \in Int /\ debt \in Int /\ Opening \in Int
  BY BalanceAssumption DEF OrdersInv, RecordInv, OrdersTypeOK
<1>4. CostOf(Paid) = CostOf(Paid') + Cost[o] /\ CostOf(Paid') \in Int
  BY <1>1, CostsAdd
<1> QED BY <1>2, <1>3, <1>4 DEF OrdersInv, WalletIsExact

(* The player's cancellation and the administrator's.                        *)
LEMMA CancelReturns ==
    ASSUME OrdersInv,
           \/ \E o \in Orders : CancelOwned(o)
           \/ \E a \in Admins : CancelShipment(a)
    PROVE  WalletIsExact'
<1>1. ASSUME NEW o \in Orders, CancelOwned(o) PROVE WalletIsExact'
  <2>1. charges[o] > 0 => o \in Bought
    BY DEF OrdersInv, RecordInv, OneChargeOneRefund
  <2> QED BY <1>1, <2>1, RefundReturns, WalletUntouched DEF OrdersInv, CancelOwned, NoRefund
<1>2. ASSUME NEW a \in Admins, CancelShipment(a) PROVE WalletIsExact'
  <2>1. owed[a] => job[a] \in Bought /\ charges[job[a]] > 0
    BY <1>2
    DEF OrdersInv, RecordInv, CallsKnow, OneChargeOneRefund, CancelShipment, Return, Bought, Orders
  <2> QED BY <1>2, <2>1, RefundReturns, WalletUntouched
          DEF OrdersInv, CancelShipment, NoRefund, Refundable
<1> QED BY <1>1, <1>2

(* Every step keeps the account.                                             *)
LEMMA WalletStep == OrdersInv /\ [OrdersNext]_orderVars => WalletIsExact'
<1> SUFFICES ASSUME OrdersInv, [OrdersNext]_orderVars PROVE WalletIsExact'
  OBVIOUS
<1>1. UNCHANGED <<charges, refunds, balance, debt>> => WalletIsExact'
  BY WalletUntouched DEF OrdersInv
<1>2. CASE Player
  BY <1>1, <1>2, CreatePays, CancelReturns
  DEF Player, StartCreate, CreateRefused, Redeem, ExpireOwned, rowVars, moneyVars
<1>3. CASE \E o \in Gifts : CreateGift(o)
  BY <1>1, <1>3 DEF CreateGift
<1>4. ASSUME NEW a \in Admins, Administrator(a) PROVE WalletIsExact'
  BY <1>1, <1>4, CancelReturns
  DEF Administrator, ReadShipment, MoveShipment, CancelShipmentThrows, ReadRedemption, Fulfill,
     rowVars, moneyVars
<1>5. CASE \E o \in Redemptions : TimePasses(o)
  BY <1>1, <1>5 DEF TimePasses, moneyVars
<1>6. CASE Chargeback
  <2>1. Paid' = Paid
    BY <1>6 DEF Chargeback, Paid, rowVars
  <2>2. CostOf(Paid) \in Int
    BY CostsAdd DEF Paid, Orders
  <2>3. CostOf(Paid)' = CostOf(Paid)
    BY <2>1 DEF CostOf
  <2> QED BY <1>6, <2>2, <2>3, BalanceAssumption
          DEF OrdersInv, RecordInv, OrdersTypeOK, WalletIsExact, Chargeback
<1>7. CASE UNCHANGED orderVars
  BY <1>1, <1>7 DEF orderVars, rowVars, moneyVars
<1> QED BY <1>2, <1>3, <1>4, <1>5, <1>6, <1>7 DEF OrdersNext

-----------------------------------------------------------------------------
(* The stock.                                                                *)

(* The orders whose units are out.                                           *)
Out(i) == {o \in Orders : Item[o] = i /\ Live(o)}

(* How many units are out when the status of one order changes.              *)
LEMMA UnitsChange ==
    ASSUME NEW o \in Orders, NEW i \in Items,
           \A x \in Orders \ {o} : status'[x] = status[x]
    PROVE  /\ Units(i) \in Nat
           /\ Item[o] # i \/ (Live(o) <=> Live(o)') => Units(i)' = Units(i)
           /\ Item[o] = i /\ ~Live(o) /\ Live(o)' => Units(i)' = Units(i) + 1
           /\ Item[o] = i /\ Live(o) /\ ~Live(o)' => Units(i)' = Units(i) - 1
<1> DEFINE before == Out(i)
           after  == Out(i)'
<1>1. IsFiniteSet(before) /\ IsFiniteSet(after) /\ Units(i) = Cardinality(before)
      /\ Units(i)' = Cardinality(after)
  BY OrdersFinite, FS_Subset DEF Out, Units
<1>2. Units(i) \in Nat
  BY <1>1, FS_CardinalityType
<1>3. \A x \in Orders \ {o} : Live(x)' <=> Live(x)
  BY DEF Live
<1>4. ASSUME Item[o] # i \/ (Live(o) <=> Live(o)') PROVE Units(i)' = Units(i)
  <2>1. after = before
    BY <1>3, <1>4 DEF Out
  <2> QED BY <1>1, <2>1, Zenon
<1>5. ASSUME Item[o] = i, ~Live(o), Live(o)' PROVE Units(i)' = Units(i) + 1
  <2>1. after = before \cup {o} /\ o \notin before
    BY <1>3, <1>5 DEF Out
  <2>2. Cardinality(after) = Cardinality(before) + 1
    BY <1>1, <2>1, FS_AddElement
  <2> QED BY <1>1, <2>2, Zenon
<1>6. ASSUME Item[o] = i, Live(o), ~Live(o)' PROVE Units(i)' = Units(i) - 1
  <2>1. after = before \ {o} /\ o \in before
    BY <1>3, <1>6 DEF Out
  <2>2. Cardinality(after) = Cardinality(before) - 1
    BY <1>1, <2>1, FS_RemoveElement
  <2> QED BY <1>1, <2>2, Zenon
<1> QED BY <1>2, <1>4, <1>5, <1>6

(* What the property asks of one item after a step.                          *)
Covered(i) ==
    /\ stock[i] >= 0
    /\ stock[i] + Units(i) >= Stock[i]
    /\ ~overlap => stock[i] + Units(i) = Stock[i]

(* Stock and units are numbers, and the units change with the order.         *)
LEMMA StockFacts ==
    ASSUME OrdersInv, NEW o \in Orders, NEW s, status' = [status EXCEPT ![o] = s],
           NEW i \in Items \ Unlimited
    PROVE  /\ Covered(i)
           /\ stock \in [Items -> Int] /\ Stock[i] \in Int /\ Units(i) \in Nat
           /\ Item[o] # i \/ (Live(o) <=> s \notin {"NONE", "CANCELLED"}) => Units(i)' = Units(i)
           /\ Item[o] = i /\ ~Live(o) /\ s \notin {"NONE", "CANCELLED"} => Units(i)' = Units(i) + 1
           /\ Item[o] = i /\ Live(o) /\ s \in {"NONE", "CANCELLED"} => Units(i)' = Units(i) - 1
<1>1. Covered(i)
  BY DEF OrdersInv, StockCoversOrders, Covered
<1>2. stock \in [Items -> Int] /\ Stock[i] \in Int
  BY StockAssumption DEF OrdersInv, RecordInv, OrdersTypeOK
<1>3. /\ \A x \in Orders \ {o} : status'[x] = status[x]
      /\ Live(o)' <=> s \notin {"NONE", "CANCELLED"}
  BY DEF OrdersInv, RecordInv, OrdersTypeOK, Live
<1>4. /\ Units(i) \in Nat
      /\ Item[o] # i \/ (Live(o) <=> Live(o)') => Units(i)' = Units(i)
      /\ Item[o] = i /\ ~Live(o) /\ Live(o)' => Units(i)' = Units(i) + 1
      /\ Item[o] = i /\ Live(o) /\ ~Live(o)' => Units(i)' = Units(i) - 1
  BY <1>3, UnitsChange
<1> QED BY <1>1, <1>2, <1>3, <1>4 DEF Live

(* An order that was not there takes a unit that is.                         *)
LEMMA TakesUnit ==
    ASSUME OrdersInv, NEW o \in Orders, NEW s \in Statuses \ {"NONE", "CANCELLED"},
           status[o] = "NONE", status' = [status EXCEPT ![o] = s],
           InStock(o), AddStock(o, -1), UNCHANGED overlap
    PROVE  StockCoversOrders'
<1> SUFFICES ASSUME NEW i \in Items \ Unlimited PROVE Covered(i)'
  BY DEF StockCoversOrders, Covered
<1>0. Covered(i) /\ stock[i] \in Int /\ Stock[i] \in Int /\ Units(i) \in Nat
  BY StockFacts
<1>1. CASE Item[o] = i
  <2>1. Units(i)' = Units(i) + 1 /\ Units(i) \in Nat
    BY <1>1, StockFacts DEF Live
  <2>2. stock'[i] = stock[i] - 1 /\ stock[i] > 0 /\ stock[i] \in Int /\ Stock[i] \in Int
    BY <1>1, StockFacts DEF AddStock, InStock
  <2> QED BY <1>0, <2>1, <2>2 DEF Covered
<1>2. CASE Item[o] # i
  <2>1. Units(i)' = Units(i) /\ stock'[i] = stock[i]
    BY <1>2, StockFacts DEF AddStock
  <2> QED BY <1>0, <2>1 DEF Covered
<1> QED BY <1>1, <1>2

(* A cancelled order gives its unit back; twice only when calls overlap.     *)
LEMMA GivesUnit ==
    ASSUME OrdersInv, NEW o \in Orders, status' = [status EXCEPT ![o] = "CANCELLED"],
           ~overlap => Live(o), AddStock(o, 1), UNCHANGED overlap
    PROVE  StockCoversOrders'
<1> SUFFICES ASSUME NEW i \in Items \ Unlimited PROVE Covered(i)'
  BY DEF StockCoversOrders, Covered
<1>0. Covered(i) /\ stock[i] \in Int /\ Stock[i] \in Int /\ Units(i) \in Nat
  BY StockFacts
<1>1. CASE Item[o] = i
  <2>1. /\ Live(o) => Units(i)' = Units(i) - 1
        /\ ~Live(o) => Units(i)' = Units(i)
        /\ Units(i) \in Nat
    BY <1>1, StockFacts
  <2>2. stock'[i] = stock[i] + 1 /\ stock[i] \in Int /\ Stock[i] \in Int
    BY <1>1, StockFacts DEF AddStock
  <2> QED BY <1>0, <2>1, <2>2 DEF Covered
<1>2. CASE Item[o] # i
  <2>1. Units(i)' = Units(i) /\ stock'[i] = stock[i]
    BY <1>2, StockFacts DEF AddStock
  <2> QED BY <1>0, <2>1 DEF Covered
<1> QED BY <1>1, <1>2

(* Moving an order on keeps its unit out; it may revive a cancelled one only *)
(* when calls overlap.                                                       *)
LEMMA KeepsUnit ==
    ASSUME OrdersInv, NEW o \in Orders, NEW s \in Statuses \ {"NONE", "CANCELLED"},
           status' = [status EXCEPT ![o] = s], ~overlap => Live(o), UNCHANGED <<stock, overlap>>
    PROVE  StockCoversOrders'
<1> SUFFICES ASSUME NEW i \in Items \ Unlimited PROVE Covered(i)'
  BY DEF StockCoversOrders, Covered
<1>0. Covered(i) /\ stock[i] \in Int /\ Stock[i] \in Int /\ Units(i) \in Nat
  BY StockFacts
<1>1. /\ Live(o) => Units(i)' = Units(i)
      /\ Units(i)' = Units(i) \/ Units(i)' = Units(i) + 1
  BY StockFacts
<1> QED BY <1>0, <1>1 DEF Covered

(* Every step keeps the stock.                                               *)
LEMMA StockStep == OrdersInv /\ [OrdersNext]_orderVars => StockCoversOrders'
<1> SUFFICES ASSUME OrdersInv, [OrdersNext]_orderVars PROVE StockCoversOrders'
  OBVIOUS
<1> USE DEF Bought, Shipments, Orders
<1>1. UNCHANGED <<status, stock, overlap>> => StockCoversOrders'
  BY DEF OrdersInv, StockCoversOrders, Units, Live
<1>2. CASE Player
  <2>1. ASSUME NEW c \in Callers, Create(c) PROVE StockCoversOrders'
    <3>1. job[c] \in Bought
      BY <2>1 DEF OrdersInv, RecordInv, CallsKnow, Create, Return
    <3>2. PendingStatus(job[c]) \in Statuses \ {"NONE", "CANCELLED"}
      BY DEF PendingStatus, Statuses, ShipmentStatus, RedemptionStatus
    <3> QED BY <2>1, <3>1, <3>2, TakesUnit DEF Create, Fresh
  <2>2. ASSUME NEW o \in Orders, CancelOwned(o) PROVE StockCoversOrders'
    BY <2>2, GivesUnit DEF CancelOwned, PendingStatus, Live
  <2>3. ASSUME NEW o \in Redemptions, Redeem(o) \/ ExpireOwned(o) PROVE StockCoversOrders'
    BY <2>3, KeepsUnit
    DEF Redeem, ExpireOwned, Live, moneyVars, Statuses, RedemptionStatus
  <2> QED BY <1>1, <1>2, <2>1, <2>2, <2>3
          DEF Player, StartCreate, CreateRefused, rowVars, moneyVars
<1>3. CASE \E o \in Gifts : CreateGift(o)
  BY <1>3, TakesUnit DEF CreateGift, Statuses, ShipmentStatus
<1>4. ASSUME NEW a \in Admins, Administrator(a) PROVE StockCoversOrders'
  <2>1. ASSUME MoveShipment(a) PROVE StockCoversOrders'
    <3>1. goal[a] \in {"IN_TRANSIT", "DELIVERED"} /\ (~overlap => Live(job[a]))
      BY <2>1 DEF OrdersInv, RecordInv, CallsKnow, ReadsHold, Allowed, Live, MoveShipment, Return
    <3> QED BY <2>1, <3>1, KeepsUnit DEF MoveShipment, moneyVars, Statuses, ShipmentStatus
  <2>2. ASSUME CancelShipment(a) PROVE StockCoversOrders'
    <3>1. status[job[a]] # "NONE" /\ (~overlap => Live(job[a]))
      BY <2>2 DEF OrdersInv, RecordInv, CallsKnow, ReadsHold, Allowed, Live, CancelShipment, Return
    <3> QED BY <2>2, <3>1, GivesUnit DEF CancelShipment
  <2>3. ASSUME NEW e \in {"none", "running"}, Fulfill(a, e) PROVE StockCoversOrders'
    <3>1. ~overlap => Live(job[a])
      BY <2>3 DEF OrdersInv, RecordInv, ReadsHold, Live, Fulfill, Return
    <3> QED BY <2>3, <3>1, KeepsUnit DEF Fulfill, moneyVars, Statuses, RedemptionStatus
  <2> QED BY <1>1, <1>4, <2>1, <2>2, <2>3
          DEF Administrator, ReadShipment, CancelShipmentThrows, ReadRedemption, rowVars, moneyVars
<1>5. CASE \E o \in Redemptions : TimePasses(o)
  BY <1>1, <1>5 DEF TimePasses, moneyVars
<1>6. CASE Chargeback
  BY <1>1, <1>6 DEF Chargeback, rowVars
<1>7. CASE UNCHANGED orderVars
  BY <1>1, <1>7 DEF orderVars, rowVars, moneyVars
<1> QED BY <1>2, <1>3, <1>4, <1>5, <1>6, <1>7 DEF OrdersNext

-----------------------------------------------------------------------------
(* The theorems.                                                             *)

(* The invariant holds initially.                                            *)
LEMMA OrdersInvInit == OrdersInit => OrdersInv
<1> SUFFICES ASSUME OrdersInit PROVE OrdersInv
  OBVIOUS
<1>1. RecordInv
  BY StockAssumption, BalanceAssumption, OverlapsAssumption
  DEF OrdersInit, RecordInv, OrdersTypeOK, OneChargeOneRefund, CallsKnow, ReadsHold, RowsAgree,
     Live, Statuses, PendingStatus, Bought, Orders
<1>2. WalletIsExact
  <2>1. Paid = {}
    BY DEF OrdersInit, Paid, Orders
  <2> QED BY <2>1, SumEmpty, BalanceAssumption DEF OrdersInit, WalletIsExact, CostOf
<1>3. StockCoversOrders
  <2>1. \A i \in Items : Units(i) = 0
    <3> SUFFICES ASSUME NEW i \in Items PROVE Units(i) = 0
      OBVIOUS
    <3>1. {o \in Orders : Item[o] = i /\ Live(o)} = {}
      BY DEF OrdersInit, Live
    <3> QED BY <3>1, FS_EmptySet DEF Units
  <2> QED BY <2>1, StockAssumption DEF OrdersInit, StockCoversOrders
<1> QED BY <1>1, <1>2, <1>3 DEF OrdersInv

(* Every step keeps the rows and the calls.                                  *)
LEMMA RecordStep == OrdersInv /\ [OrdersNext]_orderVars => RecordInv'
<1> SUFFICES ASSUME OrdersInv, [OrdersNext]_orderVars PROVE RecordInv'
  OBVIOUS
<1>1. CASE Player
  BY <1>1, StartCreateRecord, CreateRecord, CreateRefusedRecord, CancelOwnedRecord, RedeemRecord,
     ExpireOwnedRecord
  DEF Player
<1>2. ASSUME NEW a \in Admins, Administrator(a) PROVE RecordInv'
  BY <1>2, ReadShipmentRecord, MoveShipmentRecord, CancelShipmentRecord,
     CancelShipmentThrowsRecord, ReadRedemptionRecord, FulfillRecord
  DEF Administrator
<1>3. CASE UNCHANGED orderVars
  BY <1>3
  DEF OrdersInv, RecordInv, OrdersTypeOK, OneChargeOneRefund, CallsKnow, ReadsHold, RowsAgree,
     Live, orderVars, rowVars, moneyVars, callVars
<1> QED BY <1>1, <1>2, <1>3, CreateGiftRecord, TimePassesRecord, ChargebackRecord DEF OrdersNext

(* The invariant holds in every reachable state.                             *)
THEOREM OrdersInvariance == OrdersSpec => []OrdersInv
<1>1. OrdersInv /\ [OrdersNext]_orderVars => OrdersInv'
  BY RecordStep, WalletStep, StockStep DEF OrdersInv
<1> QED BY <1>1, OrdersInvInit, PTL DEF OrdersSpec

(* The wallet lacks what the live orders cost, or less.                      *)
LEMMA WalletCovers == OrdersInv => WalletPaysForOrders
<1> SUFFICES ASSUME OrdersInv PROVE WalletPaysForOrders
  OBVIOUS
<1> DEFINE live == {o \in Bought : Live(o)}
<1>1. live \in SUBSET Orders /\ Paid \in SUBSET live
  BY DEF OrdersInv, RecordInv, OrdersTypeOK, OneChargeOneRefund, RowsAgree, Live, Paid, Bought, Orders
<1>2. ~overlap => live = Paid
  BY <1>1 DEF OrdersInv, RecordInv, OneChargeOneRefund, RowsAgree, Live, Paid, Orders
<1>3. CostOf(Paid) <= CostOf(live) /\ CostOf(Paid) \in Int /\ CostOf(live) \in Int
  <2> HIDE DEF live
  <2> QED BY <1>1, CostsAdd
<1>4. Spent = CostOf(live)
  BY DEF Spent
<1> HIDE DEF live
<1>5. ~overlap => CostOf(live) = CostOf(Paid)
  BY <1>2
<1> QED BY <1>3, <1>4, <1>5, BalanceAssumption
        DEF OrdersInv, RecordInv, OrdersTypeOK, WalletIsExact, WalletPaysForOrders

(* Whatever calls of players and administrators overlap: an order is charged *)
(* and refunded at most once, a player is never short of tokens and no unit  *)
(* is lost; without overlap wallet and stock lack exactly what the live      *)
(* orders took.                                                              *)
THEOREM OrdersBacked == OrdersSpec => []OrdersAreBacked
<1>1. OrdersInv => OrdersAreBacked
  BY WalletCovers DEF OrdersInv, RecordInv, OrdersAreBacked
<1> QED BY <1>1, OrdersInvariance, PTL

-----------------------------------------------------------------------------
(* What is over.                                                             *)
StaysOver ==
    ~overlap =>
        /\ \A o \in Orders :
             status[o] \in {"DELIVERED", "CANCELLED", "REDEEMED", "EXPIRED"}
             => status'[o] = status[o]
        /\ \A o \in Redemptions : code[o] # "none" => code'[o] = code[o]

(* Without overlap no step touches an order that is over, or a code.         *)
LEMMA OverStep == OrdersInv /\ [OrdersNext]_orderVars => StaysOver
<1> SUFFICES ASSUME OrdersInv, [OrdersNext]_orderVars PROVE StaysOver
  OBVIOUS
<1> USE DEF OrdersInv, RecordInv, Bought, Shipments, Orders
<1>1. UNCHANGED <<status, code>> => StaysOver
  BY DEF StaysOver
<1>2. CASE Player
  <2>1. ASSUME NEW c \in Callers, Create(c) PROVE StaysOver
    BY <2>1 DEF StaysOver, OrdersTypeOK, Create, Fresh
  <2>2. ASSUME NEW o \in Orders, CancelOwned(o) PROVE StaysOver
    BY <2>2 DEF StaysOver, OrdersTypeOK, CancelOwned, PendingStatus
  <2>3. ASSUME NEW o \in Redemptions, Redeem(o) \/ ExpireOwned(o) PROVE StaysOver
    BY <2>3 DEF StaysOver, OrdersTypeOK, Redeem, ExpireOwned
  <2> QED BY <1>1, <1>2, <2>1, <2>2, <2>3 DEF Player, StartCreate, CreateRefused, rowVars
<1>3. CASE \E o \in Gifts : CreateGift(o)
  BY <1>3 DEF StaysOver, OrdersTypeOK, CreateGift
<1>4. ASSUME NEW a \in Admins, Administrator(a) PROVE StaysOver
  <2>1. CASE MoveShipment(a)
    BY <2>1 DEF StaysOver, OrdersTypeOK, ReadsHold, Allowed, MoveShipment, Return
  <2>2. CASE CancelShipment(a)
    BY <2>2 DEF StaysOver, OrdersTypeOK, ReadsHold, Allowed, CancelShipment, Return
  <2>3. ASSUME NEW e \in {"none", "running"}, Fulfill(a, e) PROVE StaysOver
    BY <2>3 DEF StaysOver, OrdersTypeOK, ReadsHold, RowsAgree, Fulfill, Return
  <2> QED BY <1>1, <1>4, <2>1, <2>2, <2>3
          DEF Administrator, ReadShipment, CancelShipmentThrows, ReadRedemption, rowVars
<1>5. CASE \E o \in Redemptions : TimePasses(o)
  BY <1>1, <1>5 DEF TimePasses
<1>6. CASE Chargeback
  BY <1>1, <1>6 DEF Chargeback, rowVars
<1>7. CASE UNCHANGED orderVars
  BY <1>1, <1>7 DEF orderVars, rowVars
<1> QED BY <1>2, <1>3, <1>4, <1>5, <1>6, <1>7 DEF OrdersNext

(* Without overlap an order that is over stays over, and a code is never     *)
(* replaced.                                                                 *)
THEOREM OverStays == OrdersSpec => OverIsOver
<1>1. OrdersInv /\ [OrdersNext]_orderVars
      => [~overlap =>
           /\ \A o \in Orders :
                status[o] \in {"DELIVERED", "CANCELLED", "REDEEMED", "EXPIRED"}
                => status'[o] = status[o]
           /\ \A o \in Redemptions : code[o] # "none" => code'[o] = code[o]]_orderVars
  BY OverStep DEF StaysOver
<1> QED BY <1>1, OrdersInvariance, PTL DEF OrdersSpec, OverIsOver
=============================================================================
