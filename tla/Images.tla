-------------------------------- MODULE Images --------------------------------
(***************************************************************************)
(* Pictures: the files on disk, the MediaAsset rows that name them, and the *)
(* rows that show them (tournaments, rewards and merchandise, avatars of    *)
(* administrators and players, tax documents).  Every handler uploads,      *)
(* then points its row at the new asset, then deletes the old one, each an  *)
(* await of its own; any of them may fail, and the process may stop.        *)
(* Deleting an asset sets the references to it to null (onDelete: SetNull). *)
(***************************************************************************)
EXTENDS Calls, Naturals, FiniteSets
CONSTANTS Shown,           \* the rows that may show a picture
          Kind,            \* "tournament", "reward", "merchandise", "admin", "player" or "tax"
          Assets, Handlers, Faults
WorkStages == {"storing", "registering", "reading", "writing", "cleaning", "undoing", "unlinking", "sweeping"}
ASSUME ImagesAssumption ==
  /\ Kind \in [Shown -> {"tournament", "reward", "merchandise", "admin", "player", "tax"}]
  /\ Free \notin Assets \cup Shown \cup WorkStages /\ Faults \in Nat
VARIABLES ref,             \* the asset each row shows
          row,             \* "absent", "there", or "hidden" (soft delete)
          asset,           \* MediaAsset rows
          file,            \* files on disk
          young,           \* assets within the grace period of the sweep
          work,            \* calls in progress
          fault,           \* failures so far
          chosen,          \* history: the asset last written to each row
          undone           \* history: rows whose call failed after its commit
imageVars == <<ref, row, asset, file, young, work, fault, chosen, undone>>

NoWork == [at |-> Free, on |-> Free, goal |-> Free, old |-> Free, new |-> Free]
ImagesTypeOK ==
  /\ ref \in [Shown -> Assets \cup {Free}] /\ row \in [Shown -> {"absent", "there", "hidden"}]
  /\ asset \subseteq Assets /\ file \subseteq Assets /\ young \subseteq asset
ImagesInit(there) ==
  /\ ref = [s \in Shown |-> Free] /\ chosen = ref
  /\ row = [s \in Shown |-> IF s \in there THEN "there" ELSE "absent"]
  /\ asset = {} /\ file = {} /\ young = {} /\ undone = {}
  /\ work = [h \in Handlers |-> NoWork] /\ fault = 0

Takes(h, step) == work[h].at = Free /\ work' = [work EXCEPT ![h] = step]
Goes(h, at) == work' = [work EXCEPT ![h].at = at]
Leaves(h) == work' = [work EXCEPT ![h] = NoWork]
Fails == fault < Faults /\ fault' = fault + 1
Nulled(a) == [s \in Shown |-> IF ref[s] = a THEN Free ELSE ref[s]]

-----------------------------------------------------------------------------
(* The handlers. *)
\* Creation, update and removal read the row they are about first (creation has none), and upload.
Uploads(h, s, goal) ==
  /\ Takes(h, [NoWork EXCEPT !.at = "storing", !.on = s, !.goal = goal, !.old = ref[s]])
  /\ UNCHANGED <<ref, row, asset, file, young, fault, chosen, undone>>
Unborn(s) == row[s] = "absent" /\ chosen[s] = Free
CreateTournament(h) == \E s \in Shown : Kind[s] = "tournament" /\ Unborn(s) /\ Uploads(h, s, "create")
CreateReward(h) == \E s \in Shown : Kind[s] = "reward" /\ Unborn(s) /\ Uploads(h, s, "create")
CreateMerchandise(h) == \E s \in Shown : Kind[s] = "merchandise" /\ Unborn(s) /\ Uploads(h, s, "create")
UpdateTournament(h) == \E s \in Shown : Kind[s] = "tournament" /\ row[s] = "there" /\ Uploads(h, s, "update")
UpdateReward(h) == \E s \in Shown : Kind[s] = "reward" /\ row[s] = "there" /\ Uploads(h, s, "update")
UpdateMerchandise(h) == \E s \in Shown : Kind[s] = "merchandise" /\ row[s] = "there" /\ Uploads(h, s, "update")
\* An administrator changes or removes his avatar.
UpdateProfile(h) == \E s \in Shown :
  /\ row[s] = "there" /\ Kind[s] = "admin"
  /\ \/ Uploads(h, s, "update")
     \/ /\ Takes(h, [NoWork EXCEPT !.at = "writing", !.on = s, !.goal = "update", !.old = ref[s]])
        /\ UNCHANGED <<ref, row, asset, file, young, fault, chosen, undone>>
RemoveTournament(h) == \E s \in Shown :
  /\ row[s] = "there" /\ Kind[s] = "tournament"
  /\ Takes(h, [NoWork EXCEPT !.at = "writing", !.on = s, !.goal = "delete", !.old = ref[s]])
  /\ UNCHANGED <<ref, row, asset, file, young, fault, chosen, undone>>
\* Soft deletes keep the reference.
Hides(s) == /\ row[s] = "there" /\ row' = [row EXCEPT ![s] = "hidden"]
            /\ UNCHANGED <<ref, asset, file, young, work, fault, chosen, undone>>
RemoveReward == \E s \in Shown : Kind[s] = "reward" /\ Hides(s)
RemoveMerchandise == \E s \in Shown : Kind[s] = "merchandise" /\ Hides(s)
\* A player's upload, and his choice of a drawn avatar instead, read the old asset in their transaction.
UploadAvatar(h) == \E s \in Shown :
  /\ row[s] = "there" /\ Kind[s] = "player"
  /\ Takes(h, [NoWork EXCEPT !.at = "storing", !.on = s, !.goal = "avatar"])
  /\ UNCHANGED <<ref, row, asset, file, young, fault, chosen, undone>>
DrawnAvatar(h) == \E s \in Shown :
  /\ row[s] = "there" /\ Kind[s] = "player"
  /\ Takes(h, [NoWork EXCEPT !.at = "reading", !.on = s, !.goal = "drawn"])
  /\ UNCHANGED <<ref, row, asset, file, young, fault, chosen, undone>>

\* uploadImage: the file first, under a new name (one that nobody remembers), then the asset row.
NewName(a) == /\ a \notin asset \cup file /\ \A s \in Shown : a \notin {ref[s], chosen[s]}
              /\ \A h \in Handlers : a \notin {work[h].old, work[h].new}
Store(h) == \E a \in Assets :
  /\ work[h].at = "storing" /\ NewName(a)
  /\ file' = file \cup {a} /\ work' = [work EXCEPT ![h].at = "registering", ![h].new = a]
  /\ UNCHANGED <<ref, row, asset, young, fault, chosen, undone>>
Register(h) == LET a == work[h].new IN
  /\ work[h].at = "registering"
  /\ \/ /\ asset' = asset \cup {a} /\ young' = young \cup {a} /\ UNCHANGED fault
        /\ Goes(h, IF work[h].goal = "avatar" THEN "reading" ELSE "writing")
     \/ Fails /\ Leaves(h) /\ UNCHANGED <<asset, young>>
  /\ UNCHANGED <<ref, row, file, chosen, undone>>
ReadInTransaction(h) ==
  /\ work[h].at = "reading"
  /\ work' = [work EXCEPT ![h].at = "writing", ![h].old = ref[work[h].on]]
  /\ UNCHANGED <<ref, row, asset, file, young, fault, chosen, undone>>

\* The row is written and the old asset is next; if that fails, the new one goes instead.
RowTakes(h) == LET w == work[h] IN
  /\ IF w.goal = "create" THEN row[w.on] = "absent" ELSE row[w.on] # "absent"
  /\ w.new = Free \/ w.new \in asset
Write(h) == LET w == work[h]  s == w.on IN
  /\ w.at = "writing"
  /\ \/ /\ RowTakes(h) /\ Goes(h, "cleaning") /\ UNCHANGED fault /\ undone' = undone \ {s}
        /\ ref' = [ref EXCEPT ![s] = w.new] /\ chosen' = [chosen EXCEPT ![s] = w.new]
        /\ row' = [row EXCEPT ![s] = IF w.goal = "create" THEN "there" ELSE IF w.goal = "delete" THEN "absent" ELSE @]
     \/ /\ Goes(h, "undoing") /\ IF RowTakes(h) THEN Fails ELSE UNCHANGED fault
        /\ UNCHANGED <<ref, row, chosen, undone>>
  /\ UNCHANGED <<asset, file, young>>
\* uploadAvatar reads the player again after the commit; if that fails, its catch deletes the new asset.
ReadBack(h) == LET w == work[h] IN
  /\ w.at = "cleaning" /\ w.goal = "avatar" /\ Fails /\ Goes(h, "undoing")
  /\ undone' = undone \cup {w.on}
  /\ UNCHANGED <<ref, row, asset, file, young, chosen>>

Doomed(h) == IF work[h].at = "undoing" THEN work[h].new ELSE work[h].old
\* deleteAsset: the row, if it is still there, and then the file; what fails is logged.
DeleteRow(h) == LET a == Doomed(h) IN
  /\ work[h].at \in {"cleaning", "undoing", "sweeping"}
  /\ IF a \in asset
     THEN /\ work' = [work EXCEPT ![h].at = "unlinking", ![h].old = a]
          /\ asset' = asset \ {a} /\ young' = young \ {a} /\ ref' = Nulled(a)
     ELSE Leaves(h) /\ UNCHANGED <<asset, young, ref>>
  /\ UNCHANGED <<row, file, fault, chosen, undone>>
DeleteFails(h) ==
  /\ work[h].at \in {"cleaning", "undoing", "sweeping"} /\ Doomed(h) \in asset /\ Fails /\ Leaves(h)
  /\ UNCHANGED <<ref, row, asset, file, young, chosen, undone>>
DeleteFile(h) ==
  /\ work[h].at = "unlinking" /\ Leaves(h)
  /\ \/ file' = file \ {work[h].old} /\ UNCHANGED fault
     \/ Fails /\ UNCHANGED file
  /\ UNCHANGED <<ref, row, asset, young, chosen, undone>>

-----------------------------------------------------------------------------
(* The sweep, tax documents, time, and the end of the process. *)
\* findOrphans: old assets to which none of the relations it lists points.
CountedWithoutPlayers == {"tournament", "reward", "merchandise"}
Counted == {"tournament", "reward", "merchandise", "player"}
Orphans == {a \in asset \ young : \A s \in Shown : Kind[s] \in Counted => ref[s] # a}
FindOrphan(h) == \E a \in Orphans :
  /\ Takes(h, [NoWork EXCEPT !.at = "sweeping", !.old = a])
  /\ UNCHANGED <<ref, row, asset, file, young, fault, chosen, undone>>
\* TaxService.record takes the id of any asset, or of none.
RecordTaxDocument == \E s \in Shown, a \in asset \cup {Free} :
  /\ Kind[s] = "tax" /\ row' = [row EXCEPT ![s] = "there"]
  /\ ref' = [ref EXCEPT ![s] = a] /\ chosen' = [chosen EXCEPT ![s] = a]
  /\ UNCHANGED <<asset, file, young, work, fault, undone>>
\* A day passes, longer than any call.
DayPasses ==
  /\ young # {} /\ young' = {} /\ \A h \in Handlers : work[h].at \in {Free, "sweeping"}
  /\ UNCHANGED <<ref, row, asset, file, work, fault, chosen, undone>>
Crash ==
  /\ Fails /\ work' = [h \in Handlers |-> NoWork]
  /\ UNCHANGED <<ref, row, asset, file, young, chosen, undone>>

HandlerStep(h) ==
  \/ CreateTournament(h) \/ CreateReward(h) \/ CreateMerchandise(h) \/ UpdateTournament(h) \/ UpdateReward(h)
  \/ UpdateMerchandise(h) \/ UpdateProfile(h) \/ RemoveTournament(h) \/ UploadAvatar(h) \/ DrawnAvatar(h)
  \/ Store(h) \/ Register(h) \/ ReadInTransaction(h) \/ Write(h) \/ ReadBack(h) \/ DeleteRow(h) \/ DeleteFails(h) \/ DeleteFile(h)
  \/ FindOrphan(h)
ImagesNext == RemoveReward \/ RemoveMerchandise \/ RecordTaxDocument \/ DayPasses \/ Crash \/ \E h \in Handlers : HandlerStep(h)
ImagesSpec == (\E there \in SUBSET Shown : ImagesInit(there)) /\ [][ImagesNext]_imageVars

-----------------------------------------------------------------------------
(* Properties. *)

\* "a MediaAsset pointing at a missing file renders a broken image": whatever fails half way, every asset
\* row has its file, and no row shows an asset that is gone.
AssetHasFile == asset \subseteq file /\ \A s \in Shown : ref[s] \in asset \cup {Free}

\* A tournament, an item or a player shows the picture it was last given, whatever updates, failures and
\* sweeps come between, unless its own upload failed after the commit.
PictureKept == ImagesTypeOK /\ AssetHasFile /\ \A s \in Shown \ undone : Kind[s] \in {"tournament", "reward", "merchandise", "player"} => ref[s] = chosen[s]

\* media.repository.ts on findOrphans: "Every relation declared on `MediaAsset` must appear here", lest the
\* cleanup deletes assets "while they are still on screen".  No asset is swept that an administrator shows.
SweepSparesAvatars == [][\A h \in Handlers, s \in Shown :
  Kind[s] = "admin" /\ work[h].at = "sweeping" /\ work'[h].at = "unlinking" => ref[s] # work[h].old]_imageVars
=============================================================================
