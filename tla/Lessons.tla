------------------------------- MODULE Lessons -------------------------------
(***************************************************************************)
(* A player's progress through a lesson (player-learning): sections are to  *)
(* be viewed in order, the last one completes the lesson and tells him so.  *)
(* advance reads the progress row, awaits, and writes from what it read.    *)
(***************************************************************************)
EXTENDS Engagement
CONSTANTS Student, Sections,        \* sections 0..Sections-1
          RequiredRank, Rank, Versions
ASSUME LessonsAssumption == /\ Student \in Members /\ Sections \in Nat \ {0} /\ "lesson" \in Topics
                            /\ \A r \in Tiers : Rank[r] \in Nat
                            /\ Free \notin {"starting", "advancing"}
VARIABLES progress, version,        \* the row, and the version of the lesson's content
          study,                    \* calls in progress
          visited,                  \* history: sections recorded since the lesson was last begun
          stale                     \* history: the row was last written from a row that had changed meanwhile
lessonVars == <<progress, version, study, visited, stale>>

NoStudy == [at |-> Free, section |-> 0, read |-> Free, version |-> 0, old |-> FALSE]
LessonsTypeOK == progress.status \in {"none", "IN_PROGRESS", "COMPLETED"} /\ progress.section \in 0..(Sections - 1)
LessonsInit ==
  /\ progress = [status |-> "none", section |-> 0, version |-> 0, done |-> FALSE] /\ version = 1
  /\ study = [t \in Requests |-> NoStudy] /\ visited = {} /\ stale = FALSE

Opens(t, step) == study[t].at = Free /\ study' = [study EXCEPT ![t] = step]
\* Everybody who has read a row that changes now holds an old one.
Closes(t) == study' = [u \in Requests |-> IF u = t THEN NoStudy
                         ELSE [study[u] EXCEPT !.old = @ \/ (study[u].at # Free /\ progress' # progress)]]
Unlocked == Rank[tier[Student]] >= RequiredRank
Missing == progress.status = "none"

\* The lesson's text is replaced (the seed script is all that writes lessons).
Republish ==
  /\ version < Versions /\ version' = version + 1
  /\ UNCHANGED <<progress, study, visited, stale, engagementVars>>

Start(t) ==
  /\ Unlocked /\ Opens(t, [NoStudy EXCEPT !.at = "starting", !.version = version, !.read = progress])
  /\ UNCHANGED <<progress, version, visited, stale, engagementVars>>
\* A start that read no row resets the one another start has made meanwhile.
SameText(s) == s.read.status # "none" /\ s.read.version = s.version
Started(t) == LET s == study[t] IN
  /\ s.at = "starting"
  /\ \/ SameText(s) /\ UNCHANGED <<progress, visited, stale>>
     \/ /\ ~SameText(s) /\ visited' = {} /\ stale' = FALSE
        /\ progress' = [status |-> "IN_PROGRESS", section |-> 0, version |-> s.version, done |-> FALSE]
  /\ Closes(t) /\ UNCHANGED <<version, engagementVars>>

InAnyOrder(i) == TRUE
InOrder(i) == i <= progress.section + 1
Advance(t) == \E i \in 0..(Sections - 1) :
  /\ Unlocked /\ ~Missing /\ InOrder(i)
  /\ Opens(t, [NoStudy EXCEPT !.at = "advancing", !.section = i, !.read = progress])
  /\ UNCHANGED <<progress, version, visited, stale, engagementVars>>
Complete(i) == i = Sections - 1
Record(t) == LET s == study[t]  i == s.section IN
  /\ s.at = "advancing"
  /\ progress' = [progress EXCEPT !.section = IF s.read.section > i THEN s.read.section ELSE i,
                                  !.status = IF Complete(i) THEN "COMPLETED" ELSE "IN_PROGRESS",
                                  !.done = Complete(i) \/ s.read.done]
  /\ notes' = IF Complete(i) THEN Told(Student, "lesson") ELSE notes
  /\ visited' = visited \cup {i} /\ stale' = (stale \/ s.old) /\ Closes(t)
  /\ UNCHANGED <<version, tier, inApp, lead, membership, visit, moved, displaced>>

LessonStep(t) == Start(t) \/ Started(t) \/ Advance(t) \/ Record(t)
LessonsNext == (EngagementNext /\ UNCHANGED lessonVars) \/ Republish \/ \E t \in Requests : LessonStep(t)
LessonsSpec == EngagementInit /\ LessonsInit /\ [][LessonsNext]_<<engagementVars, lessonVars>>

-----------------------------------------------------------------------------
(* Properties. *)

\* The progress shown was earned section by section: every section up to the current one (the first may
\* be skipped) was recorded since the lesson was begun, and the lesson is marked done exactly if its last
\* one was, of which the player has been told; unless two calls wrote from the same row.
LessonsInOrder == LessonsTypeOK /\ (~stale /\ ~Missing =>
  /\ 1..progress.section \subseteq visited
  /\ progress.done <=> Sections - 1 \in visited
  /\ progress.done => notes[Student]["lesson"] # "none")
=============================================================================
