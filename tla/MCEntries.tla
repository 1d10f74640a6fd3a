----------------------------- MODULE MCEntries -----------------------------
(***************************************************************************)
(* Instances of Entries and Results for TLC: two players who enter three   *)
(* times between them, brackets of one and of two, or two players of a     *)
(* tournament without a bracket, a dispute of it and one of another.       *)
(***************************************************************************)
EXTENDS Results, TLC

CONSTANTS p1, p2, a1, a2, here, there

EntrySymmetry == Permutations(Players) \cup Permutations(Admins)

VARIABLE older    \* the tournament is older than the bracket

(* Bounds on an older tournament: the form changes the status only, nothing  *)
(* is charged back, one dispute is filed, a sheet gives the whole pool away, *)
(* one administrator does something other than submit results, and once it   *)
(* is cancelled or removed the calls under way end.                          *)
OlderBounds ==
    /\ debt' = 0
    /\ \A a \in Admins : form'[a] # NoForm => form'[a].fee = 1 /\ form'[a].size = 2
    /\ Cardinality({c \in Cases : case'[c] # Nothing}) <= 1
    /\ \A a \in Admins : sheet'[a] # Nothing => Total(sheet'[a]) = Pool
    /\ Cardinality({a \in Admins : pc'[a] \notin {"idle", "results"}}) <= 1
    /\ status \in {"CANCELLED", "GONE"} => \E a \in Admins : pc[a] # "idle" /\ pc'[a] = "idle"

MCInit ==
    /\ ResultsInit
    /\ older \in BOOLEAN
    /\ IF older THEN ByHandInit /\ fee = 1 ELSE Init

MCNext ==
    /\ ResultsNext
    /\ older => OlderBounds
    /\ UNCHANGED older

MCSpec == MCInit /\ [][MCNext]_<<vars, resultVars, older>>
=============================================================================
