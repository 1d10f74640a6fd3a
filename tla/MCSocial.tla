------------------------------ MODULE MCSocial ------------------------------
(* The players' side; a behaviour exercises one part.  `friends': two players *)
(* ask, answer, part, block, challenge; `games': four friends who have        *)
(* challenged each other, two by two.  `told': notifications, the early-access *)
(* list and memberships of two; `dressed': the first one's animations;        *)
(* `taught': his lesson; in both an administrator still moves his tier.       *)
EXTENDS Challenges, Animations, Lessons, TLC
CONSTANTS ann, bob, cal, dee, t1, t2, card, skin, crown, e1, e2
VARIABLE part
vars == <<part, socialVars, engagementVars, animationVars, lessonVars>>
MCPairs == {{ann, bob}, {cal, dee}, {ann, cal}, {bob, dee}}
MCPending == <<<<ann, bob>>, <<cal, dee>>, <<ann, cal>>, <<bob, dee>>>>
MCCatalog == card :> [price |-> 2, category |-> 1, vip |-> FALSE] @@ skin :> [price |-> 1, category |-> 1, vip |-> FALSE]
             @@ crown :> [price |-> 0, category |-> 1, vip |-> TRUE]
MCRank == [x \in Tiers |-> IF x = "PLAYER" THEN 0 ELSE IF x = "PREMIUM" THEN 1 ELSE 2]
ThreadSymmetry == Permutations({t1, t2})
Init == /\ \/ part = "games" /\ SocialInit(MCPairs, MCPending)
           \/ part \in {"friends", "told", "dressed", "taught"} /\ SocialInit({}, <<>>)
        /\ EngagementInit /\ AnimationsInit /\ LessonsInit
TwoOfThem == /\ \A t \in Threads : thread'[t].pair \subseteq {ann, bob}
             /\ blocks' \subseteq {ann, bob} \X {ann, bob} /\ match' = match
             /\ challenge'[3].status = "none"
Ended == {e \in ChallengeIds : challenge[e].status \in {"DECLINED", "CANCELLED", "EXPIRED"}}
FewEndings == /\ blocks \subseteq blocks' /\ blocks' \subseteq {<<ann, bob>>} /\ Cardinality(Ended') <= 1
              /\ \A q \in Acquainted : friendship'[q] # friendship[q] => Blocked(q)'
              /\ \A t \in Threads : thread'[t].at # "challenging"
PlayerOrVip == tier'[ann] \in {"PLAYER", "VIP"} /\ UNCHANGED <<tier[bob], moved \ {ann}>>
\* The neighbour only asks for a place on the list, and notes matter only as far as a property reads them.
NeighbourJoins == /\ tier'[bob] = tier[bob] /\ inApp' = [inApp EXCEPT ![ann] = inApp'[ann]]
                  /\ \A t \in Requests : visit'[t].by = bob => visit'[t].at = "joining"
                  /\ \A m \in Members, k \in Topics : notes'[m][k] # notes[m][k] => (m = ann /\ k = "welcome") \/ (k = "joined" /\ notes'[m][k] # "read")
Next == /\ part' = part
        /\ \/ /\ part \in {"friends", "games"} /\ SocialNext
              /\ part = "friends" => TwoOfThem
              /\ part = "games" => FewEndings
              /\ UNCHANGED <<engagementVars, animationVars, lessonVars>>
           \/ part = "told" /\ EngagementNext /\ NeighbourJoins /\ UNCHANGED <<socialVars, animationVars, lessonVars>>
           \/ part = "dressed" /\ ((SetTier /\ PlayerOrVip /\ UNCHANGED animationVars) \/ \E t \in Requests : DressStep(t))
              /\ UNCHANGED <<socialVars, lessonVars>>
           \/ part = "taught" /\ ((SetTier /\ PlayerOrVip /\ UNCHANGED lessonVars) \/ Republish \/ \E t \in Requests : LessonStep(t))
              /\ UNCHANGED <<socialVars, animationVars>>
Spec == Init /\ [][Next]_vars
=============================================================================
