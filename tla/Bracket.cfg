SPECIFICATION Spec
CONSTANTS
    t1 = t1
    t2 = t2
    t3 = t3
    t4 = t4
    c1 = c1
    c2 = c2
    c3 = c3
    Teams = {t1, t2, t3, t4}
    Seed <- MCSeed
    Members <- MCMembers
    Rounds = 2
    Pool = 11
    Cases = {c1, c2, c3}
    Accused <- MCAccused
    AboutMatch = {c3}
    Admins = {a1, a2}
    Requests = {r1}
    Rulings <- MCRulings
    Spenders <- MCSpenders
    MaxDebt = 1
    NoCase = NoCase
    NoTeam = NoTeam
    Promptness = {TRUE, FALSE}
SYMMETRY MCSymmetry
INVARIANTS
    PrizesAreReal
    WithheldForReason
    BracketReachesItsEnd
CHECK_DEADLOCK FALSE
