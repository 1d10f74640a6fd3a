CONSTANTS
    p1 = p1
    p2 = p2
    a1 = a1
    a2 = a2
    Players = {p1, p2}
    Admins = {a1, a2}
    SmallestDraw = 1
    MaxAttempts = 2
    MaxEntries = 2
    Fees = {0, 1}
    Sizes = {1, 2}
    Opening = 1
    MaxDebt = 1
    Practices = {"careful", "free"}

    Pool = 1
    here = here
    there = there
    Cases = {here, there}
    Elsewhere = {there}
    Nothing = Nothing

SPECIFICATION MCSpec
SYMMETRY EntrySymmetry
CHECK_DEADLOCK FALSE

INVARIANTS
    EntriesAreBacked
    ResultsStand
PROPERTIES
    DrawnOnce
