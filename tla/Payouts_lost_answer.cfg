CONSTANTS
    k1 = k1
    k2 = k2
    u1 = u1
    w1 = w1
    z1 = z1
    Users = {u1}
    Withdrawals = {w1}
    Prizes = {}
    Workers = {k1}
    NoPayout = NoPayout
    Owner <- OneOwner
    Amount <- UnitAmount
    Opening <- OpeningOne
    OtherAmounts <- NoAmounts
    MinBalance = 0
    MaxBalance = 2

SPECIFICATION TrackedSpec
CHECK_DEADLOCK FALSE

INVARIANTS
    CancelledWasNotSent
