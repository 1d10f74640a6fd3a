CONSTANTS
    k1 = k1
    k2 = k2
    u1 = u1
    w1 = w1
    z1 = z1
    Users = {u1}
    Withdrawals = {w1}
    Prizes = {z1}
    Workers = {k1, k2}
    NoPayout = NoPayout
    Owner <- OneOwner
    Amount <- UnitAmount
    Opening <- OpeningOne
    OtherAmounts <- Debit
    MinBalance <- MinusOne
    MaxBalance = 1

SPECIFICATION TrackedSpec
SYMMETRY WorkerSymmetry
CHECK_DEADLOCK FALSE

INVARIANTS
    TypeOK
    RequestAndPayoutAgree
    ReleasedIsNeverPaid
    RecordMatchesTransfer
    Conservation
    ShownIsTrue
PROPERTIES
    CancelOnlyAtRest
    TransferIsRemembered
    ImplementsCustody
