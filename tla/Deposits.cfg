CONSTANTS
    Deposits = {d1}
    Amount <- AmountTwo
    c1 = c1  c2 = c2
    Callers = {c1, c2}
    NoDeposit = NoDeposit
    Openings <- InDebtOrClear
    Deliveries <- AllRegimes
    MaxCrashes = 1

SPECIFICATION MCSpec
CHECK_DEADLOCK FALSE

INVARIANTS
    CreditedExactlyOnce
    BooksAgree
PROPERTIES
    PaidIsCredited
