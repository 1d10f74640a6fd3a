SPECIFICATION MCSpec
CONSTANTS
    Deck <- MCDeck
    Spade = "S"
    Shuffles <- MCShuffles
    MaxBid = 2
    TrickPoints = 2
    WinningScore = 4
    NilBonus = 2
    BlindNilBonus = 4
    BagPenaltyAt = 2
    BagPenalty = 2
    MaxTimeouts = 2
    MayBid <- MCMayBid
    Sleepers = {0}
    Peekers = {1}
    Suspect = 3
    MaxHands = 2
    ComebackAt = 2
    Delays = {TRUE, FALSE}
INVARIANTS
    GameByTheRules
    EventsTellTheGame
    AchievementsTellTheGame
PROPERTY
    PromptBlindNilUnseen
CHECK_DEADLOCK FALSE
