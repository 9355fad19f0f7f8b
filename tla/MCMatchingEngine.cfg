SPECIFICATION FairSpec
CONSTANTS
    Clients = {c1, c2}
    Prices = {0, 1, 2}
    Qtys <- MCQtys
    Seqs = {1}
    MaxResting = 3
INVARIANTS
    TypeOK
    NoCrossedBook
    LevelsLive
    NoTradeThrough
    DirtyIffChanged
PROPERTIES
    ImplementsMarket
