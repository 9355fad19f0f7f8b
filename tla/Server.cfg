SPECIFICATION FairSpec
CONSTANTS
    Subscribers = {m1}
    Traders = {c1, c2}
    MaxOrders = 2
    MaxResults = 1
INVARIANTS
    TypeOK
    OneWriter
    ResultsInOrder
    NothingStranded
PROPERTIES
    BooksAdvance
    EverySubscriberCatchesUp
    EveryResultArrives
CHECK_DEADLOCK FALSE
