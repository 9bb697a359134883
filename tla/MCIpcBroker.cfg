SPECIFICATION FairSpec
CONSTANTS
    Calls = {c1, c2, c3}
    Names = {x, y}
    Brokers = {b1}
    NoCall = NoCall
    NoBroker = NoBroker
    NoName = NoName
    MaxMailboxes = 1
    MaxQueuePerBox = 2
    MaxWaitersPerBox = 1
    MaxBrokerConns = 2
    ScanLimit = 1
INVARIANTS TypeOK NoSleepOnMail SendIsSafe Conservation WithinLimits
PROPERTIES ImplementsMailboxes EveryCallEnds
CHECK_DEADLOCK FALSE
