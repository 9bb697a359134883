SPECIFICATION Spec
CONSTANTS
    Calls = {c1, c2}
    Names = {x}
    Brokers = {b1}
    NoCall = NoCall
    NoBroker = NoBroker
    NoName = NoName
    MaxMailboxes = 1
    MaxQueuePerBox = 1
    MaxWaitersPerBox = 1
    MaxBrokerConns = 2
    ScanLimit = 1
INVARIANT NoMissedMessages
CHECK_DEADLOCK FALSE
