SPECIFICATION FairSpec
CONSTANTS
    k1 = k1
    k2 = k2
    k3 = k3
    NoConn = NoConn
    Conn <- Three
    Sends <- Lines
    Descriptor <- TwoDescriptors
    MAX_CONN = 2
    MaxReady = 2
    MaxLost = 1
INVARIANTS
    ReplyToAsker
    NeverBlocks
    DescriptorsAccounted
PROPERTIES
    RemovalsExact
    EveryRequestAnswered
CHECK_DEADLOCK FALSE
