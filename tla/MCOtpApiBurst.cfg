SPECIFICATION Spec
CONSTANTS
    k1 = k1
    k2 = k2
    k3 = k3
    NoConn = NoConn
    Conn <- Three
    Sends <- Lines
    Descriptor <- TwoDescriptors
    MAX_CONN = 2
    MaxReady = 2
    MaxLost = 1
INVARIANTS
    RemovedWhenSent
CHECK_DEADLOCK FALSE
