SPECIFICATION FairSpec
CONSTANTS
    c1 = c1
    c2 = c2
    w1 = w1
    w2 = w2
    READY = READY
    NoRequest = NoRequest
    Client <- Clients
    Impatient <- OneImpatient
    Worker <- Pair
    MaxRequests = 2
    MaxDeaths = 1
INVARIANTS
    TypeOK
    PollStillTrue
    AvailableWorkersIdle
    OneRequestPerWorker
    RequestInOnePlace
    OneLossPerDeath
PROPERTIES
    ImplementsService
    AnsweredOrLost
