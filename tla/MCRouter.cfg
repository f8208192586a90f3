SPECIFICATION FairSpec
CONSTANTS
    n_stops = 4
    n_routes = 3
    RRRR_MAX_ROUNDS = 6
    Timetables <- Everything
    Requests <- Asked
    NowDays <- ThirdDay
    TripUpdates <- None
    MaxRequests = 1
    MaxUpdates = 0
    OnboardGuard = TRUE
INVARIANTS
    TypeOK
    TransfersSettled
    ChainsUnbroken
    PlanConnected
    PlanPareto
    PlanTravels
    PlanInTime
    ReversalKeepsJourney
    FindsOptimum
    RestrictionsKept
    NoWildRead
PROPERTIES
    SearchMonotone
    RequestAnswered
