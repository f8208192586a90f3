SPECIFICATION Spec
CONSTANTS
    n_stops = 4
    n_routes = 3
    RRRR_MAX_ROUNDS = 6
    Timetables <- Overtaking
    Requests <- AskBetween
    NowDays <- ThirdDay
    TripUpdates <- None
    MaxRequests = 1
    MaxUpdates = 0
    OnboardGuard = TRUE
INVARIANTS
    ReversalKeepsJourney
