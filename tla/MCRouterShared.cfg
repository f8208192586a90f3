SPECIFICATION Spec
CONSTANTS
    n_stops = 4
    n_routes = 3
    RRRR_MAX_ROUNDS = 6
    Timetables <- Alternatives
    Requests <- AskMixed
    NowDays <- ThirdDay
    TripUpdates <- FeedUpdates
    MaxRequests = 2
    MaxUpdates = 1
    OnboardGuard = TRUE
INVARIANTS
    ChainsUnbroken
    PlanTravels
