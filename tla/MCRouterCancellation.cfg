SPECIFICATION Spec
CONSTANTS
    n_stops = 4
    n_routes = 3
    RRRR_MAX_ROUNDS = 6
    Timetables <- PlainOnly
    Requests <- AskLate
    NowDays <- ThirdDay
    TripUpdates <- Cancellation
    MaxRequests = 1
    MaxUpdates = 1
    OnboardGuard = TRUE
PROPERTIES
    CanceledTripNotBoarded
