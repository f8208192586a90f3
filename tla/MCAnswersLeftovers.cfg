SPECIFICATION AnswersSpec
CONSTANTS
    Programs = {"web"}
    n_stops = 8
    Options <- Asking
    Stacks <- Clean
    Moments <- Noon
    Summers <- Seasons
    TimeZone = 3600
    Random <- Draws
    MaxOptions = 2
    Plans <- Answers
    Routes <- TwoRoutes
    Footpaths <- TwoFootpaths
    Buffers <- ResultBuffers
    KeySize = 5
    TextSize = 4
    NumberSize <- Numbers
    GRAIN = 2
    BUFLEN = 26
    Lines <- Drawings
INVARIANTS
    FreshRequest
CHECK_DEADLOCK FALSE
