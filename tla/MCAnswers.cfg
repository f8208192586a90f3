SPECIFICATION AnswersSpec
CONSTANTS
    Programs = {"tester", "web"}
    n_stops = 8
    Options <- Asking
    Stacks <- Leftovers
    Moments <- Noon
    Summers <- Seasons
    TimeZone = 3600
    Random <- Draws
    MaxOptions = 3
    Plans <- Answers
    Routes <- TwoRoutes
    Footpaths <- TwoFootpaths
    Buffers <- ResultBuffers
    KeySize = 5
    TextSize = 4
    NumberSize <- Numbers
    GRAIN = 2
    BUFLEN = 26
    Lines <- Drawings
INVARIANTS
    AskedTimeKept
    JsonReadsBack
    PolylineDecodes
CHECK_DEADLOCK FALSE
