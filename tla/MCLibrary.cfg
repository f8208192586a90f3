SPECIFICATION LibrarySpec
CONSTANTS
    CHUNK = 2
    capacity = 6
    PREFIX_SIZE = 2
    Alphabet = {"a", "b"}
    MaxStrings = 3
    Keys <- ShortKeys
    grid_dim = 4
    bin_size = 5
    n_items = 3
    Coords <- Points
    Queries <- Circles
    Priorities = {1, 2, 3}
    MinCapacity = 3
    MaxQueued = 5
    slab_size = 4
    Sizes = {1, 2, 3, 4, 5}
    MaxSlabs = 4
    Networks <- SmallNetworks
    start_stop = 1
    target_stop = 5
    MAX_STATES = 12
INVARIANTS
    NextSetBitExact
    IndexExact
    GridMissesOnlyFirst
    ContainersSound
    ProfileComplete
CHECK_DEADLOCK FALSE
