SPECIFICATION Spec
CONSTANTS
    NULL = NULL
    Feeds <- SmallFeeds
    Followed <- OnlyPlain
    Messages <- SomeMessages
    AlertMessages <- SomeAlerts
    MAX_MESSAGE_LENGTH = 3
    MaxMessages = 3
    MaxConnections = 2
INVARIANTS
    LoadedAsPublished
    Coherent
    DelayAsSent
    AlertsSound
CHECK_DEADLOCK FALSE
