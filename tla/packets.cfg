SPECIFICATION Spec
CONSTANTS
    Packets <- MCPackets
    Followers <- MCFollowers
    Foreign <- MCForeign
    Capacities <- MCCapacities
    MaxSize = 128
    MaxSent = 2
INVARIANTS
    TypeOK
    ReadsBack
    AsksWithinFrame
    RereadsAsRead
    FramingAgrees
    ReadsAsMqttBytes
    WritesAsMqttBytes
    FiltersMatchTopics
CHECK_DEADLOCK FALSE
