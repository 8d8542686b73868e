SPECIFICATION FairSpec
CONSTANTS
    FirstCalls <- MCFirst
    LaterCalls <- MCLater
    HandlerCalls <- MCHandler
    MaxCalls = 2
    Capacity = 2
    Disabled <- MCDisabled
    Signals = 1
    Slices = 1
    Spurious = 1
INVARIANTS RecordedOnce ReplaySame
PROPERTIES StashedIsDelivered
CHECK_DEADLOCK FALSE
