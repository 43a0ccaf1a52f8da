SPECIFICATION FairSpec
CONSTANTS
    Dispatcher = {d1}
    Mode = {"auto", "settings", "legacy"}
    LateGoroutine = FALSE
CHECK_DEADLOCK FALSE
INVARIANTS
    NoLostWakeup
    AcceptedAtMostOnce
    EchoIsHeard
PROPERTIES
    RemovesOnlyItsOwn
    Returns
