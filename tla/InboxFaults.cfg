\* The store and the network fail, and content keys are missing.
SPECIFICATION Spec
CONSTANTS
    Ops <- MixedOps
    Kind <- MixedKinds
    From <- MixedFrom
    To <- MixedTo
    Sessions = {"s1", "s2"}
    Capacity = 2
    MaxMonths = 2
    Faults = {"store", "reply", "keys", "unread"}
INVARIANTS OpenHasRow AppendedOnce
CHECK_DEADLOCK FALSE
