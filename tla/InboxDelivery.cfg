\* Whatever breaks, and wherever: inside a handler too, and with the fence up.
SPECIFICATION Spec
CONSTANTS
    Messages = {m1, m2}
    Capacity = 1
    MaxBreaks = 3
    Faults = {"cut", "fence", "emit", "store", "retire"}
SYMMETRY MessageSymmetry
INVARIANTS TypeOK DeliveredShown ConfirmedRemembered
CHECK_DEADLOCK FALSE
