\* Two consoles of one owner: one may lag, or register late.
SPECIFICATION Spec
CONSTANTS
    Phones = {p1, p2}
    RowsPerFrame = 1
    RowsPerPoll = 1
    MaxRows = 1
    MaxMonths = 0
    Faults = {"drop", "reply", "death"}
SYMMETRY PhoneSymmetry
PROPERTIES DropsOnlyAccounted
CHECK_DEADLOCK FALSE
