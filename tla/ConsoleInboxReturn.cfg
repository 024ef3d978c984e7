\* A console is forgotten after 30 idle days and registers again after the
\* inbox was compacted.
SPECIFICATION FairSpec
CONSTANTS
    Phones = {p1}
    RowsPerFrame = 2
    RowsPerPoll = 2
    MaxRows = 2
    MaxMonths = 1
    Faults = {}
PROPERTIES VisibleDelivers
CHECK_DEADLOCK FALSE
