\* One console that comes and goes, its answers sometimes lost: what is
\* appended reaches it.
SPECIFICATION FairSpec
CONSTANTS
    Phones = {p1}
    RowsPerFrame = 2
    RowsPerPoll = 1
    MaxRows = 2
    MaxMonths = 0
    Faults = {"reply", "split"}
PROPERTIES VisibleDelivers BackgroundDelivers
CHECK_DEADLOCK FALSE
