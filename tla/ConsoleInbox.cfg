\* One console and every failure but a cut between compactInbox's two writes
\* and the end of the phone's process.
SPECIFICATION Spec
CONSTANTS
    Phones = {p1}
    RowsPerFrame = 2
    RowsPerPoll = 1
    MaxRows = 2
    MaxMonths = 1
    Faults = {"drop", "reply", "commit", "restart"}
INVARIANTS TypeOK RowsKept
CHECK_DEADLOCK FALSE
