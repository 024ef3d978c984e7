SPECIFICATION Spec
CONSTANTS
    MaxWrites = 4
    MaxGen = 2
    Faults <- Survivable
INVARIANTS AckedSurvive FailedStayOut
PROPERTY ImplementsLog
