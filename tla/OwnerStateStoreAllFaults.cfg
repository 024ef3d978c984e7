SPECIFICATION Spec
CONSTANTS
    MaxWrites = 4
    MaxGen = 2
    Faults <- AllFaults
INVARIANTS TypeOK OneHistory SeqsOnce
