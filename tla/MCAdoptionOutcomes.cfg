\* Every fault: cancelled cycles, failing writes, restarts.
CONSTANTS
    p1 = p1
    p2 = p2
    Pred <- MCPred
    MaxAdoptions = 2
    Limit = 1
    Cap = 1
    ProbationCycles = 2
    MaxCandidates = 1
    Faults <- AllFaults
SPECIFICATION Spec
SYMMETRY Symmetry
INVARIANTS
    TypeOK
    OneRecordEach
    ProbationCanRollBack
PROPERTIES
    StaleMeansStaled
    KeepsTheLog
    LostOnlyByFault
