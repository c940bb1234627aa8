\* No fault at all.
CONSTANTS
    p1 = p1
    p2 = p2
    Pred <- MCPred
    MaxAdoptions = 2
    Limit = 1
    Cap = 1
    ProbationCycles = 2
    MaxCandidates = 1
    Faults <- NoFault
SPECIFICATION HSpec
SYMMETRY Symmetry
INVARIANT ContradictionSticks
