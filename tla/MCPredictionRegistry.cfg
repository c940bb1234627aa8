SPECIFICATION Spec
CONSTANTS
    N = 2
    Scenario = {s1}
    File = {f1}
    Category = {"debugging"}
    Populations <- MCPopulations
    One = 2
    Floor = 1
    CategoryDecay = 1
    Confidences = {0, 1}
    ConfidenceFloor = 1
    DraftThreshold = 1
    PrimeGain = 1
    AdoptionBoost = 1
    EvidenceCap = 1
    KeptGain = 1
    ProbationCycles = 1
    RebalanceEvery = 1
    MaxWorking = 1
    MaxVersion = 1
    Restored = {1}
INVARIANTS
    TypeOK
    ReadyIsPrepared
    OnlyStallStarves
    DraftingNeverRests
PROPERTIES
    NeverRegresses
    SweepDropsMovedEvidence
