CONSTANTS
    Id = {j1, j2, j3, j4, j5}
    MaxQueue = 2
    MaxRestarts = 1
SPECIFICATION HSpec
INVARIANTS
    TypeOK
    UrgentFirst
    WakeRemembered
PROPERTIES
    UrgentAdmitted
    WakeServed
