CONSTANTS
    Id = {j1, j2, j3, j4, j5}
    MaxQueue = 2
    MaxRestarts = 0
SPECIFICATION HSpec
INVARIANT LongLived
