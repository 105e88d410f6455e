SPECIFICATION FairSpec
CONSTANTS
    MaxKey = 3
    Height = 4
    Points = {3}
    MaxQueue = 2
    MaxCrashes = 1
INVARIANTS CurrentIsWhole NoDirectoryIsReused SyncedMeansEqual
PROPERTIES IndexCatchesUp
CHECK_DEADLOCK FALSE
