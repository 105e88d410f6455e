SPECIFICATION Spec
CONSTANTS
    MaxKey = 2
    Height = 4
    Points = {3}
    MaxQueue = 2
    MaxCrashes = 1
INVARIANT StableSetIsIndexed
CHECK_DEADLOCK FALSE
