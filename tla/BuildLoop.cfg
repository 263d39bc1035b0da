CONSTANTS
    Legs = 3
    MaxFaults = 3
    MaxReplies = 1
    MaxSaves = 1
    MaxCrashes = 1
SPECIFICATION FairSpec
INVARIANTS TypeOK OrdersBounded RecordsTrue FirstRunOpensBuilt
PROPERTY LongOpens
CHECK_DEADLOCK FALSE
