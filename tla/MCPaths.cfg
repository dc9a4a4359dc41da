CONSTANTS
    a = a
    b = b
    Low = a
    High = b
    MaxInbox = 2
    MaxContext = 2
    MaxTrouble = 1
SPECIFICATION FairPathsSpec
INVARIANTS SettledIsMutual
PROPERTIES DirectInTheEnd
