SPECIFICATION FairSpec
CONSTANTS
    h1 = h1
    h2 = h2
    None = None
    Helper <- TwoHelpers
    MaxWrites = 1
    HelperMayFail = TRUE
INVARIANTS
    RequestOwned
PROPERTIES
    EveryKindRequested
    
CHECK_DEADLOCK FALSE
