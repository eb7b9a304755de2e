SPECIFICATION FairReplySpec
CONSTANTS
    h1 = h1
    None = None
    Helper <- OneHelper
    MaxWrites = 1
    HelperMayFail = FALSE
    CreateMayFail = TRUE
    ConnectMayFail = TRUE
INVARIANTS
    NoSocketLeft

    
CHECK_DEADLOCK FALSE
