SPECIFICATION Spec
CONSTANTS
    m0 = m0
    NoMon = NoMon
    Policies <- MergePolicies
    Header <- MCHeader
    Value <- MCValue
    Mon <- MCMon
    MonHeader <- WatchedBy2
    DEFAULT_HIGH = 10000
    stages_per_rec = 3
    max_rec_times = 2
INVARIANTS
    
    
    StagesDisjoint
    PassesContiguous
    EntriesFit

    
CHECK_DEADLOCK FALSE
