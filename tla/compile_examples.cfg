SPECIFICATION Spec
CONSTANTS
    m0 = m0
    NoMon = NoMon
    Policies <- ExamplePolicies
    Header <- MCHeader
    Value <- MCValue
    Mon <- MCMon
    MonHeader <- WatchedBy1
    DEFAULT_HIGH = 10000
    stages_per_rec = 7
    max_rec_times = 8
INVARIANTS
    ExamplesReproduced
CHECK_DEADLOCK FALSE
