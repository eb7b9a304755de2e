SPECIFICATION FairSpec
CONSTANTS
    Key = {k1, k2}
    NoKey = NoKey
    Dec = {15}
    CONN_TB_SIZE = 2
    Failing = {}
    MaxDigests = 1
PROPERTIES
    Learned
    Unmatched
