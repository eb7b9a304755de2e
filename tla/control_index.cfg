SPECIFICATION Spec
CONSTANTS
    Key = {k1, k2, k3}
    NoKey = NoKey
    Dec = {15}
    CONN_TB_SIZE = 2
    Failing = {"get", "ack", "begin", "add", "write", "commit",
               "expired", "entry", "delete", "reset", "complete"}
    MaxDigests = 2
SYMMETRY Symmetry
INVARIANTS
    IndexPartition
    CommittedDecided
CHECK_DEADLOCK FALSE
