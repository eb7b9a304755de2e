SPECIFICATION Spec
CONSTANTS
    NoIP = NoIP
    NoPort = NoPort
    A = A
    B = B
    P = P
    Q = Q
    IP <- MCIP
    Port <- MCPort
    Headers <- OneHeaders
    Packets <- CachePackets
    Slots <- MCSlots
    CacheHash <- MCCacheHash
    BFIdx <- MCBFIdx
    BFHash <- MCBFHash
    RECIR_TIMES = 0
    Eval <- OneEval
    Installable = {}
    InstallDecs = {}
    MAX_CONN_TABLE_SIZE = 2
    MAX_CONN_REGS_PER_MAU = 1
    CONN_REGS_2 = 1
    MAX_RECIR_TIMES = 1
    CACHE_TIMEOUT = 2
    TSMOD = 2
    REGMOD = 8
    MbPort <- MCMbPort
    MaxClock = 2
    MaxInFlight = 2
    MaxDigests = 1
INVARIANTS
    CacheHoldsLatest
    EvictedDropRemembered
    SourceReported
    OutdatedOnlyAfterWrap
