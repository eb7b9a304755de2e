SPECIFICATION LifeSpec
CONSTANTS
    ms_period = 2
    read_period = 20
INVARIANTS NothingLeft DeviceWhole RemovesWhatIsThere AsleepDue
CHECK_DEADLOCK FALSE
