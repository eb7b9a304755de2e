SPECIFICATION Spec
CONSTANTS
    Keys <- MCKeys
    MaxIndex = 3
INVARIANTS DigestRight HmacRight CodeStandard
CHECK_DEADLOCK FALSE
