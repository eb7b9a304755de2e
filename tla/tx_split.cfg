SPECIFICATION TxSpec
CONSTANTS
    Segments <- MCSegments
    SEQMOD = 1073741824
INVARIANTS
    StreamPreserved
    LengthsAgree
    CopiesFit
CHECK_DEADLOCK FALSE
