SPECIFICATION Spec
CONSTANTS
    YY_BUF_SIZE = 4
    YY_READ_BUF_SIZE = 3
    YYINITDEPTH = 4
    YYMAXDEPTH = 14
    Sources <- MCSources
INVARIANTS BufferFits HandleOnTop StackFits ParsedOnce 
PROPERTIES ScannerRefines CompilerEnds
CHECK_DEADLOCK FALSE
