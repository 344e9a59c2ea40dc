CONSTANTS
    DEFAULT_RETRY_COUNTER = 2
    DEFAULT_DATA_SIZE = 2
    BlockModulus = 4
    TextLength = 5
    Garbled = Garbled
    CR = CR
    LF = LF
    NUL = NUL
    letter = letter
    Ordinary <- MCOrdinary
    MaxLength = 5

SPECIFICATION NetasciiSpec

INVARIANTS WireIsNetascii FileIsRestored TextSurvives

\* A transfer ends.
CHECK_DEADLOCK FALSE
