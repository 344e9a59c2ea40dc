CONSTANTS
    DEFAULT_RETRY_COUNTER = 2
    DEFAULT_DATA_SIZE = 2
    BlockModulus = 36
    TextLength = 5
    Garbled = Garbled
    ByteBase = 6
    BufferSize = 13
    Texts <- MCTexts
    Numbers <- MCNumbers
    Payloads <- MCPayloads

SPECIFICATION Spec

INVARIANTS RoundTrip TftpIsSound
