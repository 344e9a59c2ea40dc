CONSTANTS
    client = client
    port69 = port69
    conn = conn
    other = other
    Garbled = Garbled
    DEFAULT_RETRY_COUNTER = 2
    DEFAULT_DATA_SIZE = 2
    BlockModulus = 3
    TextLength = 5
    Self <- client
    Server <- port69
    Conn <- conn
    Other <- other
    Peers <- MCPeers
    Blocks = 2
    LastSize = 1
    MaxBurst = 1
    MaxStored = 9
    MaxTimeouts = 2
    Arrivals = {}

SPECIFICATION UploadSpec

INVARIANT SuccessIsStored

\* Both sides end.
CHECK_DEADLOCK FALSE
