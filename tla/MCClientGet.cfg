CONSTANTS
    client = client
    port69 = port69
    session = session
    stranger = stranger
    Garbled = Garbled
    DEFAULT_RETRY_COUNTER = 2
    DEFAULT_DATA_SIZE = 2
    BlockModulus = 3
    TextLength = 5
    Self <- client
    Server <- port69
    Peers <- MCPeers
    MaxBurst = 2
    Arrivals <- MCArrivals

SPECIFICATION FairSpec

INVARIANT TypeOK
INVARIANT NeverAbandoned
INVARIANT RetryBudget
INVARIANT InOrderOnce
INVARIANT OneServer
INVARIANT AckedIsWritten
PROPERTY Released

\* A client that has ended takes no further step.
CHECK_DEADLOCK FALSE
