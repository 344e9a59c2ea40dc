CONSTANTS
    server = server
    client = client
    stranger = stranger
    Garbled = Garbled
    DEFAULT_RETRY_COUNTER = 3
    DEFAULT_DATA_SIZE = 2
    BlockModulus = 3
    TextLength = 5
    Self <- server
    Client <- client
    Blocks = 3
    LastSize = 1
    MaxBurst = 2
    Arrivals <- MCArrivals

SPECIFICATION FairSpec

INVARIANT TypeOK
INVARIANT NeverAbandoned
INVARIANT RetryBudget
INVARIANT WireMatchesFile
PROPERTY ImplementsConnection
PROPERTY Released

\* A connection that has ended takes no further step.
CHECK_DEADLOCK FALSE
