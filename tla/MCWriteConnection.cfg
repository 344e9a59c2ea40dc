CONSTANTS
    server = server
    client = client
    stranger = stranger
    Garbled = Garbled
    DEFAULT_RETRY_COUNTER = 2
    DEFAULT_DATA_SIZE = 2
    BlockModulus = 2
    TextLength = 5
    Self <- server
    Client <- client
    MaxStored = 3
    MaxBurst = 2
    Arrivals <- MCArrivals

SPECIFICATION FairSpec

INVARIANT TypeOK
INVARIANT NeverAbandoned
INVARIANT RetryBudget
INVARIANT InOrderOnce
INVARIANT AckedIsWritten
PROPERTY ImplementsConnection
PROPERTY Released

\* A connection that has ended takes no further step.
CHECK_DEADLOCK FALSE
