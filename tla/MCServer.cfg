CONSTANTS
    Conn = {c1, c2, c3}
    Clients = {alice}
    AcceptorIsShared = TRUE

SPECIFICATION FairSpec

INVARIANT TypeOK
INVARIANT AcceptorListens
INVARIANT SetIsExact
PROPERTY RequestsServed
PROPERTY ConnectionsAreUsedWell

\* A server that was stopped takes no further step.
CHECK_DEADLOCK FALSE
