CONSTANTS
    Conn = {c1, c2, c3}
    Clients = {alice}
    AcceptorIsShared = FALSE

SPECIFICATION Spec

INVARIANT ServesIfGranted

\* A server that failed takes no further step.
CHECK_DEADLOCK FALSE
