CONSTANTS
    p1 = p1
    p2 = p2
    Producers <- MCProducers
    MaxOps <- MCMaxOps
    NONE = NONE

SPECIFICATION Spec

\* The target thread may sleep in epoll_wait for ever once the producers
\* are done; a work left behind violates the fairness of WorkQueueImplementsFifo instead.
CHECK_DEADLOCK FALSE

INVARIANT TypeOK
INVARIANT NoStrandedWork
PROPERTY WorkQueueImplementsFifo
PROPERTY CallEventuallyReturns
