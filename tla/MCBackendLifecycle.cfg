CONSTANTS
    t1 = t1
    t2 = t2
    Threads <- MCThreads
    MaxDepth <- MCMaxDepth
    FailOps <- MCFailOpenClearup

SPECIFICATION Spec

\* Both threads run their cleanup hook and exit: the run ends there.
CHECK_DEADLOCK FALSE

INVARIANT OpenSuccessHoldsChain
INVARIANT OpenFailureClosesDrivers
