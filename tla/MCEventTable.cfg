CONSTANTS
    t1 = t1
    t2 = t2
    t3 = t3
    Threads <- MCThreads
    NFd = 3
    GROW = 2
    MaxGen = 3
    NONE = NONE
    JUNK = JUNK

SPECIFICATION Spec

\* Once every thread has destroyed its last work queue nothing is left to
\* run: the threads have left their event loops, a real final state.
CHECK_DEADLOCK FALSE

INVARIANT DispatchCallsOwnQueue
