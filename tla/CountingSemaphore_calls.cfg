\* Three threads, at most two tokens, all operations; eight values of size_t.
SPECIFICATION FairSpec
CONSTANTS
    t1 = t1
    t2 = t2
    t3 = t3
    NoThread = NoThread
    Threads = {t1, t2, t3}
    MaxCount = 2
    InitialCount = 0
    GiveCounts = {0, 2}
    Timeouts = {1}
    Modulus = 8
INVARIANTS TypeOK TestStillHolds NoLostWakeup
PROPERTIES ImplementsAbstract TokensReachWaiters
