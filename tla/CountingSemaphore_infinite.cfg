\* take(InfiniteTimeout), two threads; the constant is the largest size_t.
SPECIFICATION Spec
CONSTANTS
    t1 = t1
    t2 = t2
    NoThread = NoThread
    Threads = {t1, t2}
    MaxCount = 1
    InitialCount = 0
    GiveCounts = {1}
    Timeouts = {7}
    Modulus = 8
PROPERTY InfiniteTimeoutWaits
