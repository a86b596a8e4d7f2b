\* wait() is called twice.
SPECIFICATION Spec
CONSTANTS
    t1 = t1
    t2 = t2
    t3 = t3
    h1 = h1
    h2 = h2
    h3 = h3
    Free = Free
    NoHandle = NoHandle
    Transfers = {t1, t2, t3}
    Writes = {t3}
    Failing = {t1, t2, t3}
    Handles = {h1, h2, h3}
    Again = {t1, t2, t3}
    MaxWaits = 2
PROPERTY SecondWaitIsRefused
CHECK_DEADLOCK FALSE
