\* Two tasks that exclude each other; the host may reset the device.
SPECIFICATION FairSpec
CONSTANTS
    t1 = t1
    t2 = t2
    p1 = p1
    p2 = p2
    s1 = s1
    s2 = s2
    NoTransfer = NoTransfer
    Tasks = {t1, t2}
    Polling = {p1, p2}
    Streaming = {s1, s2}
    Serialised = TRUE
    Deconfigures = TRUE
    HalRefuses = TRUE
INVARIANTS HardwareServesActive PollsTheirOwn TakenByOneUnderWay
PROPERTY AcceptedIsCalledBack
