\* Linux: the client starts and stops in turn, opens may fail, three messages
\* for sockets of two.  Windows: two clients; the thread or its window may fail
\* and a start without a thread hangs.  Transfers: two reads and a write share two
\* handle values, and one read is waited for twice.
SPECIFICATION HostSpec
CONSTANTS
    r1 = r1
    r2 = r2
    c1 = c1
    c2 = c2
    t1 = t1
    t2 = t2
    t3 = t3
    h1 = h1
    h2 = h2
    NoReader = NoReader
    NoCallback = NoCallback
    Readers = {r1, r2}
    Callbacks = {c1}
    Restarts = FALSE
    Failures = TRUE
    MaxEvents = 3
    SocketLimit = 2
    Clients = {c1, c2}
    WindowFails = TRUE
    ThreadFails = TRUE
    MaxChanges = 4
    Free = Free
    NoHandle = NoHandle
    Transfers = {t1, t2, t3}
    Writes = {t3}
    Failing = {t1, t3}
    Handles = {h1, h2}
    Again = {t1}
    MaxWaits = 2
INVARIANTS NothingBreaks HeardInOrder CallsItsClient WaitsForItself
PROPERTIES ServicesImplementAbstract EveryCallEnds EventsArrive
CHECK_DEADLOCK FALSE
