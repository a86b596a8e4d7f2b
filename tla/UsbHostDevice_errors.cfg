\* Two transfers on one IN endpoint; blocks fail, the device is unplugged,
\* the first block may be refused.
SPECIFICATION FairSpec
CONSTANTS
    x = x
    y = y
    NoUrb = NoUrb
    Transfers = {x, y}
    EndpointOf <- SharedIn
    Endpoints <- OneEndpoint
    Sizes = {3}
    MaxBlockSize = 2
    LengthModulus = 16
    Caps = {"BulkContinuation"}
    SubmitFailures = {1}
    Drops = {"returned", "threw"}
    UrbErrors = TRUE
    Unplugs = TRUE
    ClosesInUse = FALSE
INVARIANTS ReturnsWhatMoved FinishedIsAPrefix NoWildUse
PROPERTY WaitEnds
CHECK_DEADLOCK FALSE
