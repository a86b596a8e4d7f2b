\* One IN transfer of every size up to three blocks; errors, an unplug, a close in use.
SPECIFICATION FairSpec
CONSTANTS
    x = x
    y = y
    NoUrb = NoUrb
    Transfers = {x}
    EndpointOf <- OneIn
    Endpoints <- OneEndpoint
    Sizes = {0, 1, 2, 3, 4, 5, 6, 7, 8}
    MaxBlockSize = 3
    LengthModulus = 4
    Caps = {"BulkContinuation"}
    SubmitFailures = {1}
    Drops = {}
    UrbErrors = TRUE
    Unplugs = TRUE
    ClosesInUse = TRUE
INVARIANT DataIsContiguous
PROPERTY TeardownEnds
CHECK_DEADLOCK FALSE
