\* One task, one transfer per endpoint, every control request.
SPECIFICATION Spec
CONSTANTS
    t1 = t1
    p1 = p1
    p2 = p2
    q1 = q1
    NoTransfer = NoTransfer
    NoString = NoString
    Tasks = {t1}
    InPolling = {p1, p2}
    OutPolling = {q1}
    HalRefuses = TRUE
    Strings <- MCStrings
INVARIANTS AnswersOnce OpenWhileConfigured ReplyTiles
PROPERTY EndpointsBehave
CHECK_DEADLOCK FALSE
