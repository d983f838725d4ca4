SPECIFICATION Spec
CONSTANTS
    Addresses = 2
    MaxReplies = 3
    MaxSize = 20
    Depth = 3
    Responses <- MCResponses
    Bodies <- MCBodies
INVARIANTS
    TypeOK
    AnswerIsCurrent
    RetryFailsForCause
    SocketsClosed
    RoundTrip
    NoPartialAnswer
PROPERTIES
    OutcomeAsAssumed
    AnnounceEnds
CHECK_DEADLOCK FALSE
