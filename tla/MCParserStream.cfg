CONSTANTS
    Names <- MCNames
    Tags <- MCTags
    Scalars <- MCScalars
    Headers <- MCHeaders
    Tokens <- AllTokens
    MaxTokens = 8
    MaxDepth = 3
SPECIFICATION FairSpec
INVARIANTS
    TypeOK
    ClosedAtEnd
    ContextAgrees
    ControlInvariant
PROPERTIES
    ImplementsEventStream
    NoSilentRecovery
    PendingKeyIsEmitted
    Termination
