CONSTANTS
    Names <- MCNames
    Tags <- MCTags
    Scalars <- MCScalars
    Headers <- MCHeaders
    Tokens <- AllTokens
    MaxTokens = 8
    MaxDepth = 2
SPECIFICATION Spec
PROPERTIES
    NoStrayValue
