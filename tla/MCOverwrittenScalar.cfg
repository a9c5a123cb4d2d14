CONSTANTS
    Names <- MCNames
    Tags <- MCTags
    Scalars <- MCScalars
    Headers <- MCHeaders
    Tokens <- AnyToken
    Alphabets <- ScalarLoops
    MaxTokens = 7
    MaxDepth = 0
    RustFold <- Lower
    PyFold <- Lower
    ToPython <- RawValueToPython
    RawToStr <- RawValueToStr
    Enc <- PyEnc
SPECIFICATION PipelineSpec
INVARIANTS
    NoSilentLoss
