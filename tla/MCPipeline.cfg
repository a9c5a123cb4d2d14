CONSTANTS
    Names <- MCNames
    Tags <- MCTags
    Scalars <- MCScalars
    Headers <- MCHeaders
    Tokens <- AnyToken
    Alphabets <- WellRead
    MaxTokens = 7
    MaxDepth = 2
    RustFold <- Lower
    PyFold <- Lower
    ToPython <- RawValueToPython
    RawToStr <- RawValueToStr
    Enc <- PyEnc
SPECIFICATION PipelineSpec
INVARIANTS
    MirrorsParser
    SameDocument
    ValuesKept
    LoopsAreRectangular
    ArrowAgrees
