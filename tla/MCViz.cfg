CONSTANTS
    dot = dot
    blank = blank
    bad = bad
    heavy = heavy
    icon = icon
    small = small
    large = large
    shared = shared
    Nothing = Nothing
    MaxCalls = 3
    Sources <- SomeSources
    Takes <- SomeTakes
    Paths = {icon}
    Data = {small, large}
    Questions <- SomeQuestions
    Arrays = {shared}
    InitialFiles <- SomeFiles
    DevicePixelRatio = 3
SPECIFICATION Spec
INVARIANTS
    TypeOK
    EveryWaiterHasItsMessage
    OnlyRefusedListenersStay
    OwnSettings
    OwnImages
    LeftByACall
    RefusedAfterAnError
PROPERTIES
    ImplementsService
    PromisesSettle
CHECK_DEADLOCK FALSE
