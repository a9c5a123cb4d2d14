CONSTANTS
    Settings <- ScalarThenLoop
    MaxBlocks = 3
    MaxFrames = 2
    MaxRows = 2
SPECIFICATION Spec
INVARIANT TagsAreListed
