SPECIFICATION Spec
CONSTANTS
    None = None
    Rows = 3
    MaxFrames = 4
    MaxMarks = 2
    Failures = 4
CHECK_DEADLOCK FALSE
INVARIANTS
    TypeOK
    FramesAreNeverMixed
    WholeFramesAreSeen
    MarkersHaveNoGaps
