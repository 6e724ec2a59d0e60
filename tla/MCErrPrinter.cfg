\* A source is left when its error is printed.
SPECIFICATION Spec
CONSTANTS
    MaxSize = 5
    MaxLines = 2
    MaxPads = 2
    PadCap = 1
    Base = 2
INVARIANTS
    TypeOK
    LinesAsNumbered
    ContextComplete
    UnderlineMatches
    GutterAligned
    PositionsInvert
CHECK_DEADLOCK FALSE
