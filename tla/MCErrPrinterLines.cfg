\* What is shown around the line of the error.
SPECIFICATION Spec
CONSTANTS
    MaxSize = 5
    MaxLines = 2
    MaxPads = 0
    PadCap = 1
    Base = 10
INVARIANT LinesExact
\* A source is left when its error is printed.
CHECK_DEADLOCK FALSE
