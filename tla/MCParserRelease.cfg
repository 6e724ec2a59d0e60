SPECIFICATION Spec

CONSTANTS
    Tokens <- ProgramTokens
    MaxToks = 10
    MaxErrs = 0

INVARIANTS
    TreeReleased

\* The program stops.
CHECK_DEADLOCK FALSE
