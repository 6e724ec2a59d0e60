SPECIFICATION FairSpec

CONSTANTS
    Tokens <- Tok
    MaxToks = 6
    MaxErrs = 1

INVARIANTS
    TypeOK
PROPERTIES
    Terminates
    AlwaysProgress

\* The program stops.
CHECK_DEADLOCK FALSE
