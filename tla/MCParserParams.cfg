SPECIFICATION FairSpec

CONSTANTS
    Tokens <- Tok
    MaxToks = 5
    MaxErrs = 0

PROPERTIES
    ParamsEnd

\* The program stops.
CHECK_DEADLOCK FALSE
