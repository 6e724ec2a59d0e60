SPECIFICATION Spec

CONSTANTS
    Tokens <- ErrorTokens
    MaxToks = 13
    MaxErrs = 1

INVARIANTS
    HeapOwned
    StatementsAdvance
    AcceptsGrammar

\* The program stops.
CHECK_DEADLOCK FALSE
