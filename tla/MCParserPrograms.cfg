SPECIFICATION Spec

CONSTANTS
    Tokens <- ProgramTokens
    MaxToks = 16
    MaxErrs = 0

INVARIANTS
    HeapOwned
    ExprShape
    AcceptsGrammar
    OnlyLetTypesLeak

\* The program stops.
CHECK_DEADLOCK FALSE
