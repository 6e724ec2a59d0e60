\* Sources of up to three bytes of every class, and strings of up to six.
SPECIFICATION FairSpec
CONSTANTS
    Sources <- MCSources
    MaxSize = 6
    TokCap = 1
    U32 = 12
    Keywords <- MCKeywords
INVARIANTS TypeOK TokensTile TokListFits PositionsAgree
PROPERTIES Terminates AlwaysProgress ImplementsTokenizer
\* The lexer stops when it has answered.
CHECK_DEADLOCK FALSE
