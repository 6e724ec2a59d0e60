\* What get_type_from_name returns once the table has grown.
SPECIFICATION Spec
CONSTANTS
    Name <- MCName
    TypeCap = 3
    ArrayLen = {2}
    UnknownLen = 9
    MaxTypes = 5
INVARIANT PrimitivesLive
\* The program ends, after types_cleanup or in a panic.
CHECK_DEADLOCK FALSE
