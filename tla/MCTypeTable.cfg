\* A first buffer with room for one type more than the primitives, and
\* types enough to move to a second one and go on.
SPECIFICATION Spec
CONSTANTS
    Name <- MCName
    TypeCap = 3
    ArrayLen = {2}
    UnknownLen = 9
    MaxTypes = 5
INVARIANTS TypeOK NoDuplicates DuplicatesByMove WellFounded LiveWhileSmall
\* The program ends, after types_cleanup or in a panic.
CHECK_DEADLOCK FALSE
