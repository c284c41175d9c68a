SPECIFICATION Spec
CONSTANTS
    BUFSIZE = 3
    Length = 4
    Typed = 3
    Chars = {a, b}
    LF = LF
    BS = BS
    NUL = NUL
    Empty = Empty
INVARIANTS OverrunTakesTwo CopyIsLine
PROPERTIES NewlineIsTaken
CHECK_DEADLOCK FALSE
