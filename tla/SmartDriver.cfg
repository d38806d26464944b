SPECIFICATION Spec
CONSTANTS
    Behind = 2
    Tries = 2
    SetupTries = 2
    StatusTries = 2
    ReasonTries = 1
    Unread = 1
    LostAfter = 1
INVARIANTS
    TypeOK
    AnswersMatch
PROPERTIES
    Served
    LineFollowed
CHECK_DEADLOCK FALSE
