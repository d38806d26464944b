SPECIFICATION Spec
CONSTANTS
    c1 = c1
    c2 = c2
    Clients = {c1, c2}
    Fields = 2
    Room = 2
    Drivers = {"apcsmart", "pcnet"}
INVARIANTS
    TypeOK
    AnswerIntact
    RefcntExact
PROPERTIES
    CoreNotHeldUp
    ClientsServed
    Terminates
CHECK_DEADLOCK FALSE
