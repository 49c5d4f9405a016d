SPECIFICATION Spec
CONSTANTS
    MaxConns = 2
    Enrolled = b1
    Boards = {b1}
    Operations = {}
    MaxOperations = 0
PROPERTY
    ClosesItsOwn
CHECK_DEADLOCK FALSE
