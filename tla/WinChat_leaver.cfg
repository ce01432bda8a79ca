SPECIFICATION Spec
CONSTANTS
    Clients = {c1, c2}
    NoOne = NoOne
    Writers = {c1}
    MaxLines = 1
PROPERTY LeaverDeleted
CHECK_DEADLOCK FALSE
