SPECIFICATION Spec
CONSTANTS
    Clients = {c1, c2, c3}
    NoOne = NoOne
    Writers = {}
    MaxLines = 0
INVARIANT OthersStay
CHECK_DEADLOCK FALSE
