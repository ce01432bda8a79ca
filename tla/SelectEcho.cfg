SPECIFICATION FairSpec
CONSTANTS
    Clients = {c1, c2, c3}
    FDs <- MCFDs
    ServFd = 1
    NoFd = 0
    SetSizes = {3, 4}
    BUF_SIZE = 1
    SockBuf = 1
    Writers = {c1}
    MaxLine = 3
    MaxLines = 1
INVARIANTS SetExact EchoIntact
PROPERTIES EchoReturns DepartureNoticed
CHECK_DEADLOCK FALSE
