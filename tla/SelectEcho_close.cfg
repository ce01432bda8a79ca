SPECIFICATION FairSpec
CONSTANTS
    Clients = {c1, c2}
    FDs <- MCFDs
    ServFd = 1
    NoFd = 0
    SetSizes = {3, 4}
    BUF_SIZE = 1
    SockBuf = 1
    Writers = {c1, c2}
    MaxLine = 1
    MaxLines = 1
PROPERTIES OnlyEndedClosed
CHECK_DEADLOCK FALSE
