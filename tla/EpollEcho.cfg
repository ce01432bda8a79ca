SPECIFICATION FairSpec
CONSTANTS
    Clients = {c1, c2}
    FDs <- MCFDs
    ServFd = 3
    NoFd = 0
    EPOLL_SIZE = 2
    BUF_SIZE = 2
    SockBuf = 3
    MaxLine = 3
    MaxLines = 1
INVARIANTS EventsExact EchoIntact
PROPERTIES EchoReturns
CHECK_DEADLOCK FALSE
