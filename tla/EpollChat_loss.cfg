SPECIFICATION FairSpec
CONSTANTS
    Clients = {c1, c2}
    FDs <- MCFDs
    ServFd = 3
    NoFd = 0
    EPOLL_SIZE = 2
    MAX_CLNT_SIZE = 2
    BUF_SIZE = 2
    SockBuf = 2
    MaxSent = 2
PROPERTIES SentToAll
CHECK_DEADLOCK FALSE
