SPECIFICATION FairSpec
CONSTANTS
    Clients = {c1, c2}
    FDs <- Descriptors
    MAX_CLNT = 2
    BUF_SIZE = 2
    SockBuf = 2
    MaxSent = 2
    Brief = {c2}
    NoFd = 0
    NoOne = NoOne
INVARIANTS StreamsAgree
PROPERTIES BroadcastCompletes DepartureNoticed
CHECK_DEADLOCK FALSE
