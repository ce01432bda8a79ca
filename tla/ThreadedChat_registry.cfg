SPECIFICATION Spec
CONSTANTS
    Clients = {c1, c2, c3}
    FDs <- MCFDs
    MAX_CLNT = 3
    BUF_SIZE = 1
    SockBuf = 1
    MaxSent = 1
    Brief = {}
    NoFd = 0
    NoOne = NoOne
SYMMETRY Symmetry
INVARIANTS TypeOK CountMatchesHandlers RegistryExact
CHECK_DEADLOCK FALSE
