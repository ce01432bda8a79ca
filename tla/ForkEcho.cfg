SPECIFICATION FairSpec
CONSTANTS
    Clients = {c1, c2}
    Main = Main
    Logger = Logger
    BUF_SIZE = 2
    PipeCap = 2
    SockBuf = 2
    LogReads = 1
    MaxSent = 3
    Brief = {c2}
INVARIANTS OneHolder TextExact
PROPERTIES EofReturns ZombiesReaped
CHECK_DEADLOCK FALSE
