SPECIFICATION OneSpec
CONSTANTS
    Clients = {c1, c2}
    Workers = {w1, w2}
    NoOne = NoOne
    BUF_SIZE = 2
    SockBuf = 3
    Writers = {c1}
    MaxLine = 3
    MaxLines = 2
    ChatLines = 1
INVARIANTS OneRead FreedNotUsed LineIntact PairsExact SocksExact SentOnce
PROPERTIES EchoServes NotiServes LeaverRemoved
CHECK_DEADLOCK FALSE
