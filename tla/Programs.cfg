SPECIFICATION AnySpec
CONSTANTS
  c1 = c1
  c2 = c2
  Main = Main
  Clients <- MCClients
  Impatient <- MCImpatient
  Fds <- MCFds
  Exchanges <- MCExchanges
  BUF_SIZE = 2
  Lines = 1
  Rounds = 2
  Word = 8
  NUM_THREAD = 2
  Loops = 2
  Messages = 2
  Pieces = 3
  MaxFaults = 1
  Turns = 5
  Numbers <- MCNumbers
  MaxInt = 1
  NoNumber = NoNumber
INVARIANTS ReplyRight PrintsEnd OwnConnection Outcome InStep OnePermit
PROPERTIES Served AllEnd AllHear HandsOver Terminates
CHECK_DEADLOCK FALSE
