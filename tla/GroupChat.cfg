SPECIFICATION GFairSpec
CONSTANTS
  c1 = c1
  c2 = c2
  Client = {c1, c2}
  Input <- MCInput
  MaxSent = 4
  MaxClients = 2
  MaxMsg = 4
  Header = 1
  Expected = 2
  Faults = {"close"}
  NumMessages = 1
  SockCap = 1
INVARIANTS CommitAfterEverything NobodyDropped
PROPERTIES Termination RefinesChatServer
