SPECIFICATION Spec
CONSTANTS
  c1 = c1
  c2 = c2
  c3 = c3
  Client = {c1, c2, c3}
  Input <- MCFlood
  MaxSent = 3
  MaxClients = 2
  MaxMsg = 2
  Header = 0
  Expected = 1
  Faults = {"select", "eintr", "accept", "malloc", "close", "reset", "sigpipe"}
CONSTRAINT MCBound
INVARIANTS TypeOK RosterExact
PROPERTIES RefinesOrderedBroadcast
SYMMETRY Symmetry
