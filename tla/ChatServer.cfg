SPECIFICATION Spec
CONSTANTS
  c1 = c1
  c2 = c2
  c3 = c3
  Client = {c1, c2}
  Input <- MCLines
  MaxSent = 4
  MaxClients = 2
  MaxMsg = 4
  Header = 2
  Expected = 2
  Faults = {}
INVARIANTS NoLostWakeup Reassembly FinishedExact
SYMMETRY Symmetry
