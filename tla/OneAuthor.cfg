SPECIFICATION Spec
CONSTANTS
  c1 = c1
  c2 = c2
  c3 = c3
  Client = {c1, c2}
  Input <- MCLines
  MaxSent = 3
  MaxClients = 2
  MaxMsg = 6
  Header = 1
  Expected = 2
  Faults = {"reset"}
INVARIANTS OneAuthor
SYMMETRY Symmetry
