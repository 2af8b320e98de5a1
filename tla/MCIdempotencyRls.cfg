SPECIFICATION KeySpec
CONSTANTS
  r1 = r1
  r2 = r2
  r3 = r3
  b1 = b1
  b2 = b2
  Requests <- MCRequests
  Bodies <- MCBodies
  RowSecurity = TRUE
  HasBody = TRUE
  Faults = {}
  MaxFaults = 0
SYMMETRY MCSymmetry
INVARIANTS LoserHasWinner
CHECK_DEADLOCK FALSE
