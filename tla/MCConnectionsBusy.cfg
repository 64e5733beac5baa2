SPECIFICATION MCSpec
SYMMETRY MCSymmetry
CONSTANTS
  k0 = k0  k1 = k1  k2 = k2
  Conn <- MCConn
  MaxPage = 2
  InitPages = 1
  MaxCommit = 2
  MaxSaves = 1
  Pragmas = FALSE
  Vacuums = FALSE
  None = None
INVARIANT AutocommitLeavesNothing
