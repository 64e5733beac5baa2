SPECIFICATION Spec
CONSTANTS
  Conn = {k1, k2}
  Modes = {"passive", "full", "restart", "truncate"}
  MaxPage = 2
  MaxCommit = 3
  None = None
CONSTRAINT Sound
INVARIANTS NothingLost RepeatableRead
