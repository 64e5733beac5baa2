SPECIFICATION Spec
CONSTANTS
  h1 = h1  h2 = h2  h3 = h3  h4 = h4
  proc1 = proc1  proc2 = proc2
  Handle <- MCHandle
  Process <- MCProcess
  Owner <- MCOwner
  OsMayFail <- MCProcess
  NoEntry = NoEntry
SYMMETRY SameProcess
INVARIANTS ExclusiveExcludes
PROPERTIES ReaderCountKept
