SPECIFICATION MCSpec
CONSTANTS
  Parts = {"transactions", "rowid", "clustered"}
  Attached <- MCAttached
  Name = {"a", "b"}
  MaxStmt = 3
  MaxSaves = 2
  FaultSets <- MCFaultSets
INVARIANTS ForeignKeysCommitted CleanBetween IndexesAgree ForeignKeysHold SessionComplete
PROPERTIES OneTransaction Terminates
