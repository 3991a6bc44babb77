\* Lock waits against a client that may hold or drop its stream at will.
CONSTANTS
  q1 = q1
  q2 = q2
  Sql = {q1, q2}
  CacheSize = 1
  ChanSize = 1
  MaxItems = 2
  MaxExec = 3
  MaxStmt = 2
SPECIFICATION LiveSpec
PROPERTIES
  ImplementsStatementUse
  PrepareNeverHangs
  CloseDisconnects
  PolledStreamEnds
