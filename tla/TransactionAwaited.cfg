\* Every statement is awaited: the promise is refined step by step.
CONSTANTS
  s1 = s1
  s2 = s2
  Stmt = {s1, s2}
  NoStmt = NoStmt
  MaxTxn = 2
  MayAbandon = FALSE
SPECIFICATION Spec
PROPERTIES
  ImplementsPromise
