\* The dropped-transaction claim against detached workers.
CONSTANTS
  s1 = s1
  Stmt = {s1}
  NoStmt = NoStmt
  MaxTxn = 1
  MayAbandon = TRUE
SPECIFICATION Spec
INVARIANTS
  DroppedTransactionRollsBack
