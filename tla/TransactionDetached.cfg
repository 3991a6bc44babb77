\* Clients may drop running statements; workers are detached.
CONSTANTS
  s1 = s1
  s2 = s2
  s3 = s3
  Stmt = {s1, s2, s3}
  NoStmt = NoStmt
  MaxTxn = 2
  MayAbandon = TRUE
SPECIFICATION Spec
SYMMETRY StmtSymmetry
INVARIANTS
  TypeOK
  ManualModeIsRemembered
  AckedAutocommitIsDurable
  AckedCommitIsDurable
  NoCommitNoTrace
  AllOrNothing
